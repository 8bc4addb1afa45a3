------------------------- MODULE TcpLifecycleProofs -------------------------
(***************************************************************************)
(* What TcpLifecycle guarantees for every number of clients, every         *)
(* backlog, every limit of repetitions and links of every length.          *)
(***************************************************************************)
EXTENDS TcpLifecycle, SequenceTheorems, FiniteSetTheorems, WellFoundedInduction, TLAPS

-----------------------------------------------------------------------------
(***************************************************************************)
(* The inductive invariant.  What is on a link matters only as a set, but  *)
(* for one thing: behind a segment that is not a SYN there is no SYN any   *)
(* more.  So once the server has seen such a segment it makes no further   *)
(* child for the client, and what is known of the child stays true.        *)
(***************************************************************************)
Kinds == {"SYN", "SYNACK", "ACK", "DATA", "FIN", "RST"}
Seg == [kind : Kinds, seq : Nat, ack : Nat]
Entry == [seg : Seg, times : 0..(MaxTimes + 1)]
Sock == [state : States, snd_una : Nat, snd_nxt : Nat, rcv_nxt : Nat,
         send_buf : Seq(Entry), rcv_buf : {0, 1}]
Link == [client : Clients, generation : Nat]
Places == {"start", "sent", "hashed", "asleep", "connected", "closed"}
Pcs == {"accept", "read", "tested", "asleep", "eof", "closed"}

Elems(q) == {q[i] : i \in DOMAIN q}

SynFirst(u) == \A i, j \in DOMAIN u : i < j /\ u[j].kind = "SYN" => u[i].kind = "SYN"

Opening(s) == s.state \in {"CLOSED", "SYN_SENT"}

\* The server makes no child any more for the client with sock s.
NoMoreSyn(s, U) == ~Opening(s) /\ \A x \in U : x.kind # "SYN"

\* The states of the client's sock, as far as its application has got.
StatesAt(a) ==
  CASE a \in {"start", "sent"} -> {"CLOSED"}
    [] a \in {"hashed", "asleep"} -> {"SYN_SENT", "ESTABLISHED", "FREED"}
    [] a = "connected" -> {"ESTABLISHED", "FREED"}
    [] OTHER -> {"FIN_WAIT_1", "FIN_WAIT_2", "TIME_WAIT", "FREED"}

\* The numbers of what the client sends: SYN 5, data 6, FIN behind them.
Numbering(x, s, a, w) ==
  /\ x.kind \in {"SYN", "ACK", "DATA", "FIN", "RST"}
  /\ x.kind = "SYN" => x.seq = 5 /\ a # "start"
  /\ x.kind = "DATA" => x.seq = 6 /\ w = 1
  /\ x.kind = "FIN" => x.seq = 6 + w /\ a = "closed"
  /\ x.kind \in {"ACK", "RST"} => x.seq <= s.snd_nxt

ClientOK(s, a, w) ==
  /\ s \in Sock /\ a \in Places /\ w \in {0, 1}
  /\ s.snd_nxt = (IF a = "start" THEN 5 ELSE IF a = "closed" THEN 7 + w ELSE 6 + w)
  /\ s.state \in StatesAt(a) /\ s.rcv_buf = 0
  /\ w = 1 => a \in {"connected", "closed"}
  /\ Opening(s) => s.rcv_nxt = 0 /\ s.snd_una = 0
  /\ \A e \in Elems(s.send_buf) :
       /\ Numbering(e.seg, s, a, w) /\ e.seg.kind \in {"SYN", "DATA", "FIN"}
       /\ e.seg.kind = "SYN" <=> Opening(s)

UpOK(U, s, a, w) ==
  /\ U \subseteq Seg
  /\ \A x \in U : /\ Numbering(x, s, a, w)
                  /\ s.state # "FREED" => x.ack <= s.rcv_nxt
                  /\ Opening(s) => x.kind = "SYN"

ChildOK(k, s, a) ==
  /\ k \in Sock
  /\ k.snd_nxt - 100 * Generation(k) \in 0..2
  /\ ~Hashed(k) => k.state = "FREED" /\ k.rcv_buf = 0 /\ k.send_buf = << >>
  /\ Hashed(k) =>
       /\ k.state \in {"SYN_RECV", "ESTABLISHED", "CLOSE_WAIT", "LAST_ACK"}
       /\ k.snd_nxt = 100 * Generation(k) + (IF k.state = "LAST_ACK" THEN 2 ELSE 1)
       /\ Generation(k) >= 1 /\ k.snd_una <= k.snd_nxt
       /\ k.state \in {"ESTABLISHED", "CLOSE_WAIT"} => k.snd_una = k.snd_nxt
       /\ 6 <= k.rcv_nxt /\ k.rcv_nxt <= s.snd_nxt
  /\ \A e \in Elems(k.send_buf) :
       /\ e.seg.kind \in {"SYNACK", "FIN"} /\ SeqEnd(e.seg) <= k.snd_nxt
       /\ e.seg.kind = "FIN" => a = "closed"
  /\ s.rcv_nxt <= k.snd_nxt

DownOK(D, k, s, U, a) ==
  /\ D \subseteq Seg
  /\ \A x \in D : /\ x.kind \in {"SYNACK", "ACK", "FIN", "RST"} /\ SeqEnd(x) <= k.snd_nxt
                  /\ x.kind = "FIN" => a = "closed"
                  /\ x.ack > 6 => NoMoreSyn(s, U)
                  /\ Hashed(k) => x.ack <= k.rcv_nxt

Agree(s, k, U, a, w) ==
  /\ s.snd_una > 6 => NoMoreSyn(s, U)
  /\ Hashed(k) =>
       /\ k.state # "SYN_RECV" \/ k.rcv_nxt > 6 => NoMoreSyn(s, U)
       /\ s.state # "FREED" => k.snd_una <= s.rcv_nxt
       /\ s.snd_una <= k.rcv_nxt
       /\ k.state \in {"CLOSE_WAIT", "LAST_ACK"} => a = "closed" /\ k.rcv_nxt = 7 + w

\* v: where the server is with the child it has accepted, "none" before.
Served(s, k, U, a, w, g, v) ==
  /\ v \in Pcs \cup {"none"} /\ g \in {0, 1} /\ g <= w
  /\ v = "none" => g = 0
  /\ v # "none" => NoMoreSyn(s, U) /\ (Hashed(k) => k.state # "SYN_RECV")
  /\ v \in {"eof", "closed"} =>
       a = "closed" /\ g = w /\ (Hashed(k) => k.state \in {"CLOSE_WAIT", "LAST_ACK"})
  /\ Hashed(k) => /\ v = "eof" => k.state = "CLOSE_WAIT"
                  /\ k.state = "LAST_ACK" => v = "closed"
                  /\ g + k.rcv_buf = IF w = 1 /\ k.rcv_nxt >= 7 THEN 1 ELSE 0

Connection(s, k, U, D, a, w, g, v) ==
  /\ ClientOK(s, a, w) /\ UpOK(U, s, a, w) /\ ChildOK(k, s, a)
  /\ DownOK(D, k, s, U, a) /\ Agree(s, k, U, a, w) /\ Served(s, k, U, a, w, g, v)

\* The queues of the listening sock: where the child of one client is linked.
Once(q, x) == \E i \in DOMAIN q : \A j \in DOMAIN q : q[j] = x <=> j = i

Linked(lq, aq, k, c, v) ==
  LET x == [client |-> c, generation |-> Generation(k)]
  IN /\ \A y \in Elems(lq) \cup Elems(aq) : y.client = c => y.generation <= Generation(k)
     /\ Hashed(k) =>
          IF k.state = "SYN_RECV" THEN Once(lq, x) /\ x \notin Elems(aq)
          ELSE x \notin Elems(lq) /\ (IF v = "none" THEN Once(aq, x) ELSE x \notin Elems(aq))

View(c) == IF server.csk = c THEN server.pc ELSE "none"

ConnectionInv(c) ==
  /\ SynFirst(up[c])
  /\ Connection(sk[c], child[c], Elems(up[c]), Elems(down[c]), app[c], wrote[c], got[c], View(c))
  /\ Linked(listener.listen_queue, listener.accept_queue, child[c], c, View(c))

Typing ==
  /\ sk \in [Clients -> Sock] /\ child \in [Clients -> Sock]
  /\ listener \in [state : {"LISTEN", "FREED"}, listen_queue : Seq(Link),
                   accept_queue : Seq(Link), accept_backlog : Nat]
  /\ listener.accept_backlog = Len(listener.accept_queue)
  /\ listener.accept_backlog <= Backlog
  /\ up \in [Clients -> Seq(Seg)] /\ down \in [Clients -> Seq(Seg)]
  /\ app \in [Clients -> Places] /\ wrote \in [Clients -> {0, 1}] /\ got \in [Clients -> {0, 1}]
  /\ server \in [pc : Pcs, csk : Clients \cup {"none"}]
  /\ server.pc = "accept" <=> server.csk = "none"
  /\ waits = {} /\ corrupt \in BOOLEAN

IInv == Typing /\ \A c \in Clients : ConnectionInv(c)

-----------------------------------------------------------------------------
(***************************************************************************)
(* Sequences: what a link and the queues hold after each of the operations *)
(* on them.                                                                *)
(***************************************************************************)
LEMMA LeastNatural ==
  ASSUME NEW T, T \subseteq Nat, T # {}
  PROVE  \E m \in T : \A n \in T : m <= n
<1>1. PICK m \in T : \A n \in T : ~(<<n, m>> \in OpToRel(<, Nat))
  BY NatLessThanWellFounded, WFMin
<1>2. \A n \in T : ~(n < m)
  BY <1>1 DEF OpToRel
<1> QED
  BY <1>2

LEMMA MinFacts ==
  ASSUME NEW n \in Nat, NEW J, J \subseteq 1..n,
         NEW m, m = IF J # {} THEN Min(J) ELSE 0
  PROVE  m \in 0..n /\ (m = 0 => J = {}) /\ (m # 0 => m \in J)
<1>1. CASE J # {}
  <2>1. J \subseteq Nat
    OBVIOUS
  <2>2. PICK l \in J : \A i \in J : l <= i
    BY <1>1, <2>1, LeastNatural
  <2>3. m = CHOOSE x \in J : \A y \in J : x <= y
    BY <1>1 DEF Min
  <2>4. m \in J
    BY <2>2, <2>3
  <2> QED
    BY <2>4
<1> QED
  BY <1>1

LEMMA ClearFacts ==
  ASSUME NEW q \in Seq(Entry), NEW ack \in Nat
  PROVE  /\ tcp_send_buf_clear(q, ack) \in Seq(Entry)
         /\ Elems(tcp_send_buf_clear(q, ack)) \subseteq Elems(q)
<1> DEFINE J == {i \in 1..Len(q) : SeqEnd(q[i].seg) > ack}
           n == IF J # {} THEN Min(J) ELSE 0
<1>1. SelectInSeq(q, LAMBDA x : SeqEnd(x.seg) > ack) = n
  BY DEF SelectInSeq
<1>2. n \in 0..Len(q)
  BY MinFacts, J \subseteq 1..Len(q), Len(q) \in Nat
<1> HIDE DEF n
<1>3. tcp_send_buf_clear(q, ack) = IF n = 0 THEN << >> ELSE SubSeq(q, n, Len(q))
  BY <1>1 DEF tcp_send_buf_clear
<1>4. CASE n = 0
  BY <1>3, <1>4 DEF Elems
<1>5. CASE n # 0
  <2>1. /\ SubSeq(q, n, Len(q)) \in Seq(Entry) /\ Len(SubSeq(q, n, Len(q))) = Len(q) - n + 1
        /\ \A i \in 1..(Len(q) - n + 1) : SubSeq(q, n, Len(q))[i] = q[n + i - 1]
    BY <1>2, <1>5
  <2>2. \A i \in 1..(Len(q) - n + 1) : n + i - 1 \in DOMAIN q
    BY <1>2, <1>5
  <2> QED
    BY <1>3, <1>5, <2>1, <2>2 DEF Elems
<1> QED
  BY <1>4, <1>5

LEMMA PlaceFacts ==
  ASSUME NEW S, NEW q \in Seq(S), NEW x, NEW n, n = SelectInSeq(q, LAMBDA y : y = x)
  PROVE  /\ n \in 0..Len(q)
         /\ x \in Elems(q) => n \in 1..Len(q) /\ q[n] = x
<1> DEFINE J == {i \in 1..Len(q) : q[i] = x}
<1>1. n = IF J # {} THEN Min(J) ELSE 0
  BY DEF SelectInSeq
<1>2. /\ J \subseteq 1..Len(q) /\ Len(q) \in Nat
      /\ \A i \in J : q[i] = x
      /\ x \in Elems(q) => J # {}
  BY DEF Elems
<1> HIDE DEF J
<1>3. n \in 0..Len(q) /\ (n = 0 => J = {}) /\ (n # 0 => n \in J)
  BY MinFacts, <1>1, <1>2
<1> QED
  BY ONLY <1>2, <1>3, Zenon

LEMMA SentFacts ==
  ASSUME NEW q \in Seq(Seg), NEW out \in Seq(Seg)
  PROVE  /\ Sent(q, out) \in Seq(Seg)
         /\ Elems(Sent(q, out)) \subseteq Elems(q) \cup Elems(out)
         /\ SynFirst(q) /\ (\A x \in Elems(out) : x.kind = "SYN" => \A y \in Elems(q) : y.kind = "SYN")
              /\ Len(out) <= 1 => SynFirst(Sent(q, out))
<1> DEFINE r == q \o out
           m == Smaller(MaxNet, Len(q) + Len(out))
<1>1. /\ r \in Seq(Seg) /\ Len(r) = Len(q) + Len(out)
      /\ \A i \in 1..(Len(q) + Len(out)) : r[i] = IF i <= Len(q) THEN q[i] ELSE out[i - Len(q)]
  BY ONLY ConcatProperties, Zenon
<1>2. m \in 0..Len(r)
  BY <1>1, LifecycleAssumption DEF Smaller
<1> HIDE DEF m, r
<1>3. /\ SubSeq(r, 1, m) \in Seq(Seg) /\ Len(SubSeq(r, 1, m)) = m
      /\ \A i \in 1..m : SubSeq(r, 1, m)[i] = r[i]
  BY <1>1, <1>2
<1>4. Sent(q, out) = SubSeq(r, 1, m)
  BY DEF Sent, r, m
<1> DEFINE t == Sent(q, out)
<1>5. /\ t \in Seq(Seg) /\ DOMAIN t = 1..m /\ m \in Nat /\ m <= Len(q) + Len(out)
      /\ \A i \in 1..m : t[i] = IF i <= Len(q) THEN q[i] ELSE out[i - Len(q)]
  BY <1>1, <1>2, <1>3, <1>4
<1> HIDE DEF t
<1>6. Elems(t) \subseteq Elems(q) \cup Elems(out)
  <2> SUFFICES ASSUME NEW i \in 1..m
               PROVE  t[i] \in Elems(q) \cup Elems(out)
    BY <1>5 DEF Elems
  <2>1. CASE i <= Len(q)
    BY <1>5, <2>1 DEF Elems
  <2>2. CASE ~(i <= Len(q))
    <3>1. i - Len(q) \in DOMAIN out
      BY <1>5, <2>2
    <3> QED
      BY <1>5, <2>2, <3>1 DEF Elems
  <2> QED
    BY <2>1, <2>2
<1>7. ASSUME SynFirst(q), Len(out) <= 1,
             \A x \in Elems(out) : x.kind = "SYN" => \A y \in Elems(q) : y.kind = "SYN"
      PROVE  SynFirst(t)
  <2> SUFFICES ASSUME NEW i \in 1..m, NEW j \in 1..m, i < j, t[j].kind = "SYN"
               PROVE  t[i].kind = "SYN"
    BY <1>5 DEF SynFirst
  <2>1. CASE j <= Len(q)
    BY <1>5, <1>7, <2>1 DEF SynFirst
  <2>2. CASE ~(j <= Len(q))
    <3>1. j - Len(q) = 1 /\ 1 \in DOMAIN out /\ i \in DOMAIN q
      BY <1>5, <1>7, <2>2
    <3>2. t[j] = out[1] /\ t[i] = q[i]
      BY <1>5, <2>2, <3>1
    <3> QED
      BY <1>7, <3>1, <3>2 DEF Elems
  <2> QED
    BY <2>1, <2>2
<1> QED
  BY <1>5, <1>6, <1>7 DEF t

LEMMA TailFacts ==
  ASSUME NEW S, NEW q \in Seq(S), q # << >>
  PROVE  /\ Head(q) \in Elems(q) /\ Head(q) = q[1] /\ 1 \in DOMAIN q
         /\ Tail(q) \in Seq(S) /\ Len(Tail(q)) = Len(q) - 1
         /\ \A i \in 1..(Len(q) - 1) : Tail(q)[i] = q[i + 1]
         /\ Elems(Tail(q)) \subseteq Elems(q)
<1>1. /\ 1 \in DOMAIN q /\ Head(q) = q[1]
      /\ Tail(q) \in Seq(S) /\ Len(Tail(q)) = Len(q) - 1
      /\ \A i \in 1..(Len(q) - 1) : Tail(q)[i] = q[i + 1] /\ i + 1 \in DOMAIN q
  OBVIOUS
<1> QED
  BY <1>1 DEF Elems

LEMMA SynFirstFacts ==
  ASSUME NEW q \in Seq(Seg), q # << >>, SynFirst(q)
  PROVE  /\ SynFirst(Tail(q))
         /\ Head(q).kind # "SYN" => \A x \in Elems(q) : x.kind # "SYN"
<1>1. /\ DOMAIN Tail(q) = 1..(Len(q) - 1) /\ Head(q) = q[1] /\ DOMAIN q = 1..Len(q)
      /\ Len(q) \in Nat /\ \A i \in 1..(Len(q) - 1) : Tail(q)[i] = q[i + 1]
  BY TailFacts
<1>2. SynFirst(Tail(q))
  BY <1>1 DEF SynFirst
<1>3. ASSUME Head(q).kind # "SYN", NEW i \in 1..Len(q)
      PROVE  q[i].kind # "SYN"
  <2>1. CASE i = 1
    BY <1>1, <1>3, <2>1
  <2>2. CASE i # 1
    BY <1>1, <1>3, <2>2 DEF SynFirst
  <2> QED
    BY <2>1, <2>2
<1> QED
  BY <1>1, <1>2, <1>3 DEF Elems

-----------------------------------------------------------------------------
(***************************************************************************)
(* The queues: an entry is appended, removed at its place, or is the first *)
(* and taken off.                                                          *)
(***************************************************************************)
LEMMA RemoveAtFacts ==
  ASSUME NEW S, NEW s \in Seq(S), NEW i \in 1..Len(s)
  PROVE  /\ RemoveAt(s, i) \in Seq(S)
         /\ Len(RemoveAt(s, i)) = Len(s) - 1
         /\ \A k \in 1..(Len(s) - 1) : RemoveAt(s, i)[k] = s[IF k < i THEN k ELSE k + 1]
<1> DEFINE p == SubSeq(s, 1, i - 1)
           q == SubSeq(s, i + 1, Len(s))
<1>1. /\ p \in Seq(S) /\ Len(p) = i - 1
      /\ \A k \in 1..(i - 1) : p[k] = s[k]
  OBVIOUS
<1>2. /\ q \in Seq(S) /\ Len(q) = Len(s) - i
      /\ \A k \in 1..(Len(s) - i) : q[k] = s[i + k]
  OBVIOUS
<1> HIDE DEF p, q
<1>3. /\ p \o q \in Seq(S) /\ Len(p \o q) = Len(s) - 1
      /\ \A k \in 1..(Len(s) - 1) :
           (p \o q)[k] = IF k <= Len(p) THEN p[k] ELSE q[k - Len(p)]
  <2>1. Len(p) + Len(q) = Len(s) - 1
    BY <1>1, <1>2
  <2>2. /\ p \o q \in Seq(S) /\ Len(p \o q) = Len(p) + Len(q)
        /\ \A k \in 1..(Len(p) + Len(q)) :
             (p \o q)[k] = IF k <= Len(p) THEN p[k] ELSE q[k - Len(p)]
    BY ONLY ConcatProperties, <1>1, <1>2, Zenon
  <2> QED
    BY ONLY <2>1, <2>2, Zenon
<1>4. RemoveAt(s, i) = p \o q
  BY DEF RemoveAt, p, q
<1>5. ASSUME NEW k \in 1..(Len(s) - 1)
      PROVE  (p \o q)[k] = s[IF k < i THEN k ELSE k + 1]
  <2>1. CASE k < i
    BY <1>1, <1>3, <2>1
  <2>2. CASE ~(k < i)
    <3>1. k - (i - 1) \in 1..(Len(s) - i) /\ i + (k - (i - 1)) = k + 1
      BY <2>2
    <3> QED
      BY <1>2, <1>3, <2>2, <3>1
  <2> QED
    BY <2>1, <2>2
<1> QED
  BY <1>3, <1>4, <1>5

\* r is q without the entry at place i.
Without(r, q, i) ==
  /\ Len(r) = Len(q) - 1
  /\ \A n \in 1..(Len(q) - 1) : r[n] = q[IF n < i THEN n ELSE n + 1]

LEMMA WithoutFacts ==
  ASSUME NEW S, NEW q \in Seq(S), NEW r \in Seq(S), NEW i \in 1..Len(q), Without(r, q, i)
  PROVE  /\ Elems(r) \subseteq Elems(q)
         /\ \A x : Once(q, x) /\ q[i] = x => x \notin Elems(r)
         /\ \A x : Once(q, x) /\ q[i] # x => Once(r, x)
<1>1. /\ DOMAIN r = 1..(Len(q) - 1) /\ DOMAIN q = 1..Len(q) /\ Len(q) \in Nat
      /\ \A n \in 1..(Len(q) - 1) : r[n] = q[IF n < i THEN n ELSE n + 1]
  BY DEF Without
<1>2. \A n \in DOMAIN r : (IF n < i THEN n ELSE n + 1) \in DOMAIN q \ {i}
  BY <1>1
<1>3. Elems(r) \subseteq Elems(q)
  BY <1>1, <1>2 DEF Elems
<1>4. ASSUME NEW x, Once(q, x), q[i] = x
      PROVE  x \notin Elems(r)
  BY <1>1, <1>2, <1>4 DEF Elems, Once
<1>5. ASSUME NEW x, Once(q, x), q[i] # x
      PROVE  Once(r, x)
  <2>1. PICK n \in DOMAIN q : \A j \in DOMAIN q : q[j] = x <=> j = n
    BY <1>5 DEF Once
  <2> DEFINE m == IF n < i THEN n ELSE n - 1
  <2>2. m \in DOMAIN r /\ n # i
    BY <1>1, <1>5, <2>1
  <2>3. ASSUME NEW j \in DOMAIN r
        PROVE  (IF j < i THEN j ELSE j + 1) = n <=> j = m
    <3>1. j \in Nat /\ n \in Nat /\ i \in Nat
      BY <1>1
    <3> QED
      BY <2>2, <3>1
  <2>4. \A j \in DOMAIN r : r[j] = x <=> j = m
    BY <1>1, <1>2, <2>1, <2>3
  <2> QED
    BY <2>2, <2>4 DEF Once
<1> QED
  BY <1>3, <1>4, <1>5

LEMMA AppendFacts ==
  ASSUME NEW S, NEW q \in Seq(S), NEW y \in S
  PROVE  /\ Append(q, y) \in Seq(S) /\ Len(Append(q, y)) = Len(q) + 1
         /\ Elems(Append(q, y)) = Elems(q) \cup {y}
         /\ y \notin Elems(q) => Once(Append(q, y), y)
         /\ \A x : x # y /\ Once(q, x) => Once(Append(q, y), x)
<1> DEFINE r == Append(q, y)
<1>1. /\ r \in Seq(S) /\ Len(r) = Len(q) + 1 /\ Len(q) \in Nat
      /\ DOMAIN r = 1..(Len(q) + 1) /\ DOMAIN q = 1..Len(q)
      /\ \A i \in 1..Len(q) : r[i] = q[i]
      /\ r[Len(q) + 1] = y
  OBVIOUS
<1> HIDE DEF r
<1>2. Elems(r) = Elems(q) \cup {y}
  <2>1. Elems(r) \subseteq Elems(q) \cup {y}
    BY <1>1 DEF Elems
  <2>2. y \in Elems(r) /\ Elems(q) \subseteq Elems(r)
    BY <1>1 DEF Elems
  <2> QED
    BY <2>1, <2>2
<1>3. ASSUME y \notin Elems(q)
      PROVE  Once(r, y)
  <2>1. \A i \in 1..Len(q) : r[i] # y
    BY <1>1, <1>3 DEF Elems
  <2>2. \A j \in DOMAIN r : r[j] = y <=> j = Len(q) + 1
    BY <1>1, <2>1
  <2> QED
    BY <1>1, <2>2 DEF Once
<1>4. ASSUME NEW x, x # y, Once(q, x)
      PROVE  Once(r, x)
  <2>1. PICK n \in DOMAIN q : \A j \in DOMAIN q : q[j] = x <=> j = n
    BY <1>4 DEF Once
  <2>2. \A j \in DOMAIN r : r[j] = x <=> j = n
    BY <1>1, <1>4, <2>1
  <2> QED
    BY <1>1, <2>1, <2>2 DEF Once
<1> QED
  BY <1>1, <1>2, <1>3, <1>4 DEF r

LEMMA OnceFacts ==
  ASSUME NEW S, NEW q \in Seq(S), NEW x
  PROVE  /\ Once(q, x) => x \in Elems(q) /\ Cardinality({i \in DOMAIN q : q[i] = x}) = 1
         /\ x \notin Elems(q) => {i \in DOMAIN q : q[i] = x} = {}
         /\ Cardinality({}) = 0
<1>1. ASSUME Once(q, x)
      PROVE  x \in Elems(q) /\ Cardinality({i \in DOMAIN q : q[i] = x}) = 1
  <2>1. PICK n \in DOMAIN q : \A j \in DOMAIN q : q[j] = x <=> j = n
    BY <1>1 DEF Once
  <2>2. {i \in DOMAIN q : q[i] = x} = {n}
    BY <2>1
  <2> QED
    BY <2>1, <2>2, FS_Singleton DEF Elems
<1> QED
  BY <1>1, FS_EmptySet DEF Elems

-----------------------------------------------------------------------------
(***************************************************************************)
(* Socks: what each operation leaves of the fields of one.                 *)
(***************************************************************************)
LEMMA GenerationFacts ==
  ASSUME NEW n \in Nat, NEW r \in 0..2, NEW k, k.snd_nxt = 100 * n + r
  PROVE  Generation(k) = n
  BY DEF Generation

LEMMA SockFacts ==
  ASSUME NEW s \in Sock
  PROVE  /\ s.snd_una \in Nat /\ s.snd_nxt \in Nat /\ s.rcv_nxt \in Nat
         /\ s.send_buf \in Seq(Entry) /\ s.rcv_buf \in {0, 1} /\ s.state \in States
         /\ Generation(s) \in Nat /\ 100 * Generation(s) <= s.snd_nxt
  BY DEF Sock, Generation

LEMMA SegFacts ==
  ASSUME NEW x \in Seg
  PROVE  /\ x.kind \in Kinds /\ x.seq \in Nat /\ x.ack \in Nat /\ SeqEnd(x) \in Nat
         /\ SeqEnd(x) = x.seq + (IF x.kind \in {"SYN", "SYNACK", "DATA", "FIN"} THEN 1 ELSE 0)
  BY DEF Seg, SeqEnd

LEMMA SegmentFacts ==
  ASSUME NEW s \in Sock, NEW kind \in Kinds
  PROVE  /\ Segment(s, kind) \in Seg
         /\ Segment(s, kind).kind = kind
         /\ Segment(s, kind).seq = s.snd_nxt
         /\ Segment(s, kind).ack = s.rcv_nxt
  BY DEF Segment, Seg, Sock

LEMMA OneElem ==
  ASSUME NEW S, NEW x \in S
  PROVE  /\ <<x>> \in Seq(S) /\ Len(<<x>>) = 1 /\ Elems(<<x>>) = {x}
         /\ << >> \in Seq(S) /\ Len(<< >>) = 0 /\ Elems(<< >>) = {}
  BY DEF Elems

LEMMA FreedFacts ==
  ASSUME NEW s \in Sock
  PROVE  /\ Freed(s) \in Sock
         /\ Freed(s).state = "FREED" /\ Freed(s).snd_una = 0 /\ Freed(s).snd_nxt = s.snd_nxt
         /\ Freed(s).rcv_nxt = 0 /\ Freed(s).send_buf = << >> /\ Freed(s).rcv_buf = 0
         /\ Elems(Freed(s).send_buf) = {} /\ ~Hashed(Freed(s))
         /\ Generation(Freed(s)) = Generation(s)
<1>1. << >> \in Seq(Entry) /\ Elems(<< >>) = {}
  BY DEF Elems
<1>2. Freed(s) = [state |-> "FREED", snd_una |-> 0, snd_nxt |-> s.snd_nxt,
                  rcv_nxt |-> 0, send_buf |-> << >>, rcv_buf |-> 0]
  BY DEF Freed, NewSock
<1> QED
  BY <1>1, <1>2 DEF Sock, States, Hashed, Generation

LEMMA NumberedFacts ==
  ASSUME NEW s \in Sock, NEW kind \in {"SYN", "SYNACK", "DATA", "FIN"},
         NEW t, t = Numbered(s, kind)
  PROVE  /\ t \in Sock
         /\ t.state = s.state /\ t.snd_una = s.snd_una /\ t.snd_nxt = s.snd_nxt + 1
         /\ t.rcv_nxt = s.rcv_nxt /\ t.rcv_buf = s.rcv_buf
         /\ \A e \in Elems(t.send_buf) : e \in Elems(s.send_buf) \/ e.seg = Segment(s, kind)
<1> DEFINE e == [seg |-> Segment(s, kind), times |-> 0]
           b == Append(s.send_buf, e)
           n == s.snd_nxt + 1
<1>1. e \in Entry /\ e.seg = Segment(s, kind)
  BY SegmentFacts, LifecycleAssumption DEF Entry, Kinds
<1> HIDE DEF e
<1>2. b \in Seq(Entry) /\ Elems(b) = Elems(s.send_buf) \cup {e}
  BY <1>1, AppendFacts, SockFacts
<1>3. n \in Nat
  BY SockFacts
<1>4. t = [s EXCEPT !.snd_nxt = n, !.send_buf = b]
  BY DEF Numbered, e
<1> HIDE DEF b, n
<1>5. /\ t \in Sock
      /\ t.state = s.state /\ t.snd_una = s.snd_una /\ t.snd_nxt = n
      /\ t.rcv_nxt = s.rcv_nxt /\ t.rcv_buf = s.rcv_buf /\ t.send_buf = b
  BY <1>2, <1>3, <1>4 DEF Sock
<1> QED
  BY <1>1, <1>2, <1>5 DEF n

LEMMA RepeatedFacts ==
  ASSUME NEW s \in Sock, s.send_buf # << >>, NEW t, t = Repeated(s)
  PROVE  /\ ~Exhausted(s) => t \in Sock
         /\ t.state = s.state /\ t.snd_una = s.snd_una /\ t.snd_nxt = s.snd_nxt
         /\ t.rcv_nxt = s.rcv_nxt /\ t.rcv_buf = s.rcv_buf
         /\ \A e \in Elems(t.send_buf) : \E d \in Elems(s.send_buf) : e.seg = d.seg
         /\ Repeat(s) \in Seg /\ Repeat(s).ack = s.rcv_nxt
         /\ \E d \in Elems(s.send_buf) : /\ Repeat(s).kind = d.seg.kind
                                         /\ Repeat(s).seq = d.seg.seq
<1> DEFINE q == s.send_buf
           d == q[1]
           n == d.times + 1
           e == [d EXCEPT !.times = n]
           b == [q EXCEPT ![1] = e]
<1>1. q \in Seq(Entry) /\ 1 \in DOMAIN q /\ Head(q) = d /\ d \in Entry /\ d \in Elems(q)
  BY SockFacts DEF Elems
<1>2. d.times \in 0..(MaxTimes + 1) /\ d.seg \in Seg
  BY <1>1 DEF Entry
<1>3. t = [s EXCEPT !.send_buf = b]
  BY DEF Repeated
<1>4. e.seg = d.seg /\ (~Exhausted(s) => e \in Entry)
  <2>1. ~Exhausted(s) => n \in 0..(MaxTimes + 1)
    BY <1>1, <1>2, LifecycleAssumption DEF Exhausted
  <2> HIDE DEF n
  <2> QED
    BY <1>1, <2>1 DEF Entry
<1> HIDE DEF e, d, q
<1>5. /\ ~Exhausted(s) => b \in Seq(Entry)
      /\ DOMAIN b = DOMAIN q /\ b[1] = e /\ \A i \in DOMAIN q : i # 1 => b[i] = q[i]
  BY <1>1, <1>4
<1> HIDE DEF b
<1>6. \A f \in Elems(b) : \E h \in Elems(q) : f.seg = h.seg
  <2> SUFFICES ASSUME NEW i \in DOMAIN q
               PROVE  \E h \in Elems(q) : b[i].seg = h.seg
    BY <1>5 DEF Elems
  <2>1. CASE i = 1
    BY <1>1, <1>4, <1>5, <2>1
  <2>2. CASE i # 1
    BY <1>5, <2>2 DEF Elems
  <2> QED
    BY <2>1, <2>2
<1>7. /\ ~Exhausted(s) => t \in Sock
      /\ t.state = s.state /\ t.snd_una = s.snd_una /\ t.snd_nxt = s.snd_nxt
      /\ t.rcv_nxt = s.rcv_nxt /\ t.rcv_buf = s.rcv_buf /\ t.send_buf = b
  BY <1>3, <1>5 DEF Sock
<1>8. /\ Repeat(s) \in Seg /\ Repeat(s).ack = s.rcv_nxt
      /\ Repeat(s).kind = d.seg.kind /\ Repeat(s).seq = d.seg.seq
  BY <1>1, <1>2, SockFacts DEF Repeat, Seg, q
<1> QED
  BY <1>1, <1>6, <1>7, <1>8 DEF q

\* The segment carries the next number.
Fresh(s, x) == x.seq <= s.rcv_nxt /\ SeqEnd(x) > s.rcv_nxt

\* A segment that is taken: tcp_process up to the change of state.
LEMMA TakenFacts ==
  ASSUME NEW s \in Sock, NEW x \in Seg, NEW t, t = handle_ack(handle_recv_data(s, x), x),
         Fresh(s, x) /\ x.kind = "DATA" => s.rcv_buf = 0
  PROVE  /\ t \in Sock
         /\ t.state = s.state /\ t.snd_nxt = s.snd_nxt
         /\ t.rcv_nxt = IF Fresh(s, x) THEN SeqEnd(x) ELSE s.rcv_nxt
         /\ t.snd_una = IF HasAck(x) /\ s.snd_una < x.ack THEN x.ack ELSE s.snd_una
         /\ t.rcv_buf = IF Fresh(s, x) /\ x.kind = "DATA" /\ s.state \in Readable THEN 1 ELSE s.rcv_buf
         /\ Elems(t.send_buf) \subseteq Elems(s.send_buf)
<1> DEFINE n == SeqEnd(x)
           m == IF x.kind = "DATA" /\ s.state \in Readable THEN s.rcv_buf + 1 ELSE s.rcv_buf
           r == handle_recv_data(s, x)
<1>1. n \in Nat /\ SeqEnd(x) = n
  BY SegFacts
<1>2. Fresh(s, x) => m = IF x.kind = "DATA" /\ s.state \in Readable THEN 1 ELSE s.rcv_buf
  BY SockFacts
<1>3. r = IF Fresh(s, x) THEN [s EXCEPT !.rcv_nxt = n, !.rcv_buf = m] ELSE s
  BY DEF handle_recv_data, Fresh
<1> HIDE DEF n, m, r
<1>4. Fresh(s, x) => m \in {0, 1}
  BY <1>2, SockFacts
<1>5. /\ r \in Sock
      /\ r.state = s.state /\ r.snd_nxt = s.snd_nxt /\ r.snd_una = s.snd_una
      /\ r.send_buf = s.send_buf
      /\ r.rcv_nxt = IF Fresh(s, x) THEN n ELSE s.rcv_nxt
      /\ r.rcv_buf = IF Fresh(s, x) THEN m ELSE s.rcv_buf
  BY <1>1, <1>3, <1>4 DEF Sock
<1> DEFINE b == tcp_send_buf_clear(r.send_buf, x.ack)
<1>6. b \in Seq(Entry) /\ Elems(b) \subseteq Elems(s.send_buf) /\ x.ack \in Nat
  BY <1>5, ClearFacts, SegFacts, SockFacts
<1>7. t = IF HasAck(x) /\ r.snd_una < x.ack
          THEN [r EXCEPT !.snd_una = x.ack, !.send_buf = b] ELSE r
  BY DEF handle_ack, r
<1> HIDE DEF b
<1>8. /\ t \in Sock
      /\ t.state = r.state /\ t.snd_nxt = r.snd_nxt /\ t.rcv_nxt = r.rcv_nxt /\ t.rcv_buf = r.rcv_buf
      /\ t.snd_una = IF HasAck(x) /\ r.snd_una < x.ack THEN x.ack ELSE r.snd_una
      /\ t.send_buf = b \/ t.send_buf = r.send_buf
  BY <1>5, <1>6, <1>7 DEF Sock
<1> QED
  BY <1>1, <1>2, <1>5, <1>6, <1>8

-----------------------------------------------------------------------------
(***************************************************************************)
(* One connection: segments are lost or taken off a link, and the client's *)
(* sock or application makes a step.                                       *)
(***************************************************************************)
LEMMA Shrink ==
  ASSUME NEW s, NEW k, NEW U, NEW D, NEW a, NEW w, NEW g, NEW v,
         Connection(s, k, U, D, a, w, g, v), NEW V, NEW E, V \subseteq U, E \subseteq D
  PROVE  Connection(s, k, V, E, a, w, g, v)
<1>1. NoMoreSyn(s, U) => NoMoreSyn(s, V)
  BY DEF NoMoreSyn
<1>2. UpOK(V, s, a, w)
  BY DEF Connection, UpOK
<1>3. DownOK(E, k, s, V, a)
  BY <1>1 DEF Connection, DownOK
<1>4. Agree(s, k, V, a, w)
  BY <1>1 DEF Connection, Agree
<1>5. Served(s, k, V, a, w, g, v)
  BY <1>1 DEF Connection, Served
<1> QED
  BY <1>2, <1>3, <1>4, <1>5 DEF Connection

LEMMA ClientStep ==
  ASSUME NEW s, NEW k, NEW U, NEW D, NEW a, NEW w, NEW g, NEW v,
         Connection(s, k, U, D, a, w, g, v),
         NEW t, NEW V, NEW b, NEW z, ClientOK(t, b, z), UpOK(V, t, b, z),
         NoMoreSyn(s, U) => NoMoreSyn(t, V),
         s.snd_nxt <= t.snd_nxt, t.rcv_nxt <= k.snd_nxt,
         a = "closed" => b = "closed" /\ z = w,
         z = w \/ (w = 0 /\ s.snd_nxt = 6),
         t.snd_una > 6 => NoMoreSyn(t, V),
         Hashed(k) => /\ t.snd_una <= k.rcv_nxt
                      /\ t.state # "FREED" => k.snd_una <= t.rcv_nxt
  PROVE  Connection(t, k, V, D, b, z, g, v)
<1>1. /\ s \in Sock /\ t \in Sock /\ k \in Sock /\ w \in {0, 1} /\ z \in {0, 1}
      /\ t.snd_nxt \in Nat /\ s.snd_nxt \in Nat /\ k.rcv_nxt \in Nat
  BY SockFacts DEF Connection, ClientOK, ChildOK
<1>2. ChildOK(k, t, b)
  <2>1. Hashed(k) => k.rcv_nxt <= t.snd_nxt
    BY <1>1 DEF Connection, ChildOK
  <2> QED
    BY <2>1 DEF Connection, ChildOK
<1>3. DownOK(D, k, t, V, b)
  BY DEF Connection, DownOK
<1>4. Agree(t, k, V, b, z)
  BY DEF Connection, Agree
<1>5. Served(t, k, V, b, z, g, v)
  <2>1. ASSUME Hashed(k)
        PROVE  g + k.rcv_buf = IF z = 1 /\ k.rcv_nxt >= 7 THEN 1 ELSE 0
    <3>1. z = w \/ ~(k.rcv_nxt >= 7)
      BY <1>1, <2>1 DEF Connection, ChildOK
    <3> QED
      BY <1>1, <2>1, <3>1 DEF Connection, Served
  <2>2. g <= z
    BY <1>1 DEF Connection, Served
  <2> QED
    BY <2>1, <2>2 DEF Connection, Served
<1> QED
  BY <1>2, <1>3, <1>4, <1>5 DEF Connection

LEMMA ConnectSendStep ==
  ASSUME NEW s, NEW k, NEW U, NEW D, NEW w, NEW g, NEW v,
         Connection(s, k, U, D, "start", w, g, v)
  PROVE  /\ Numbered(s, "SYN") \in Sock /\ Segment(s, "SYN") \in Seg
         /\ \A x \in U : x.kind = "SYN"
         /\ Connection(Numbered(s, "SYN"), k, U \cup {Segment(s, "SYN")}, D, "sent", w, g, v)
<1> DEFINE t == Numbered(s, "SYN")
           y == Segment(s, "SYN")
<1>1. /\ s \in Sock /\ s.state = "CLOSED" /\ s.snd_nxt = 5 /\ w = 0
      /\ s.rcv_nxt = 0 /\ s.snd_una = 0 /\ s.rcv_buf = 0
  BY DEF Connection, ClientOK, StatesAt, Opening
<1>2. /\ t \in Sock /\ t.state = "CLOSED" /\ t.snd_nxt = 6
      /\ t.rcv_nxt = 0 /\ t.snd_una = 0 /\ t.rcv_buf = 0
      /\ \A e \in Elems(t.send_buf) : e \in Elems(s.send_buf) \/ e.seg = y
  BY <1>1, NumberedFacts
<1>3. y \in Seg /\ y.kind = "SYN" /\ y.seq = 5 /\ y.ack = 0
  BY <1>1, SegmentFacts DEF Kinds
<1> HIDE DEF t, y
<1>4. ClientOK(t, "sent", w)
  BY <1>1, <1>2, <1>3 DEF Connection, ClientOK, StatesAt, Opening, Numbering, Places
<1>5. UpOK(U \cup {y}, t, "sent", w)
  BY <1>1, <1>2, <1>3 DEF Connection, UpOK, Opening, Numbering
<1>6. Connection(t, k, U \cup {y}, D, "sent", w, g, v)
  BY <1>1, <1>2, <1>4, <1>5, ClientStep DEF Connection, NoMoreSyn, Opening, ChildOK, Agree
<1> QED
  BY <1>1, <1>2, <1>3, <1>6 DEF Connection, UpOK, Opening, t, y

LEMMA ConnectHashStep ==
  ASSUME NEW s, NEW k, NEW U, NEW D, NEW w, NEW g, NEW v,
         Connection(s, k, U, D, "sent", w, g, v),
         NEW t, t = [s EXCEPT !.state = "SYN_SENT"]
  PROVE  t \in Sock /\ Connection(t, k, U, D, "hashed", w, g, v)
<1>1. /\ s \in Sock /\ s.state = "CLOSED" /\ s.snd_nxt = 6 /\ w = 0
      /\ s.rcv_nxt = 0 /\ s.snd_una = 0 /\ s.rcv_buf = 0
  BY DEF Connection, ClientOK, StatesAt, Opening
<1>2. /\ t \in Sock /\ t.state = "SYN_SENT" /\ t.snd_nxt = 6 /\ t.rcv_nxt = 0
      /\ t.snd_una = 0 /\ t.rcv_buf = 0 /\ t.send_buf = s.send_buf
  BY <1>1 DEF Sock, States
<1>3. ClientOK(t, "hashed", w)
  BY <1>1, <1>2 DEF Connection, ClientOK, StatesAt, Opening, Numbering, Places
<1>4. UpOK(U, t, "hashed", w)
  BY <1>1, <1>2 DEF Connection, UpOK, Opening, Numbering
<1>5. Connection(t, k, U, D, "hashed", w, g, v)
  <2>1. NoMoreSyn(s, U) => NoMoreSyn(t, U)
    BY <1>1 DEF NoMoreSyn, Opening
  <2>2. s.snd_nxt <= t.snd_nxt /\ t.rcv_nxt <= k.snd_nxt
    BY <1>1, <1>2 DEF Connection, ChildOK
  <2>3. t.snd_una > 6 => NoMoreSyn(t, U)
    BY <1>2
  <2>4. Hashed(k) => /\ t.snd_una <= k.rcv_nxt
                     /\ t.state # "FREED" => k.snd_una <= t.rcv_nxt
    BY <1>1, <1>2 DEF Connection, ChildOK, Agree
  <2> QED
    BY ONLY <1>3, <1>4, <2>1, <2>2, <2>3, <2>4, ClientStep, Connection(s, k, U, D, "sent", w, g, v)
<1> QED
  BY <1>2, <1>5

LEMMA ConnectSleepStep ==
  ASSUME NEW s, NEW k, NEW U, NEW D, NEW w, NEW g, NEW v,
         Connection(s, k, U, D, "hashed", w, g, v)
  PROVE  Connection(s, k, U, D, "asleep", w, g, v)
<1>1. ClientOK(s, "asleep", w)
  BY DEF Connection, ClientOK, StatesAt, Numbering, Places
<1>2. UpOK(U, s, "asleep", w)
  BY DEF Connection, UpOK, Numbering
<1>3. s.snd_nxt \in Nat
  BY SockFacts DEF Connection, ClientOK
<1> QED
  BY <1>1, <1>2, <1>3, ClientStep DEF Connection, ChildOK, Agree

LEMMA WriteStep ==
  ASSUME NEW s, NEW k, NEW U, NEW D, NEW g, NEW v,
         Connection(s, k, U, D, "connected", 0, g, v), Hashed(s)
  PROVE  /\ Numbered(s, "DATA") \in Sock /\ Segment(s, "DATA") \in Seg
         /\ Segment(s, "DATA").kind = "DATA"
         /\ Connection(Numbered(s, "DATA"), k, U \cup {Segment(s, "DATA")}, D, "connected", 1, g, v)
<1> DEFINE t == Numbered(s, "DATA")
           y == Segment(s, "DATA")
<1>1. s \in Sock /\ s.state = "ESTABLISHED" /\ s.snd_nxt = 6 /\ s.rcv_buf = 0
  BY DEF Connection, ClientOK, StatesAt, Hashed
<1>2. /\ t \in Sock /\ t.state = "ESTABLISHED" /\ t.snd_nxt = 7
      /\ t.rcv_nxt = s.rcv_nxt /\ t.snd_una = s.snd_una /\ t.rcv_buf = 0
      /\ \A e \in Elems(t.send_buf) : e \in Elems(s.send_buf) \/ e.seg = y
  BY <1>1, NumberedFacts
<1>3. y \in Seg /\ y.kind = "DATA" /\ y.seq = 6 /\ y.ack = s.rcv_nxt
  BY <1>1, SegmentFacts DEF Kinds
<1>4. s.rcv_nxt \in Nat /\ s.snd_una \in Nat
  BY <1>1, SockFacts
<1> HIDE DEF t, y
<1>5. ClientOK(t, "connected", 1)
  <2>1. \A e \in Elems(s.send_buf) :
          /\ Numbering(e.seg, t, "connected", 1) /\ e.seg.kind \in {"SYN", "DATA", "FIN"}
          /\ e.seg.kind # "SYN"
    BY <1>1, <1>2 DEF Connection, ClientOK, Numbering, Opening
  <2>2. Numbering(y, t, "connected", 1)
    BY <1>3 DEF Numbering
  <2> QED
    BY <1>2, <1>3, <2>1, <2>2 DEF ClientOK, StatesAt, Opening, Places
<1>6. UpOK(U \cup {y}, t, "connected", 1)
  <2>1. \A x \in U : x \in Seg /\ Numbering(x, s, "connected", 0) /\ x.ack <= s.rcv_nxt
    BY <1>1 DEF Connection, UpOK
  <2>2. \A x \in U : Numbering(x, t, "connected", 1)
    BY <1>1, <1>2, <2>1, SegFacts DEF Numbering
  <2>3. Numbering(y, t, "connected", 1) /\ y.ack <= t.rcv_nxt
    BY <1>2, <1>3, <1>4 DEF Numbering
  <2> QED
    BY <1>2, <1>3, <2>1, <2>2, <2>3 DEF UpOK, Opening
<1>7. Connection(t, k, U \cup {y}, D, "connected", 1, g, v)
  <2>1. NoMoreSyn(s, U) => NoMoreSyn(t, U \cup {y})
    BY <1>1, <1>2, <1>3 DEF NoMoreSyn, Opening
  <2> QED
    BY <1>1, <1>2, <1>5, <1>6, <2>1, ClientStep DEF Connection, ChildOK, Agree
<1> QED
  BY <1>2, <1>3, <1>7 DEF t, y

LEMMA CloseStep ==
  ASSUME NEW s, NEW k, NEW U, NEW D, NEW w, NEW g, NEW v,
         Connection(s, k, U, D, "connected", w, g, v), Hashed(s)
  PROVE  /\ tcp_sock_close(s) \in Sock /\ CloseSegment(s) \in Seg /\ CloseSegment(s).kind = "FIN"
         /\ Connection(tcp_sock_close(s), k, U \cup {CloseSegment(s)}, D, "closed", w, g, v)
<1> DEFINE n == Numbered(s, "FIN")
           t == [n EXCEPT !.state = "FIN_WAIT_1"]
           y == Segment(s, "FIN")
<1>1. /\ s \in Sock /\ s.state = "ESTABLISHED" /\ s.snd_nxt = 6 + w /\ s.rcv_buf = 0
      /\ w \in {0, 1}
  BY DEF Connection, ClientOK, StatesAt, Hashed
<1>2. /\ n \in Sock /\ n.snd_nxt = s.snd_nxt + 1
      /\ n.rcv_nxt = s.rcv_nxt /\ n.snd_una = s.snd_una /\ n.rcv_buf = 0
      /\ \A e \in Elems(n.send_buf) : e \in Elems(s.send_buf) \/ e.seg = y
  BY <1>1, NumberedFacts
<1>3. y \in Seg /\ y.kind = "FIN" /\ y.seq = 6 + w /\ y.ack = s.rcv_nxt
  BY <1>1, SegmentFacts DEF Kinds
<1>4. s.rcv_nxt \in Nat /\ s.snd_una \in Nat
  BY <1>1, SockFacts
<1>5. tcp_sock_close(s) = t /\ CloseSegment(s) = y
  BY <1>1 DEF tcp_sock_close, CloseSegment
<1> HIDE DEF n, y
<1>6. /\ t \in Sock /\ t.state = "FIN_WAIT_1" /\ t.snd_nxt = 7 + w
      /\ t.rcv_nxt = s.rcv_nxt /\ t.snd_una = s.snd_una /\ t.rcv_buf = 0
      /\ t.send_buf = n.send_buf
  <2>1. /\ t \in Sock /\ t.state = "FIN_WAIT_1" /\ t.snd_nxt = n.snd_nxt
        /\ t.rcv_nxt = n.rcv_nxt /\ t.snd_una = n.snd_una /\ t.rcv_buf = n.rcv_buf
        /\ t.send_buf = n.send_buf
    BY <1>2 DEF Sock, States
  <2> QED
    BY <1>1, <1>2, <2>1
<1> HIDE DEF t
<1>7. ClientOK(t, "closed", w)
  <2>1. \A e \in Elems(s.send_buf) :
          /\ Numbering(e.seg, t, "closed", w) /\ e.seg.kind \in {"SYN", "DATA", "FIN"}
          /\ e.seg.kind # "SYN"
    BY <1>1, <1>6 DEF Connection, ClientOK, Numbering, Opening
  <2>2. Numbering(y, t, "closed", w)
    BY <1>3 DEF Numbering
  <2> QED
    BY <1>1, <1>2, <1>3, <1>6, <2>1, <2>2 DEF ClientOK, StatesAt, Opening, Places
<1>8. UpOK(U \cup {y}, t, "closed", w)
  <2>1. \A x \in U : x \in Seg /\ Numbering(x, s, "connected", w) /\ x.ack <= s.rcv_nxt
    BY <1>1 DEF Connection, UpOK
  <2>2. \A x \in U : Numbering(x, t, "closed", w)
    BY <1>1, <1>6, <2>1, SegFacts DEF Numbering
  <2>3. Numbering(y, t, "closed", w) /\ y.ack <= t.rcv_nxt
    BY <1>3, <1>4, <1>6 DEF Numbering
  <2> QED
    BY <1>3, <1>6, <2>1, <2>2, <2>3 DEF UpOK, Opening
<1>9. Connection(t, k, U \cup {y}, D, "closed", w, g, v)
  <2>1. NoMoreSyn(s, U) => NoMoreSyn(t, U \cup {y})
    BY <1>3, <1>6 DEF NoMoreSyn, Opening
  <2> QED
    BY <1>1, <1>6, <1>7, <1>8, <2>1, ClientStep DEF Connection, ChildOK, Agree
<1> QED
  BY <1>3, <1>5, <1>6, <1>9

\* A sock is given up, by the timer or because a RST came.
LEMMA ClientFreed ==
  ASSUME NEW s, NEW k, NEW U, NEW D, NEW a, NEW w, NEW g, NEW v,
         Connection(s, k, U, D, a, w, g, v), Hashed(s)
  PROVE  /\ Freed(s) \in Sock /\ Segment(s, "RST") \in Seg /\ Segment(s, "RST").kind = "RST"
         /\ Connection(Freed(s), k, U \cup {Segment(s, "RST")}, D, a, w, g, v)
<1> DEFINE t == Freed(s)
           y == Segment(s, "RST")
<1>1. s \in Sock /\ s.snd_nxt \in Nat /\ s.state # "CLOSED" /\ s.state # "FREED" /\ w \in {0, 1}
  BY SockFacts DEF Connection, ClientOK, Hashed
<1>2. /\ t \in Sock /\ t.state = "FREED" /\ t.snd_nxt = s.snd_nxt
      /\ t.rcv_nxt = 0 /\ t.snd_una = 0 /\ t.rcv_buf = 0 /\ Elems(t.send_buf) = {}
  BY <1>1, FreedFacts
<1>3. y \in Seg /\ y.kind = "RST" /\ y.seq = s.snd_nxt
  BY <1>1, SegmentFacts DEF Kinds
<1> HIDE DEF t, y
<1>4. ClientOK(t, a, w)
  <2>1. t.state \in StatesAt(a)
    BY <1>1, <1>2 DEF Connection, ClientOK, StatesAt, Places
  <2> QED
    BY <1>2, <2>1 DEF Connection, ClientOK, Opening
<1>5. UpOK(U \cup {y}, t, a, w)
  <2>1. \A x \in U : x \in Seg /\ Numbering(x, t, a, w)
    BY <1>2 DEF Connection, UpOK, Numbering
  <2>2. Numbering(y, t, a, w)
    BY <1>1, <1>2, <1>3 DEF Numbering
  <2> QED
    BY <1>2, <1>3, <2>1, <2>2 DEF UpOK, Opening
<1>6. NoMoreSyn(s, U) => NoMoreSyn(t, U \cup {y})
  BY <1>2, <1>3 DEF NoMoreSyn, Opening
<1>7. /\ k.snd_nxt \in Nat /\ k.rcv_nxt \in Nat
  BY SockFacts DEF Connection, ChildOK
<1>8. Connection(t, k, U \cup {y}, D, a, w, g, v)
  BY <1>1, <1>2, <1>4, <1>5, <1>6, <1>7, ClientStep
<1> QED
  BY <1>2, <1>3, <1>8 DEF t, y

LEMMA ClientScanStep ==
  ASSUME NEW s, NEW k, NEW U, NEW D, NEW a, NEW w, NEW g, NEW v,
         Connection(s, k, U, D, a, w, g, v), Expired(s)
  PROVE  /\ Scanned(s) \in Sock /\ ScanSends(s) \in Seg
         /\ ScanSends(s).kind = "SYN" => \A x \in U : x.kind = "SYN"
         /\ Connection(Scanned(s), k, U \cup {ScanSends(s)}, D, a, w, g, v)
<1>1. Hashed(s) /\ s.send_buf # << >> /\ s \in Sock
  BY DEF Expired, Connection, ClientOK
<1>2. CASE Exhausted(s)
  BY <1>1, <1>2, ClientFreed DEF Scanned, ScanSends
<1>3. CASE ~Exhausted(s)
  <2> DEFINE t == Repeated(s)
             y == Repeat(s)
  <2>1. /\ t \in Sock
        /\ t.state = s.state /\ t.snd_una = s.snd_una /\ t.snd_nxt = s.snd_nxt
        /\ t.rcv_nxt = s.rcv_nxt /\ t.rcv_buf = s.rcv_buf
        /\ \A e \in Elems(t.send_buf) : \E d \in Elems(s.send_buf) : e.seg = d.seg
        /\ y \in Seg /\ y.ack = s.rcv_nxt
        /\ \E d \in Elems(s.send_buf) : y.kind = d.seg.kind /\ y.seq = d.seg.seq
    BY <1>1, <1>3, RepeatedFacts
  <2>2. /\ Numbering(y, s, a, w) /\ y.kind \in {"SYN", "DATA", "FIN"}
        /\ y.kind = "SYN" <=> Opening(s)
    BY <2>1 DEF Connection, ClientOK, Numbering
  <2>3. /\ s.rcv_nxt \in Nat /\ s.snd_nxt \in Nat
    BY <1>1, SockFacts
  <2>4. Scanned(s) = t /\ ScanSends(s) = y
    BY <1>3 DEF Scanned, ScanSends
  <2> HIDE DEF t, y
  <2>5. ClientOK(t, a, w)
    BY <2>1 DEF Connection, ClientOK, Opening, Numbering
  <2>6. UpOK(U \cup {y}, t, a, w)
    BY <2>1, <2>2, <2>3 DEF Connection, UpOK, Opening, Numbering
  <2>7. NoMoreSyn(s, U) => NoMoreSyn(t, U \cup {y})
    BY <2>1, <2>2 DEF NoMoreSyn, Opening
  <2>8. Connection(t, k, U \cup {y}, D, a, w, g, v)
    BY <2>1, <2>3, <2>5, <2>6, <2>7, ClientStep DEF Connection, ChildOK, Agree
  <2> QED
    BY <2>1, <2>2, <2>4, <2>8 DEF Connection, UpOK
<1> QED
  BY <1>2, <1>3

\* What tcp_process does with a segment, case by case.
LEMMA ProcessFacts ==
  ASSUME NEW s, NEW x, NEW p, p = tcp_process(s, x),
         NEW t, t = handle_ack(handle_recv_data(s, x), x)
  PROVE  /\ ~is_tcp_seq_valid(s, x) =>
              p.sock = s /\ p.out \in {<< >>, <<Segment(s, "ACK")>>}
                /\ (s.state = "SYN_SENT" => p.out = << >>)
         /\ is_tcp_seq_valid(s, x) /\ x.kind = "RST" => p.sock = Freed(s) /\ p.out = << >>
         /\ is_tcp_seq_valid(s, x) /\ x.kind # "RST" /\ s.state # "SYN_SENT" =>
              p.sock = Advanced(t, x) /\ p.out \in {<< >>, <<Segment(t, "ACK")>>}
         /\ is_tcp_seq_valid(s, x) /\ x.kind = "SYNACK" /\ s.state = "SYN_SENT" =>
              p.sock = Opened(s, x) /\ p.out \in {<< >>, <<Segment(Opened(s, x), "ACK")>>}
         /\ is_tcp_seq_valid(s, x) /\ x.kind \notin {"RST", "SYNACK"} /\ s.state = "SYN_SENT" =>
              p.sock = s /\ p.out = << >>
<1>1. CASE ~is_tcp_seq_valid(s, x)
  BY <1>1 DEF tcp_process
<1>2. CASE is_tcp_seq_valid(s, x) /\ x.kind = "RST"
  BY <1>2 DEF tcp_process
<1>3. CASE is_tcp_seq_valid(s, x) /\ x.kind # "RST" /\ s.state # "SYN_SENT"
  BY <1>3 DEF tcp_process, Reply
<1>4. CASE is_tcp_seq_valid(s, x) /\ x.kind # "RST" /\ s.state = "SYN_SENT"
  BY <1>4 DEF tcp_process, Reply
<1> QED
  BY <1>1, <1>2, <1>3, <1>4

\* The client's sock acks with what it has received so far.
LEMMA ClientAcks ==
  ASSUME NEW s, NEW k, NEW U, NEW D, NEW a, NEW w, NEW g, NEW v,
         Connection(s, k, U, D, a, w, g, v), ~Opening(s),
         NEW out, out \in {<< >>, <<Segment(s, "ACK")>>}
  PROVE  /\ out \in Seq(Seg) /\ Len(out) <= 1 /\ \A y \in Elems(out) : y.kind # "SYN"
         /\ Connection(s, k, U \cup Elems(out), D, a, w, g, v)
<1> DEFINE y == Segment(s, "ACK")
<1>1. s \in Sock /\ s.snd_nxt \in Nat /\ s.rcv_nxt \in Nat /\ w \in {0, 1}
  BY SockFacts DEF Connection, ClientOK
<1>2. y \in Seg /\ y.kind = "ACK" /\ y.seq = s.snd_nxt /\ y.ack = s.rcv_nxt
  BY <1>1, SegmentFacts DEF Kinds
<1> HIDE DEF y
<1>3. /\ <<y>> \in Seq(Seg) /\ Len(<<y>>) = 1 /\ Elems(<<y>>) = {y}
      /\ << >> \in Seq(Seg) /\ Len(<< >>) = 0 /\ Elems(<< >>) = {}
  BY <1>2, OneElem
<1>4. out = << >> \/ out = <<y>>
  BY DEF y
<1>5. /\ out \in Seq(Seg) /\ Len(out) <= 1 /\ Elems(out) \subseteq {y}
  <2>1. CASE out = << >>
    BY <1>3, <2>1
  <2>2. CASE out = <<y>>
    BY <1>3, <2>2
  <2> QED
    BY <1>4, <2>1, <2>2
<1>6. UpOK(U \cup Elems(out), s, a, w)
  <2>1. Numbering(y, s, a, w)
    BY <1>1, <1>2 DEF Numbering
  <2> QED
    BY <1>1, <1>2, <1>5, <2>1 DEF Connection, UpOK
<1>7. NoMoreSyn(s, U) => NoMoreSyn(s, U \cup Elems(out))
  BY <1>2, <1>5 DEF NoMoreSyn
<1>8. Connection(s, k, U \cup Elems(out), D, a, w, g, v)
  BY <1>1, <1>6, <1>7, ClientStep DEF Connection, ChildOK, Agree
<1> QED
  BY <1>2, <1>5, <1>8

LEMMA ClientTakes ==
  ASSUME NEW s, NEW k, NEW U, NEW D, NEW a, NEW w, NEW g, NEW v,
         Connection(s, k, U, D, a, w, g, v), ~Opening(s), s.state # "FREED",
         NEW x \in D, is_tcp_seq_valid(s, x), x.kind # "RST",
         NEW t, t = handle_ack(handle_recv_data(s, x), x),
         NEW r, r = Advanced(t, x)
  PROVE  /\ r \in Sock /\ r.state # "CLOSE_WAIT" /\ ~Opening(r)
         /\ Segment(r, "ACK") = Segment(t, "ACK")
         /\ Connection(r, k, U, D, a, w, g, v)
<1>1. /\ s \in Sock /\ k \in Sock /\ x \in Seg /\ x.kind \in {"SYNACK", "ACK", "FIN"}
      /\ SeqEnd(x) <= k.snd_nxt /\ SeqEnd(x) \in Nat /\ x.ack \in Nat
      /\ s.rcv_nxt <= k.snd_nxt /\ s.rcv_buf = 0 /\ w \in {0, 1} /\ s.snd_nxt \in Nat
  BY SegFacts, SockFacts DEF Connection, ClientOK, ChildOK, DownOK
<1>2. s.state \in {"ESTABLISHED", "FIN_WAIT_1", "FIN_WAIT_2", "TIME_WAIT"}
  BY DEF Connection, ClientOK, StatesAt, Opening
<1>3. /\ t \in Sock /\ t.state = s.state /\ t.snd_nxt = s.snd_nxt
      /\ t.rcv_nxt = IF Fresh(s, x) THEN SeqEnd(x) ELSE s.rcv_nxt
      /\ t.snd_una = IF HasAck(x) /\ s.snd_una < x.ack THEN x.ack ELSE s.snd_una
      /\ t.rcv_buf = 0 /\ Elems(t.send_buf) \subseteq Elems(s.send_buf)
  BY <1>1, TakenFacts
<1>4. s.rcv_nxt <= t.rcv_nxt /\ t.rcv_nxt <= k.snd_nxt /\ t.rcv_nxt \in Nat /\ s.rcv_nxt \in Nat
  BY <1>1, <1>3, SockFacts DEF Fresh
<1>5. x.kind = "FIN" => s.state # "ESTABLISHED"
  BY <1>2 DEF Connection, ClientOK, StatesAt, Places, DownOK
<1>6. \/ r = t
      \/ s.state = "FIN_WAIT_1" /\ r = [t EXCEPT !.state = "FIN_WAIT_2"]
      \/ s.state = "FIN_WAIT_2" /\ r = [t EXCEPT !.state = "TIME_WAIT"]
  BY <1>2, <1>3, <1>5 DEF Advanced
<1>7. /\ r \in Sock /\ r.snd_nxt = t.snd_nxt /\ r.rcv_nxt = t.rcv_nxt /\ r.snd_una = t.snd_una
      /\ r.rcv_buf = t.rcv_buf /\ r.send_buf = t.send_buf
      /\ r.state = s.state \/ (s.state \in {"FIN_WAIT_1", "FIN_WAIT_2"}
                                 /\ r.state \in {"FIN_WAIT_2", "TIME_WAIT"})
  BY <1>3, <1>6 DEF Sock, States
<1>8. ClientOK(r, a, w)
  <2>1. r.state \in StatesAt(a)
    BY <1>7 DEF Connection, ClientOK, StatesAt, Places
  <2>2. ~Opening(r)
    BY <1>2, <1>7 DEF Opening
  <2> QED
    BY <1>3, <1>7, <2>1, <2>2 DEF Connection, ClientOK, Numbering
<1>9. UpOK(U, r, a, w)
  <2>1. ~Opening(r)
    BY <1>2, <1>7 DEF Opening
  <2>2. \A y \in U : y \in Seg /\ Numbering(y, s, a, w) /\ y.ack <= s.rcv_nxt /\ y.ack \in Nat
    BY SegFacts DEF Connection, UpOK
  <2> QED
    BY <1>3, <1>4, <1>7, <2>1, <2>2 DEF UpOK, Numbering
<1>10. NoMoreSyn(s, U) => NoMoreSyn(r, U)
  BY <1>2, <1>7 DEF NoMoreSyn, Opening
<1>11. t.snd_una > 6 => NoMoreSyn(s, U)
  BY <1>3 DEF Connection, DownOK, Agree
<1>12. Hashed(k) => t.snd_una <= k.rcv_nxt /\ k.snd_una <= t.rcv_nxt
  <2>1. Hashed(k) => x.ack <= k.rcv_nxt /\ s.snd_una <= k.rcv_nxt /\ k.snd_una <= s.rcv_nxt
    BY DEF Connection, DownOK, Agree
  <2>2. k.snd_una \in Nat
    BY <1>1, SockFacts
  <2> QED
    BY <1>3, <1>4, <2>1, <2>2
<1>13. Connection(r, k, U, D, a, w, g, v)
  <2>1. s.snd_nxt <= r.snd_nxt /\ r.rcv_nxt <= k.snd_nxt
    BY <1>1, <1>3, <1>4, <1>7
  <2>2. r.snd_una > 6 => NoMoreSyn(r, U)
    BY <1>7, <1>10, <1>11
  <2>3. Hashed(k) => r.snd_una <= k.rcv_nxt /\ (r.state # "FREED" => k.snd_una <= r.rcv_nxt)
    BY <1>7, <1>12
  <2> QED
    BY ONLY <1>8, <1>9, <1>10, <2>1, <2>2, <2>3, ClientStep, Connection(s, k, U, D, a, w, g, v)
<1> QED
  BY <1>2, <1>7, <1>13 DEF Segment, Opening

LEMMA ClientOpens ==
  ASSUME NEW s, NEW k, NEW U, NEW D, NEW a, NEW w, NEW g, NEW v,
         Connection(s, k, U, D, a, w, g, v), s.state = "SYN_SENT",
         NEW x \in D, is_tcp_seq_valid(s, x), x.kind = "SYNACK",
         NEW r, r = Opened(s, x),
         NEW b, b = IF a = "asleep" THEN "connected" ELSE a
  PROVE  /\ r \in Sock /\ r.state = "ESTABLISHED"
         /\ Connection(r, k, U, D, b, w, g, v)
<1>1. /\ s \in Sock /\ k \in Sock /\ x \in Seg /\ w = 0 /\ s.snd_nxt = 6
      /\ SeqEnd(x) <= k.snd_nxt /\ SeqEnd(x) \in Nat /\ x.ack = 6
      /\ s.rcv_nxt = 0 /\ s.rcv_buf = 0 /\ a \in {"hashed", "asleep"}
      /\ \A y \in U : y.kind = "SYN" /\ y.ack = 0 /\ y \in Seg
  <2>1. /\ s \in Sock /\ k \in Sock /\ x \in Seg /\ a \in Places /\ s.state \in StatesAt(a)
        /\ SeqEnd(x) <= k.snd_nxt /\ x.ack = s.snd_nxt
        /\ s.rcv_nxt = 0 /\ s.rcv_buf = 0
    BY DEF Connection, ClientOK, ChildOK, DownOK, is_tcp_seq_valid, Opening
  <2>2. a \in {"hashed", "asleep"}
    BY <2>1 DEF StatesAt, Places
  <2>3. w = 0 /\ s.snd_nxt = 6
    BY <2>2 DEF Connection, ClientOK
  <2>4. \A y \in U : y.kind = "SYN" /\ y.ack <= 0 /\ y \in Seg
    BY <2>1 DEF Connection, UpOK, Opening
  <2> QED
    BY <2>1, <2>2, <2>3, <2>4, SegFacts
<1> DEFINE n == SeqEnd(x)
           m == x.ack
<1>2. r = [s EXCEPT !.state = "ESTABLISHED", !.rcv_nxt = n, !.snd_una = m, !.send_buf = << >>]
  BY DEF Opened
<1> HIDE DEF n, m
<1>3. n \in Nat /\ m \in Nat /\ << >> \in Seq(Entry)
  BY <1>1 DEF n, m
<1>4. /\ r \in Sock /\ r.state = "ESTABLISHED" /\ r.snd_nxt = s.snd_nxt /\ r.rcv_nxt = n
      /\ r.snd_una = m /\ r.rcv_buf = s.rcv_buf /\ r.send_buf = << >>
  BY <1>1, <1>2, <1>3 DEF Sock, States
<1>5. ClientOK(r, b, w)
  <2>1. b \in {"hashed", "asleep", "connected"}
    BY <1>1
  <2>2. r.state \in StatesAt(b) /\ ~Opening(r)
    BY <1>4, <2>1 DEF StatesAt, Opening
  <2>3. Elems(r.send_buf) = {}
    BY <1>4 DEF Elems
  <2> QED
    BY <1>1, <1>4, <2>1, <2>2, <2>3 DEF ClientOK, Places
<1>6. UpOK(U, r, b, w)
  <2>1. \A y \in U : Numbering(y, r, b, w)
    BY <1>1, <1>4 DEF Connection, UpOK, Numbering
  <2> QED
    BY <1>1, <1>3, <1>4, <2>1 DEF UpOK, Opening
<1>7. NoMoreSyn(s, U) => NoMoreSyn(r, U)
  BY DEF NoMoreSyn, Opening
<1>8. Hashed(k) => r.snd_una <= k.rcv_nxt /\ k.snd_una <= r.rcv_nxt
  <2>1. Hashed(k) => 6 <= k.rcv_nxt /\ k.snd_una <= s.rcv_nxt /\ k.snd_una \in Nat
    BY SockFacts DEF Connection, ChildOK, Agree
  <2> QED
    BY <1>1, <1>3, <1>4, <2>1 DEF m
<1>9. /\ s.snd_nxt <= r.snd_nxt /\ r.rcv_nxt <= k.snd_nxt /\ ~(r.snd_una > 6)
      /\ a # "closed"
  BY <1>1, <1>4 DEF n, m
<1>10. Connection(r, k, U, D, b, w, g, v)
  BY ONLY <1>5, <1>6, <1>7, <1>8, <1>9, ClientStep, Connection(s, k, U, D, a, w, g, v)
<1> QED
  BY <1>4, <1>10

LEMMA ClientReceivesStep ==
  ASSUME NEW s, NEW k, NEW U, NEW D, NEW a, NEW w, NEW g, NEW v,
         Connection(s, k, U, D, a, w, g, v), Hashed(s), NEW x \in D,
         NEW p, p = tcp_process(s, x),
         NEW b, b = IF s.state = "SYN_SENT" /\ p.sock.state = "ESTABLISHED" /\ a = "asleep"
                    THEN "connected" ELSE a
  PROVE  /\ p.sock \in Sock /\ p.sock.state # "CLOSE_WAIT"
         /\ p.out \in Seq(Seg) /\ Len(p.out) <= 1 /\ \A y \in Elems(p.out) : y.kind # "SYN"
         /\ Connection(p.sock, k, U \cup Elems(p.out), D, b, w, g, v)
<1> DEFINE t == handle_ack(handle_recv_data(s, x), x)
           valid == is_tcp_seq_valid(s, x)
<1>1. s \in Sock /\ s.state \in States \ {"CLOSE_WAIT", "CLOSED", "FREED"} /\ x \in Seg /\ x.kind # "DATA"
  BY DEF Connection, ClientOK, StatesAt, Hashed, Sock, DownOK
<1>2. U \cup Elems(<< >>) = U /\ Elems(<< >>) = {} /\ << >> \in Seq(Seg) /\ Len(<< >>) <= 1
  BY DEF Elems
<1>3. CASE ~valid
  <2>1. p.sock = s /\ p.out \in {<< >>, <<Segment(s, "ACK")>>} /\ (s.state = "SYN_SENT" => p.out = << >>)
    BY <1>3, ProcessFacts
  <2>2. b = a
    BY <2>1
  <2>3. CASE Opening(s)
    BY <1>1, <1>2, <2>1, <2>2, <2>3 DEF Opening
  <2>4. CASE ~Opening(s)
    BY <1>1, <2>1, <2>2, <2>4, ClientAcks
  <2> QED
    BY <2>3, <2>4
<1>4. CASE valid /\ x.kind = "RST"
  <2>1. p.sock = Freed(s) /\ p.out = << >>
    BY <1>4, ProcessFacts
  <2>2. /\ Freed(s) \in Sock /\ Freed(s).state = "FREED"
        /\ Connection(Freed(s), k, U \cup {Segment(s, "RST")}, D, a, w, g, v)
    BY <1>1, ClientFreed, FreedFacts
  <2>3. Connection(Freed(s), k, U, D, a, w, g, v)
    BY <2>2, Shrink
  <2> QED
    BY <1>2, <2>1, <2>2, <2>3
<1>5. CASE valid /\ x.kind # "RST" /\ s.state # "SYN_SENT"
  <2> DEFINE r == Advanced(t, x)
  <2>1. p.sock = r /\ p.out \in {<< >>, <<Segment(t, "ACK")>>}
    BY <1>5, ProcessFacts
  <2>2. /\ r \in Sock /\ r.state # "CLOSE_WAIT" /\ ~Opening(r)
        /\ Segment(r, "ACK") = Segment(t, "ACK")
        /\ Connection(r, k, U, D, a, w, g, v)
    BY <1>1, <1>5, ClientTakes DEF Opening
  <2>3. b = a
    BY <1>5
  <2> HIDE DEF r
  <2> QED
    BY <2>1, <2>2, <2>3, ClientAcks
<1>6. CASE valid /\ x.kind = "SYNACK" /\ s.state = "SYN_SENT"
  <2> DEFINE r == Opened(s, x)
  <2>1. p.sock = r /\ p.out \in {<< >>, <<Segment(r, "ACK")>>}
    BY <1>6, ProcessFacts
  <2>2. b = (IF a = "asleep" THEN "connected" ELSE a) /\ r.state = "ESTABLISHED"
    BY <1>1, <1>6, <2>1 DEF Opened, Sock
  <2>3. r \in Sock /\ Connection(r, k, U, D, b, w, g, v)
    BY <1>6, <2>2, ClientOpens
  <2> HIDE DEF r
  <2> QED
    BY <2>1, <2>2, <2>3, ClientAcks DEF Opening
<1>7. CASE valid /\ x.kind \notin {"RST", "SYNACK"} /\ s.state = "SYN_SENT"
  <2>1. p.sock = s /\ p.out = << >>
    BY <1>7, ProcessFacts
  <2> QED
    BY <1>1, <1>2, <1>7, <2>1
<1> QED
  BY <1>3, <1>4, <1>5, <1>6, <1>7

-----------------------------------------------------------------------------
(***************************************************************************)
(* One connection: the server's sock for it or the server itself makes a   *)
(* step.                                                                   *)
(***************************************************************************)
LEMMA ChildStep ==
  ASSUME NEW s, NEW k, NEW U, NEW D, NEW a, NEW w, NEW g, NEW v,
         Connection(s, k, U, D, a, w, g, v),
         NEW m, NEW h, NEW y, ChildOK(m, s, a), k.snd_nxt <= m.snd_nxt,
         Hashed(m) => Hashed(k) /\ k.rcv_nxt <= m.rcv_nxt,
         Agree(s, m, U, a, w), Served(s, m, U, a, w, h, y)
  PROVE  Connection(s, m, U, D, a, w, h, y)
<1>1. /\ k.snd_nxt \in Nat /\ k.rcv_nxt \in Nat /\ m.snd_nxt \in Nat /\ m.rcv_nxt \in Nat
  BY SockFacts DEF Connection, ChildOK
<1>2. DownOK(D, m, s, U, a)
  <2> SUFFICES ASSUME NEW x \in D
               PROVE  /\ SeqEnd(x) <= m.snd_nxt
                      /\ Hashed(m) => x.ack <= m.rcv_nxt
    BY DEF Connection, DownOK
  <2>1. x \in Seg /\ SeqEnd(x) <= k.snd_nxt /\ (Hashed(k) => x.ack <= k.rcv_nxt)
    BY DEF Connection, DownOK
  <2>2. SeqEnd(x) \in Nat /\ x.ack \in Nat
    BY <2>1, SegFacts
  <2> QED
    BY <1>1, <2>1, <2>2
<1> QED
  BY <1>2 DEF Connection

LEMMA DownStep ==
  ASSUME NEW s, NEW k, NEW U, NEW D, NEW a, NEW w, NEW g, NEW v,
         Connection(s, k, U, D, a, w, g, v),
         NEW x \in Seg, x.kind \in {"SYNACK", "ACK", "FIN", "RST"}, SeqEnd(x) <= k.snd_nxt,
         x.kind = "FIN" => a = "closed", x.ack > 6 => NoMoreSyn(s, U),
         Hashed(k) => x.ack <= k.rcv_nxt
  PROVE  Connection(s, k, U, D \cup {x}, a, w, g, v)
  BY DEF Connection, DownOK

LEMMA ChildFreed ==
  ASSUME NEW s, NEW k, NEW U, NEW D, NEW a, NEW w, NEW g, NEW v,
         Connection(s, k, U, D, a, w, g, v),
         NEW m \in Sock, m.state = "FREED", m.snd_nxt = k.snd_nxt, m.rcv_buf = 0,
         m.send_buf = << >>
  PROVE  Connection(s, m, U, D, a, w, g, v) /\ Generation(m) = Generation(k)
<1>1. k \in Sock /\ k.snd_nxt \in Nat /\ Generation(m) = Generation(k) /\ ~Hashed(m)
  BY SockFacts DEF Connection, ChildOK, Generation, Hashed
<1>2. ChildOK(m, s, a)
  BY <1>1 DEF Connection, ChildOK, Elems
<1>3. Agree(s, m, U, a, w)
  BY <1>1 DEF Connection, Agree
<1>4. Served(s, m, U, a, w, g, v)
  BY <1>1 DEF Connection, Served
<1> QED
  BY <1>1, <1>2, <1>3, <1>4, ChildStep

SynReceived(i, n) == [NewSock(i) EXCEPT !.state = "SYN_RECV", !.rcv_nxt = n]

LEMMA NewChildFacts ==
  ASSUME NEW i \in Nat, NEW n \in Nat, NEW c, c = SynReceived(i, n)
  PROVE  /\ c \in Sock /\ c.state = "SYN_RECV" /\ c.snd_una = 0 /\ c.snd_nxt = i
         /\ c.rcv_nxt = n /\ c.send_buf = << >> /\ c.rcv_buf = 0
<1>1. c = [state |-> "SYN_RECV", snd_una |-> 0, snd_nxt |-> i, rcv_nxt |-> n,
           send_buf |-> << >>, rcv_buf |-> 0]
  BY DEF NewSock, SynReceived
<1>2. << >> \in Seq(Entry)
  OBVIOUS
<1> QED
  BY ONLY i \in Nat, n \in Nat, <1>1, <1>2 DEF Sock, States

LEMMA ListenSynStep ==
  ASSUME NEW s, NEW k, NEW U, NEW D, NEW a, NEW w, NEW g, NEW v,
         Connection(s, k, U, D, a, w, g, v), ~Hashed(k), NEW x \in U, x.kind = "SYN",
         NEW c0 \in Sock, c0.state = "SYN_RECV", c0.snd_una = 0,
         c0.snd_nxt = 100 * (Generation(k) + 1), c0.rcv_nxt = SeqEnd(x),
         c0.send_buf = << >>, c0.rcv_buf = 0,
         NEW m, m = Numbered(c0, "SYNACK")
  PROVE  /\ m \in Sock /\ m.state = "SYN_RECV" /\ v = "none"
         /\ Generation(c0) = Generation(k) + 1 /\ Generation(m) = Generation(k) + 1
         /\ Segment(c0, "SYNACK") \in Seg
         /\ Connection(s, m, U, D \cup {Segment(c0, "SYNACK")}, a, w, g, v)
<1> DEFINE y == Segment(c0, "SYNACK")
           i == 100 * (Generation(k) + 1)
           n == Generation(k) + 1
<1>1. /\ k \in Sock /\ x \in Seg /\ SeqEnd(x) = 6 /\ a # "start"
      /\ s \in Sock /\ w \in {0, 1} /\ s.snd_nxt >= 6
      /\ s.snd_nxt \in Nat /\ s.rcv_nxt \in Nat /\ s.snd_una \in Nat
  <2>1. /\ k \in Sock /\ x \in Seg /\ Numbering(x, s, a, w) /\ s \in Sock /\ w \in {0, 1}
    BY DEF Connection, ChildOK, UpOK, ClientOK
  <2>2. a # "start" /\ SeqEnd(x) = 6
    BY <2>1, SegFacts DEF Numbering
  <2> QED
    BY <2>1, <2>2, SockFacts DEF Connection, ClientOK
<1>2. /\ n \in Nat /\ n >= 1 /\ i \in Nat /\ i = 100 * n
      /\ k.snd_nxt \in Nat /\ k.snd_nxt <= i /\ n = Generation(k) + 1
  <2> DEFINE j == Generation(k)
  <2>1. j \in Nat /\ k.snd_nxt \in Nat /\ k.snd_nxt - 100 * j \in 0..2
    BY <1>1, SockFacts DEF Connection, ChildOK
  <2> HIDE DEF j
  <2>2. /\ j + 1 \in Nat /\ j + 1 >= 1 /\ 100 * (j + 1) \in Nat
        /\ k.snd_nxt \in Nat /\ k.snd_nxt <= 100 * (j + 1)
    BY ONLY <2>1
  <2> QED
    BY <2>2 DEF j
<1> HIDE DEF n
<1>3. /\ c0 \in Sock /\ c0.state = "SYN_RECV" /\ c0.snd_una = 0 /\ c0.snd_nxt = i
      /\ c0.rcv_nxt = 6 /\ c0.send_buf = << >> /\ c0.rcv_buf = 0
  BY <1>1
<1> HIDE DEF i
<1>4. /\ m \in Sock /\ m.state = "SYN_RECV" /\ m.snd_una = 0 /\ m.snd_nxt = i + 1
      /\ m.rcv_nxt = 6 /\ m.rcv_buf = 0
      /\ \A e \in Elems(m.send_buf) : e.seg = y
  <2>1. Elems(c0.send_buf) = {}
    BY <1>3 DEF Elems
  <2> QED
    BY <1>3, <2>1, NumberedFacts
<1>5. Generation(c0) = n /\ Generation(m) = n
  BY <1>2, <1>3, <1>4, GenerationFacts
<1>6. y \in Seg /\ y.kind = "SYNACK" /\ y.seq = i /\ y.ack = 6 /\ SeqEnd(y) = i + 1
  <2>1. y \in Seg /\ y.kind = "SYNACK" /\ y.seq = i /\ y.ack = 6
    BY <1>3, SegmentFacts DEF Kinds
  <2> QED
    BY <2>1, SegFacts
<1> HIDE DEF y
<1>7. ~NoMoreSyn(s, U)
  BY DEF NoMoreSyn
<1>8. s.rcv_nxt <= k.snd_nxt /\ ~(s.snd_una > 6) /\ v = "none" /\ g = 0
  BY <1>7 DEF Connection, ChildOK, Agree, Served
<1>9. ChildOK(m, s, a)
  <2>1. /\ m.snd_nxt = 100 * Generation(m) + 1 /\ Generation(m) >= 1
        /\ s.rcv_nxt <= m.snd_nxt /\ m.snd_una <= m.snd_nxt
    BY <1>1, <1>2, <1>4, <1>5, <1>8
  <2>2. m.snd_nxt - 100 * Generation(m) \in 0..2
    BY <1>2, <1>5, <2>1
  <2>3. \A e \in Elems(m.send_buf) :
          e.seg.kind = "SYNACK" /\ SeqEnd(e.seg) <= m.snd_nxt
    BY <1>2, <1>4, <1>6
  <2> QED
    BY <1>1, <1>4, <2>1, <2>2, <2>3 DEF ChildOK, Hashed
<1>10. DownOK(D \cup {y}, m, s, U, a)
  <2> SUFFICES ASSUME NEW z \in D
               PROVE  /\ z \in Seg /\ z.kind \in {"SYNACK", "ACK", "FIN", "RST"}
                      /\ SeqEnd(z) <= m.snd_nxt /\ (z.kind = "FIN" => a = "closed")
                      /\ (z.ack > 6 => NoMoreSyn(s, U)) /\ z.ack <= m.rcv_nxt
    BY <1>2, <1>4, <1>6 DEF DownOK
  <2>1. z \in Seg /\ SeqEnd(z) <= k.snd_nxt /\ (z.ack > 6 => NoMoreSyn(s, U))
    BY DEF Connection, DownOK
  <2>2. SeqEnd(z) \in Nat /\ z.ack \in Nat
    BY <2>1, SegFacts
  <2> QED
    BY <1>2, <1>4, <1>7, <2>1, <2>2 DEF Connection, DownOK
<1>11. Agree(s, m, U, a, w)
  BY <1>1, <1>4, <1>8 DEF Agree
<1>12. Served(s, m, U, a, w, g, v)
  BY <1>4, <1>8 DEF Connection, Served
<1>13. Connection(s, m, U, D \cup {y}, a, w, g, v)
  BY <1>9, <1>10, <1>11, <1>12 DEF Connection
<1> QED
  BY <1>4, <1>5, <1>6, <1>8, <1>13 DEF n, y

LEMMA ChildScanStep ==
  ASSUME NEW s, NEW k, NEW U, NEW D, NEW a, NEW w, NEW g, NEW v,
         Connection(s, k, U, D, a, w, g, v), Expired(k)
  PROVE  /\ Scanned(k) \in Sock /\ ScanSends(k) \in Seg
         /\ Generation(Scanned(k)) = Generation(k)
         /\ Hashed(Scanned(k)) => Scanned(k).state = k.state
         /\ Connection(s, Scanned(k), U, D \cup {ScanSends(k)}, a, w, g, v)
<1>1. Hashed(k) /\ k.send_buf # << >> /\ k \in Sock /\ k.snd_nxt \in Nat /\ k.rcv_nxt \in Nat
  BY SockFacts DEF Expired, Connection, ChildOK
<1>2. k.rcv_nxt > 6 => NoMoreSyn(s, U)
  BY <1>1 DEF Connection, Agree
<1>3. CASE Exhausted(k)
  <2> DEFINE m == Freed(k)
             y == Segment(k, "RST")
  <2>1. /\ m \in Sock /\ m.state = "FREED" /\ m.snd_nxt = k.snd_nxt /\ m.rcv_buf = 0
        /\ m.send_buf = << >> /\ ~Hashed(m)
    BY <1>1, FreedFacts
  <2>2. y \in Seg /\ y.kind = "RST" /\ y.ack = k.rcv_nxt /\ SeqEnd(y) <= k.snd_nxt
    <3>1. y \in Seg /\ y.kind = "RST" /\ y.seq = k.snd_nxt /\ y.ack = k.rcv_nxt
      BY <1>1, SegmentFacts DEF Kinds
    <3> QED
      BY <1>1, <3>1, SegFacts
  <2>3. Scanned(k) = m /\ ScanSends(k) = y
    BY <1>3 DEF Scanned, ScanSends
  <2> HIDE DEF m, y
  <2>4. Connection(s, m, U, D, a, w, g, v) /\ Generation(m) = Generation(k)
    BY <2>1, ChildFreed
  <2>5. Connection(s, m, U, D \cup {y}, a, w, g, v)
    BY <1>2, <2>1, <2>2, <2>4, DownStep
  <2> QED
    BY <2>1, <2>2, <2>3, <2>4, <2>5
<1>4. CASE ~Exhausted(k)
  <2> DEFINE m == Repeated(k)
             y == Repeat(k)
  <2>1. /\ m \in Sock
        /\ m.state = k.state /\ m.snd_una = k.snd_una /\ m.snd_nxt = k.snd_nxt
        /\ m.rcv_nxt = k.rcv_nxt /\ m.rcv_buf = k.rcv_buf
        /\ \A e \in Elems(m.send_buf) : \E d \in Elems(k.send_buf) : e.seg = d.seg
        /\ y \in Seg /\ y.ack = k.rcv_nxt
        /\ \E d \in Elems(k.send_buf) : y.kind = d.seg.kind /\ y.seq = d.seg.seq
    BY <1>1, <1>4, RepeatedFacts
  <2>2. /\ y.kind \in {"SYNACK", "FIN"} /\ SeqEnd(y) <= k.snd_nxt
        /\ y.kind = "FIN" => a = "closed"
    BY <2>1 DEF Connection, ChildOK, SeqEnd
  <2>3. Scanned(k) = m /\ ScanSends(k) = y
    BY <1>4 DEF Scanned, ScanSends
  <2> HIDE DEF m, y
  <2>4. Generation(m) = Generation(k) /\ Hashed(m)
    BY <1>1, <2>1 DEF Generation, Hashed
  <2>5. ChildOK(m, s, a)
    BY <1>1, <2>1, <2>4 DEF Connection, ChildOK
  <2>6. Agree(s, m, U, a, w)
    BY <1>1, <2>1, <2>4 DEF Connection, Agree
  <2>7. Served(s, m, U, a, w, g, v)
    BY <1>1, <2>1, <2>4 DEF Connection, Served
  <2>8. Connection(s, m, U, D, a, w, g, v)
    BY <1>1, <2>1, <2>5, <2>6, <2>7, ChildStep
  <2>9. Connection(s, m, U, D \cup {y}, a, w, g, v)
    BY <1>1, <1>2, <2>1, <2>2, <2>8, DownStep
  <2> QED
    BY <2>1, <2>3, <2>4, <2>9
<1> QED
  BY <1>3, <1>4

LEMMA ChildAcks ==
  ASSUME NEW s, NEW k, NEW U, NEW D, NEW a, NEW w, NEW g, NEW v,
         Connection(s, k, U, D, a, w, g, v),
         NEW t \in Sock, t.snd_nxt = k.snd_nxt, t.rcv_nxt > 6 => NoMoreSyn(s, U),
         Hashed(k) => t.rcv_nxt <= k.rcv_nxt,
         NEW out, out \in {<< >>, <<Segment(t, "ACK")>>}
  PROVE  out \in Seq(Seg) /\ Connection(s, k, U, D \cup Elems(out), a, w, g, v)
<1> DEFINE y == Segment(t, "ACK")
<1>1. y \in Seg /\ y.kind = "ACK" /\ y.ack = t.rcv_nxt /\ SeqEnd(y) <= k.snd_nxt
  <2>1. y \in Seg /\ y.kind = "ACK" /\ y.seq = t.snd_nxt /\ y.ack = t.rcv_nxt
    BY SegmentFacts DEF Kinds
  <2> QED
    BY <2>1, SegFacts, SockFacts
<1>2. out = << >> \/ out = <<y>>
  OBVIOUS
<1> HIDE DEF y
<1>3. /\ <<y>> \in Seq(Seg) /\ Elems(<<y>>) = {y}
      /\ << >> \in Seq(Seg) /\ Elems(<< >>) = {}
  BY <1>1, OneElem
<1>4. CASE out = << >>
  <2>1. D \cup Elems(out) = D
    BY <1>3, <1>4
  <2> QED
    BY <1>3, <1>4, <2>1
<1>5. CASE out = <<y>>
  <2>1. Connection(s, k, U, D \cup {y}, a, w, g, v)
    BY <1>1, DownStep
  <2> QED
    BY <1>3, <1>5, <2>1
<1> QED
  BY <1>2, <1>4, <1>5

\* What a valid segment changes in the server's sock, but for its state.
LEMMA ChildTakes ==
  ASSUME NEW s, NEW k, NEW U, NEW D, NEW a, NEW w, NEW g, NEW v,
         Connection(s, k, U, D, a, w, g, v), Hashed(k),
         NEW x \in U, is_tcp_seq_valid(k, x), x.kind # "RST",
         x.kind # "SYN" => \A y \in U : y.kind # "SYN",
         NEW t, t = handle_ack(handle_recv_data(k, x), x)
  PROVE  /\ NoMoreSyn(s, U)
         /\ t \in Sock /\ t.state = k.state /\ t.snd_nxt = k.snd_nxt
         /\ k.rcv_nxt <= t.rcv_nxt /\ t.rcv_nxt <= s.snd_nxt
         /\ t.snd_una <= t.snd_nxt
         /\ t.snd_una = IF HasAck(x) /\ k.snd_una < x.ack THEN x.ack ELSE k.snd_una
         /\ s.state # "FREED" => t.snd_una <= s.rcv_nxt
         /\ g + t.rcv_buf = IF w = 1 /\ t.rcv_nxt >= 7 THEN 1 ELSE 0
         /\ x.kind = "FIN" => a = "closed" /\ t.rcv_nxt = 7 + w
         /\ k.state \in {"CLOSE_WAIT", "LAST_ACK"} => t.rcv_nxt = k.rcv_nxt
         /\ k.rcv_buf <= t.rcv_buf
         /\ Elems(t.send_buf) \subseteq Elems(k.send_buf)
<1>1. /\ s \in Sock /\ k \in Sock /\ x \in Seg /\ w \in {0, 1} /\ a \in Places /\ g \in {0, 1}
      /\ Numbering(x, s, a, w)
      /\ k.state \in {"SYN_RECV", "ESTABLISHED", "CLOSE_WAIT", "LAST_ACK"}
      /\ 6 <= k.rcv_nxt /\ k.rcv_nxt <= s.snd_nxt /\ k.snd_una <= k.snd_nxt
      /\ g + k.rcv_buf = IF w = 1 /\ k.rcv_nxt >= 7 THEN 1 ELSE 0
      /\ k.state \in {"CLOSE_WAIT", "LAST_ACK"} => a = "closed" /\ k.rcv_nxt = 7 + w
      /\ w = 1 => a \in {"connected", "closed"}
      /\ s.snd_nxt = (IF a = "start" THEN 5 ELSE IF a = "closed" THEN 7 + w ELSE 6 + w)
      /\ s.state # "FREED" => k.snd_una <= s.rcv_nxt /\ x.ack <= s.rcv_nxt
  BY DEF Connection, ClientOK, ChildOK, UpOK, Served, Agree
<1>2. /\ x.seq \in Nat /\ x.ack \in Nat /\ x.kind \in Kinds
      /\ SeqEnd(x) = x.seq + (IF x.kind \in {"SYN", "SYNACK", "DATA", "FIN"} THEN 1 ELSE 0)
      /\ k.rcv_nxt \in Nat /\ k.snd_una \in Nat /\ k.snd_nxt \in Nat /\ k.rcv_buf \in {0, 1}
      /\ s.snd_nxt \in Nat /\ s.rcv_nxt \in Nat
  BY <1>1, SegFacts, SockFacts DEF Seg
<1>3. /\ x.ack <= k.snd_nxt
      /\ ~(k.rcv_nxt > SeqEnd(x)) /\ ~(k.rcv_nxt = SeqEnd(x) /\ x.seq < SeqEnd(x))
      /\ x.kind \in {"SYN", "FIN"} => x.seq <= k.rcv_nxt
  BY <1>1, <1>2 DEF is_tcp_seq_valid, NeverSent, Old, OutOfOrder
<1>4. x.kind # "SYN"
  BY <1>1, <1>2, <1>3 DEF Numbering
<1>5. NoMoreSyn(s, U)
  BY <1>4 DEF Connection, UpOK, NoMoreSyn
<1>6. /\ Fresh(k, x) =>
           \/ x.kind = "DATA" /\ k.rcv_nxt = 6 /\ SeqEnd(x) = 7 /\ w = 1
           \/ x.kind = "FIN" /\ k.rcv_nxt = 6 + w /\ SeqEnd(x) = 7 + w /\ a = "closed"
      /\ x.kind = "FIN" => Fresh(k, x)
  <2>1. CASE x.kind = "DATA"
    <3>1. x.seq = 6 /\ w = 1 /\ SeqEnd(x) = 7
      BY <1>1, <1>2, <2>1 DEF Numbering
    <3>2. Fresh(k, x) => k.rcv_nxt = 6
      BY <1>1, <1>2, <3>1 DEF Fresh
    <3> QED
      BY ONLY <2>1, <3>1, <3>2
  <2>2. CASE x.kind = "FIN"
    BY <1>1, <1>2, <1>3, <2>2 DEF Numbering, Fresh
  <2>3. CASE x.kind \in {"ACK", "RST"}
    BY <1>1, <1>2, <2>3 DEF Numbering, Fresh
  <2> QED
    BY <1>1, <1>4, <2>1, <2>2, <2>3 DEF Numbering
<1>7. Fresh(k, x) /\ x.kind = "DATA" => k.rcv_buf = 0 /\ g = 0 /\ k.state \in Readable
  BY <1>1, <1>2, <1>6 DEF Readable
<1>8. /\ t \in Sock /\ t.state = k.state /\ t.snd_nxt = k.snd_nxt
      /\ t.rcv_nxt = IF Fresh(k, x) THEN SeqEnd(x) ELSE k.rcv_nxt
      /\ t.snd_una = IF HasAck(x) /\ k.snd_una < x.ack THEN x.ack ELSE k.snd_una
      /\ t.rcv_buf = IF Fresh(k, x) /\ x.kind = "DATA" /\ k.state \in Readable THEN 1 ELSE k.rcv_buf
      /\ Elems(t.send_buf) \subseteq Elems(k.send_buf)
  BY <1>1, <1>7, TakenFacts
<1>9. /\ k.rcv_nxt <= t.rcv_nxt /\ t.rcv_nxt <= s.snd_nxt
      /\ x.kind = "FIN" => a = "closed" /\ t.rcv_nxt = 7 + w
      /\ k.state \in {"CLOSE_WAIT", "LAST_ACK"} => t.rcv_nxt = k.rcv_nxt
      /\ k.rcv_buf <= t.rcv_buf
  BY <1>1, <1>2, <1>6, <1>7, <1>8
<1>10. g + t.rcv_buf = IF w = 1 /\ t.rcv_nxt >= 7 THEN 1 ELSE 0
  BY <1>1, <1>2, <1>6, <1>7, <1>8
<1>11. t.snd_una <= t.snd_nxt /\ (s.state # "FREED" => t.snd_una <= s.rcv_nxt)
  BY <1>1, <1>2, <1>3, <1>8
<1> QED
  BY <1>5, <1>8, <1>9, <1>10, <1>11

\* The sock takes a valid segment and is in the state of m then.
LEMMA ChildMoves ==
  ASSUME NEW s, NEW k, NEW U, NEW D, NEW a, NEW w, NEW g, NEW v,
         Connection(s, k, U, D, a, w, g, v), Hashed(k),
         NEW x \in U, is_tcp_seq_valid(k, x), x.kind # "RST",
         x.kind # "SYN" => \A y \in U : y.kind # "SYN",
         NEW t, t = handle_ack(handle_recv_data(k, x), x),
         NEW m \in Sock, m.snd_nxt = t.snd_nxt, m.rcv_nxt = t.rcv_nxt, m.snd_una = t.snd_una,
         m.rcv_buf = t.rcv_buf, m.send_buf = t.send_buf,
         \/ m.state = k.state
         \/ k.state = "ESTABLISHED" /\ x.kind = "FIN" /\ m.state = "CLOSE_WAIT"
         \/ k.state = "SYN_RECV" /\ m.state = "ESTABLISHED" /\ HasAck(x) /\ x.ack = t.snd_nxt
  PROVE  /\ Connection(s, m, U, D, a, w, g, v)
         /\ Hashed(m) /\ Generation(m) = Generation(k)
         /\ k.state = "ESTABLISHED" => t.snd_una = t.snd_nxt
<1>1. /\ NoMoreSyn(s, U)
      /\ t \in Sock /\ t.state = k.state /\ t.snd_nxt = k.snd_nxt
      /\ k.rcv_nxt <= t.rcv_nxt /\ t.rcv_nxt <= s.snd_nxt
      /\ t.snd_una <= t.snd_nxt
      /\ t.snd_una = IF HasAck(x) /\ k.snd_una < x.ack THEN x.ack ELSE k.snd_una
      /\ s.state # "FREED" => t.snd_una <= s.rcv_nxt
      /\ g + t.rcv_buf = IF w = 1 /\ t.rcv_nxt >= 7 THEN 1 ELSE 0
      /\ x.kind = "FIN" => a = "closed" /\ t.rcv_nxt = 7 + w
      /\ k.state \in {"CLOSE_WAIT", "LAST_ACK"} => t.rcv_nxt = k.rcv_nxt
      /\ Elems(t.send_buf) \subseteq Elems(k.send_buf)
  BY ChildTakes
<1>2. /\ k \in Sock /\ k.snd_nxt \in Nat /\ k.snd_una \in Nat /\ k.rcv_nxt \in Nat
      /\ t.rcv_nxt \in Nat /\ s.snd_nxt \in Nat /\ s \in Sock /\ s.snd_una \in Nat
      /\ k.state \in {"SYN_RECV", "ESTABLISHED", "CLOSE_WAIT", "LAST_ACK"}
      /\ x.ack \in Nat /\ x.ack <= k.snd_nxt /\ k.snd_una <= k.snd_nxt
      /\ k.state \in {"ESTABLISHED", "CLOSE_WAIT"} => k.snd_una = k.snd_nxt
      /\ 6 <= k.rcv_nxt
  <2>1. /\ x \in Seg /\ k \in Sock /\ s \in Sock
        /\ k.state \in {"SYN_RECV", "ESTABLISHED", "CLOSE_WAIT", "LAST_ACK"}
        /\ k.snd_una <= k.snd_nxt /\ 6 <= k.rcv_nxt
        /\ k.state \in {"ESTABLISHED", "CLOSE_WAIT"} => k.snd_una = k.snd_nxt
    BY DEF Connection, UpOK, ChildOK, ClientOK
  <2>2. /\ k.snd_nxt \in Nat /\ k.snd_una \in Nat /\ k.rcv_nxt \in Nat /\ x.ack \in Nat
        /\ t.rcv_nxt \in Nat /\ s.snd_nxt \in Nat /\ s.snd_una \in Nat
    BY <1>1, <2>1, SegFacts, SockFacts
  <2>3. x.ack <= k.snd_nxt
    BY <2>1, <2>2 DEF is_tcp_seq_valid, NeverSent
  <2> QED
    BY <2>1, <2>2, <2>3
<1>3. /\ k.state = "ESTABLISHED" \/ k.state = "CLOSE_WAIT" => t.snd_una = t.snd_nxt
      /\ m.state = "ESTABLISHED" \/ m.state = "CLOSE_WAIT" => m.snd_una = m.snd_nxt
  BY <1>1, <1>2
<1>4. Generation(m) = Generation(k) /\ Hashed(m)
  BY <1>1, <1>2 DEF Generation, Hashed
<1>5. ChildOK(m, s, a)
  BY <1>1, <1>2, <1>3, <1>4 DEF Connection, ChildOK
<1>6. Agree(s, m, U, a, w)
  <2>1. m.state \in {"CLOSE_WAIT", "LAST_ACK"} => a = "closed" /\ m.rcv_nxt = 7 + w
    BY <1>1 DEF Connection, Agree
  <2>2. s.snd_una <= m.rcv_nxt
    BY <1>1, <1>2 DEF Connection, Agree
  <2> QED
    BY <1>1, <2>1, <2>2 DEF Agree
<1>7. Served(s, m, U, a, w, g, v)
  BY <1>1, <1>4 DEF Connection, Served
<1>8. Connection(s, m, U, D, a, w, g, v)
  <2>1. k.snd_nxt <= m.snd_nxt /\ k.rcv_nxt <= m.rcv_nxt
    BY <1>1, <1>2
  <2> QED
    BY ONLY <1>5, <1>6, <1>7, <2>1, ChildStep, Hashed(k), Connection(s, k, U, D, a, w, g, v)
<1> QED
  BY <1>3, <1>4, <1>8

\* The child that enters the accept queue.
Admitted(s) == [s EXCEPT !.state = "ESTABLISHED"]

\* The child m after a segment that takes k to p, if it is admitted and if not.
Received(k, p, o, m) ==
  /\ m \in Sock /\ p.out \in Seq(Seg) /\ Generation(m) = Generation(k)
  /\ o = "admitted" => /\ k.state = "SYN_RECV" /\ m.state = "ESTABLISHED"
                       /\ Generation(p.sock) = Generation(k)
  /\ o = "stays" /\ Hashed(m) => (m.state = "SYN_RECV" <=> k.state = "SYN_RECV")
  /\ ~WaitsForAck(k, p.sock)

LEMMA ChildReceivesStep ==
  ASSUME NEW s, NEW k, NEW U, NEW D, NEW a, NEW w, NEW g, NEW v,
         Connection(s, k, U, D, a, w, g, v), Hashed(k),
         NEW x \in U, x.kind # "SYN" => \A y \in U : y.kind # "SYN",
         NEW p, p = tcp_process(k, x),
         NEW o \in {"stays", "admitted"},
         o = "admitted" => is_tcp_seq_valid(k, x) /\ x.kind # "RST" /\ LastOfHandshake(p.sock, x),
         NEW m, m = IF o = "admitted" THEN Admitted(p.sock) ELSE p.sock
  PROVE  Received(k, p, o, m) /\ Connection(s, m, U, D \cup Elems(p.out), a, w, g, v)
<1> DEFINE t == handle_ack(handle_recv_data(k, x), x)
           valid == is_tcp_seq_valid(k, x)
           open == o = "admitted"
<1>1. /\ k \in Sock /\ x \in Seg
      /\ k.state \in {"SYN_RECV", "ESTABLISHED", "CLOSE_WAIT", "LAST_ACK"}
      /\ k.rcv_nxt > 6 => NoMoreSyn(s, U)
  BY DEF Connection, ChildOK, UpOK, Agree
<1>2. CASE ~valid
  <2>1. p.sock = k /\ p.out \in {<< >>, <<Segment(k, "ACK")>>} /\ ~open
    BY <1>2, ProcessFacts
  <2>2. k.rcv_nxt <= k.rcv_nxt
    BY <1>1, SockFacts
  <2>3. p.out \in Seq(Seg) /\ Connection(s, k, U, D \cup Elems(p.out), a, w, g, v)
    <3>1. k \in Sock /\ k.rcv_nxt <= k.rcv_nxt /\ (k.rcv_nxt > 6 => NoMoreSyn(s, U))
      BY <1>1, <2>2
    <3>2. p.out \in {<< >>, <<Segment(k, "ACK")>>}
      BY <2>1
    <3> QED
      BY ONLY <3>1, <3>2, ChildAcks, Connection(s, k, U, D, a, w, g, v)
  <2>4. m = k
    BY <2>1
  <2> QED
    BY <1>1, <2>1, <2>3, <2>4 DEF WaitsForAck, Received
<1>3. CASE valid /\ x.kind = "RST"
  <2>1. p.sock = Freed(k) /\ p.out = << >> /\ ~open
    BY <1>3, ProcessFacts
  <2>2. m = Freed(k)
    BY <2>1
  <2>3. /\ m \in Sock /\ m.state = "FREED" /\ ~Hashed(m)
        /\ Connection(s, m, U, D, a, w, g, v) /\ Generation(m) = Generation(k)
    BY <1>1, <2>2, FreedFacts, ChildFreed
  <2>4. << >> \in Seq(Seg) /\ D \cup Elems(<< >>) = D
    BY DEF Elems
  <2> QED
    BY <2>1, <2>2, <2>3, <2>4 DEF WaitsForAck, Received
<1>4. CASE valid /\ x.kind # "RST"
  <2> DEFINE r == Advanced(t, x)
  <2>1. p.sock = r /\ p.out \in {<< >>, <<Segment(t, "ACK")>>}
    BY <1>1, <1>4, ProcessFacts
  <2>2. /\ NoMoreSyn(s, U) /\ t \in Sock /\ t.state = k.state /\ t.snd_nxt = k.snd_nxt
        /\ t.snd_una <= t.snd_nxt /\ t.snd_una \in Nat /\ t.snd_nxt \in Nat /\ t.rcv_nxt \in Nat
    BY <1>4, ChildTakes, SockFacts
  <2> HIDE DEF t
  <2>3. CASE t.state = "LAST_ACK" /\ x.kind = "FIN" /\ x.ack = t.snd_nxt
    <3>1. r = Freed(t)
      BY <2>3 DEF Advanced
    <3>2. ~open /\ m = Freed(t)
      BY <2>1, <2>2, <3>1, FreedFacts DEF LastOfHandshake
    <3>3. /\ m \in Sock /\ m.state = "FREED" /\ m.snd_nxt = t.snd_nxt /\ m.rcv_buf = 0
          /\ m.send_buf = << >> /\ ~Hashed(m)
      BY <2>2, <3>2, FreedFacts
    <3>4. Connection(s, m, U, D, a, w, g, v) /\ Generation(m) = Generation(k)
      BY <2>2, <3>3, ChildFreed
    <3>5. p.out \in Seq(Seg) /\ Connection(s, m, U, D \cup Elems(p.out), a, w, g, v)
      BY ONLY <2>1, <2>2, <3>3, <3>4, ChildAcks
    <3> QED
      BY <2>1, <3>1, <3>2, <3>3, <3>4, <3>5 DEF WaitsForAck, Received
  <2>4. CASE ~(t.state = "LAST_ACK" /\ x.kind = "FIN" /\ x.ack = t.snd_nxt)
    <3>1. r = IF k.state = "ESTABLISHED" /\ x.kind = "FIN"
              THEN [t EXCEPT !.state = "CLOSE_WAIT"] ELSE t
      BY <1>1, <2>2, <2>4 DEF Advanced
    <3> DEFINE st == IF open THEN "ESTABLISHED"
                     ELSE IF k.state = "ESTABLISHED" /\ x.kind = "FIN" THEN "CLOSE_WAIT" ELSE k.state
    <3>2. /\ r \in Sock /\ r.snd_nxt = t.snd_nxt /\ r.rcv_nxt = t.rcv_nxt /\ r.snd_una = t.snd_una
          /\ r.rcv_buf = t.rcv_buf /\ r.send_buf = t.send_buf
          /\ r.state = IF k.state = "ESTABLISHED" /\ x.kind = "FIN" THEN "CLOSE_WAIT" ELSE k.state
      BY <2>2, <3>1 DEF Sock, States
    <3>3. open => k.state = "SYN_RECV" /\ HasAck(x) /\ x.ack = t.snd_nxt
      BY <2>1, <3>2 DEF LastOfHandshake
    <3> HIDE DEF r
    <3>4. /\ m \in Sock /\ m.snd_nxt = t.snd_nxt /\ m.rcv_nxt = t.rcv_nxt /\ m.snd_una = t.snd_una
          /\ m.rcv_buf = t.rcv_buf /\ m.send_buf = t.send_buf /\ m.state = st
      <4>1. m = IF open THEN [r EXCEPT !.state = "ESTABLISHED"] ELSE r
        BY <2>1 DEF Admitted
      <4>2. "ESTABLISHED" \in States
        BY DEF States
      <4> QED
        BY <3>2, <4>1, <4>2 DEF Sock
    <3>5. /\ Connection(s, m, U, D, a, w, g, v)
          /\ Hashed(m) /\ Generation(m) = Generation(k)
          /\ k.state = "ESTABLISHED" => t.snd_una = t.snd_nxt
      <4>1. \/ m.state = k.state
            \/ k.state = "ESTABLISHED" /\ x.kind = "FIN" /\ m.state = "CLOSE_WAIT"
            \/ k.state = "SYN_RECV" /\ m.state = "ESTABLISHED" /\ HasAck(x) /\ x.ack = t.snd_nxt
        BY <3>3, <3>4
      <4>2. t = handle_ack(handle_recv_data(k, x), x)
        BY DEF t
      <4>3. x.kind # "SYN" => \A y \in U : y.kind # "SYN"
        OBVIOUS
      <4> QED
        BY ONLY <1>4, <3>4, <4>1, <4>2, <4>3, ChildMoves, x \in U, Hashed(k),
                Connection(s, k, U, D, a, w, g, v)
    <3>6. m.rcv_nxt = t.rcv_nxt /\ t.rcv_nxt <= m.rcv_nxt /\ t.snd_nxt = m.snd_nxt
      BY <2>2, <3>4
    <3>7. p.out \in Seq(Seg) /\ Connection(s, m, U, D \cup Elems(p.out), a, w, g, v)
      BY ONLY <2>1, <2>2, <3>5, <3>6, ChildAcks
    <3>8. ~WaitsForAck(k, p.sock)
      BY <2>1, <2>2, <3>2, <3>5 DEF WaitsForAck
    <3>9. Generation(p.sock) = Generation(k)
      BY <2>1, <2>2, <3>2 DEF Generation
    <3> QED
      BY <1>1, <3>3, <3>4, <3>5, <3>7, <3>8, <3>9 DEF Received
  <2> QED
    BY <2>3, <2>4
<1> QED
  BY <1>2, <1>3, <1>4

\* The server: where it is with the child may change without the child.
LEMMA ViewStep ==
  ASSUME NEW s, NEW k, NEW U, NEW D, NEW a, NEW w, NEW g, NEW v,
         Connection(s, k, U, D, a, w, g, v),
         v \in {"read", "tested", "asleep"}, NEW y \in {"read", "tested", "asleep"}
  PROVE  Connection(s, k, U, D, a, w, g, y)
  BY DEF Connection, Served, Pcs

LEMMA AcceptStep ==
  ASSUME NEW s, NEW k, NEW U, NEW D, NEW a, NEW w, NEW g,
         Connection(s, k, U, D, a, w, g, "none"), Hashed(k), k.state # "SYN_RECV"
  PROVE  Connection(s, k, U, D, a, w, g, "read")
  BY DEF Connection, Served, Agree, Pcs

LEMMA EndStep ==
  ASSUME NEW s, NEW k, NEW U, NEW D, NEW a, NEW w, NEW g,
         Connection(s, k, U, D, a, w, g, "read"), k.state = "CLOSE_WAIT", k.rcv_buf = 0
  PROVE  a = "closed" /\ g = w /\ Connection(s, k, U, D, a, w, g, "eof")
<1>1. Hashed(k)
  BY DEF Hashed
<1>2. a = "closed" /\ k.rcv_nxt = 7 + w /\ w \in {0, 1} /\ g \in {0, 1}
      /\ g + 0 = IF w = 1 /\ k.rcv_nxt >= 7 THEN 1 ELSE 0
  BY <1>1 DEF Connection, Agree, Served, ClientOK
<1>3. g = w
  BY <1>2
<1> QED
  BY <1>1, <1>2, <1>3 DEF Connection, Served, Pcs

LEMMA ReadStep ==
  ASSUME NEW s, NEW k, NEW U, NEW D, NEW a, NEW w, NEW g,
         Connection(s, k, U, D, a, w, g, "read"), Hashed(k), k.rcv_buf > 0,
         NEW m, m = [k EXCEPT !.rcv_buf = 0]
  PROVE  /\ g = 0 /\ w = 1 /\ k.rcv_buf = 1
         /\ m \in Sock /\ m.state = k.state /\ Generation(m) = Generation(k)
         /\ Connection(s, m, U, D, a, w, 1, "read")
<1>1. /\ k \in Sock /\ k.rcv_buf \in {0, 1} /\ g \in {0, 1} /\ w \in {0, 1}
      /\ k.snd_nxt \in Nat /\ k.rcv_nxt \in Nat
      /\ g + k.rcv_buf = IF w = 1 /\ k.rcv_nxt >= 7 THEN 1 ELSE 0
  BY SockFacts DEF Connection, ChildOK, ClientOK, Served
<1>2. g = 0 /\ w = 1 /\ k.rcv_buf = 1 /\ k.rcv_nxt >= 7
  BY <1>1
<1>3. /\ m \in Sock /\ m.state = k.state /\ m.snd_una = k.snd_una /\ m.snd_nxt = k.snd_nxt
      /\ m.rcv_nxt = k.rcv_nxt /\ m.send_buf = k.send_buf /\ m.rcv_buf = 0
  BY <1>1 DEF Sock
<1>4. Generation(m) = Generation(k) /\ Hashed(m)
  BY <1>3 DEF Generation, Hashed
<1>5. ChildOK(m, s, a)
  BY <1>3, <1>4 DEF Connection, ChildOK
<1>6. Agree(s, m, U, a, w)
  BY <1>3, <1>4 DEF Connection, Agree
<1>7. Served(s, m, U, a, w, 1, "read")
  BY <1>1, <1>2, <1>3, <1>4 DEF Connection, Served
<1>8. Connection(s, m, U, D, a, w, 1, "read")
  BY ONLY <1>1, <1>3, <1>5, <1>6, <1>7, ChildStep, Hashed(k), Connection(s, k, U, D, a, w, g, "read")
<1> QED
  BY <1>2, <1>3, <1>4, <1>8

LEMMA CloseChildStep ==
  ASSUME NEW s, NEW k, NEW U, NEW D, NEW a, NEW w, NEW g,
         Connection(s, k, U, D, a, w, g, "eof"), Hashed(k),
         NEW m, m = tcp_sock_close(k)
  PROVE  /\ k.state = "CLOSE_WAIT" /\ m.state = "LAST_ACK"
         /\ m \in Sock /\ Generation(m) = Generation(k) /\ CloseSegment(k) \in Seg
         /\ Connection(s, m, U, D \cup {CloseSegment(k)}, a, w, g, "closed")
<1> DEFINE n == Numbered(k, "FIN")
           y == Segment(k, "FIN")
           i == Generation(k)
<1>1. /\ k \in Sock /\ k.state = "CLOSE_WAIT" /\ a = "closed" /\ NoMoreSyn(s, U)
      /\ k.snd_nxt = 100 * i + 1 /\ i >= 1 /\ i \in Nat /\ k.snd_una = k.snd_nxt
      /\ k.rcv_nxt \in Nat /\ g = w
  BY SockFacts DEF Connection, Served, ChildOK, Agree
<1>2. /\ n \in Sock /\ n.snd_nxt = k.snd_nxt + 1 /\ n.rcv_nxt = k.rcv_nxt
      /\ n.snd_una = k.snd_una /\ n.rcv_buf = k.rcv_buf
      /\ \A e \in Elems(n.send_buf) : e \in Elems(k.send_buf) \/ e.seg = y
  BY <1>1, NumberedFacts
<1>3. y \in Seg /\ y.kind = "FIN" /\ y.seq = k.snd_nxt /\ y.ack = k.rcv_nxt
  BY <1>1, SegmentFacts DEF Kinds
<1>4. m = [n EXCEPT !.state = "LAST_ACK"] /\ CloseSegment(k) = y
  BY <1>1 DEF tcp_sock_close, CloseSegment
<1> HIDE DEF n, y
<1>5. /\ m \in Sock /\ m.state = "LAST_ACK" /\ m.snd_nxt = n.snd_nxt /\ m.rcv_nxt = n.rcv_nxt
      /\ m.snd_una = n.snd_una /\ m.rcv_buf = n.rcv_buf /\ m.send_buf = n.send_buf
  BY ONLY <1>2, <1>4 DEF Sock, States
<1>6. SeqEnd(y) = k.snd_nxt + 1
  BY <1>3, SegFacts
<1> HIDE DEF i
<1>7. Generation(m) = i /\ m.snd_nxt = 100 * i + 2 /\ Hashed(m)
  <2>1. m.snd_nxt = 100 * i + 2
    BY <1>1, <1>2, <1>5
  <2> QED
    BY <1>1, <1>5, <2>1, GenerationFacts DEF Hashed
<1>8. ChildOK(m, s, a)
  <2>1. \A e \in Elems(m.send_buf) :
          /\ e.seg.kind \in {"SYNACK", "FIN"} /\ SeqEnd(e.seg) <= m.snd_nxt
    <3> SUFFICES ASSUME NEW e \in Elems(m.send_buf)
                 PROVE  e.seg.kind \in {"SYNACK", "FIN"} /\ SeqEnd(e.seg) <= m.snd_nxt
      OBVIOUS
    <3>1. CASE e.seg = y
      BY <1>1, <1>3, <1>6, <1>7, <3>1
    <3>2. CASE e \in Elems(k.send_buf)
      <4>1. e.seg.kind \in {"SYNACK", "FIN"} /\ SeqEnd(e.seg) <= k.snd_nxt
        BY <3>2 DEF Connection, ChildOK
      <4>2. e.seg \in Seg
        <5>1. k.send_buf \in Seq(Entry)
          BY <1>1, SockFacts
        <5>2. e \in Entry
          BY <3>2, <5>1 DEF Elems
        <5> QED
          BY <5>2 DEF Entry
      <4> QED
        BY <1>1, <1>7, <4>1, <4>2, SegFacts
    <3> QED
      BY <1>2, <1>5, <3>1, <3>2
  <2>2. /\ s.rcv_nxt <= m.snd_nxt /\ m.snd_una <= m.snd_nxt
        /\ m.snd_nxt - 100 * Generation(m) \in 0..2
    <3>1. s.rcv_nxt <= k.snd_nxt /\ s.rcv_nxt \in Nat
      BY SockFacts DEF Connection, ChildOK, ClientOK
    <3> QED
      BY <1>1, <1>2, <1>5, <1>7, <3>1
  <2> QED
    BY <1>1, <1>2, <1>5, <1>7, <2>1, <2>2 DEF Connection, ChildOK
<1>9. Agree(s, m, U, a, w)
  BY <1>1, <1>2, <1>5, <1>7 DEF Connection, Agree
<1>10. Served(s, m, U, a, w, g, "closed")
  BY <1>1, <1>2, <1>5, <1>7 DEF Connection, Served, Pcs
<1>11. Connection(s, m, U, D, a, w, g, "closed")
  <2>1. k.snd_nxt <= m.snd_nxt /\ k.rcv_nxt <= m.rcv_nxt
    BY <1>1, <1>2, <1>5
  <2> QED
    BY ONLY <1>8, <1>9, <1>10, <2>1, ChildStep, Hashed(k), Connection(s, k, U, D, a, w, g, "eof")
<1>12. Connection(s, m, U, D \cup {y}, a, w, g, "closed")
  <2>1. SeqEnd(y) <= m.snd_nxt /\ y.ack <= m.rcv_nxt
    BY <1>1, <1>2, <1>3, <1>5, <1>6
  <2> QED
    BY ONLY <1>1, <1>3, <1>11, <2>1, DownStep
<1> QED
  BY <1>1, <1>3, <1>4, <1>5, <1>7, <1>12 DEF i

-----------------------------------------------------------------------------
(***************************************************************************)
(* The queues and the child of one client.                                 *)
(***************************************************************************)
LEMMA LinkedSame ==
  ASSUME NEW lq, NEW aq, NEW k, NEW m, NEW c, NEW v, NEW y, Linked(lq, aq, k, c, v),
         Generation(m) = Generation(k),
         Hashed(m) => Hashed(k) /\ (m.state = "SYN_RECV" <=> k.state = "SYN_RECV"),
         v = "none" <=> y = "none"
  PROVE  Linked(lq, aq, m, c, y)
  BY DEF Linked

LEMMA LinkedNew ==
  ASSUME NEW lq \in Seq(Link), NEW aq \in Seq(Link), NEW k \in Sock, NEW m, NEW c \in Clients, NEW v,
         Linked(lq, aq, k, c, v), Generation(m) = Generation(k) + 1, m.state = "SYN_RECV"
  PROVE  LET x == [client |-> c, generation |-> Generation(m)]
         IN x \in Link /\ Linked(Append(lq, x), aq, m, c, v)
<1> DEFINE x == [client |-> c, generation |-> Generation(m)]
<1>1. x \in Link /\ x.client = c /\ x.generation = Generation(k) + 1 /\ Generation(k) \in Nat
  BY SockFacts DEF Link
<1>2. \A y \in Elems(lq) \cup Elems(aq) : y.client = c => y.generation <= Generation(k) /\ y.generation \in Nat
  <2>1. \A y \in Elems(lq) \cup Elems(aq) : y \in Link
    BY DEF Elems
  <2>2. \A y \in Elems(lq) \cup Elems(aq) : y.generation \in Nat
    BY <2>1 DEF Link
  <2> QED
    BY <2>2 DEF Linked
<1>3. x \notin Elems(lq) /\ x \notin Elems(aq)
  BY <1>1, <1>2
<1>4. /\ Once(Append(lq, x), x)
      /\ Elems(Append(lq, x)) = Elems(lq) \cup {x}
  BY <1>1, <1>3, AppendFacts
<1>5. \A y \in Elems(Append(lq, x)) \cup Elems(aq) : y.client = c => y.generation <= Generation(m)
  BY <1>1, <1>2, <1>4
<1> QED
  BY <1>1, <1>3, <1>4, <1>5 DEF Linked

LEMMA LinkedMoved ==
  ASSUME NEW lq \in Seq(Link), NEW aq \in Seq(Link), NEW k, NEW m, NEW c, NEW v,
         NEW x \in Link, x = [client |-> c, generation |-> Generation(k)],
         NEW i \in 1..Len(lq), lq[i] = x,
         NEW r \in Seq(Link), Without(r, lq, i),
         Linked(lq, aq, k, c, v), Hashed(k), k.state = "SYN_RECV", v = "none",
         Generation(m) = Generation(k), m.state = "ESTABLISHED"
  PROVE  Linked(r, Append(aq, x), m, c, v)
<1>1. Once(lq, x) /\ x \notin Elems(aq)
  BY DEF Linked
<1>2. Elems(r) \subseteq Elems(lq) /\ x \notin Elems(r)
  BY <1>1, WithoutFacts
<1>3. Once(Append(aq, x), x) /\ Elems(Append(aq, x)) = Elems(aq) \cup {x}
  BY <1>1, AppendFacts
<1>4. x \in Elems(lq)
  BY DEF Elems
<1>5. \A y \in Elems(r) \cup Elems(Append(aq, x)) : y.client = c => y.generation <= Generation(m)
  BY <1>2, <1>3, <1>4 DEF Linked
<1> QED
  BY <1>2, <1>3, <1>5 DEF Linked

LEMMA LinkedAccepted ==
  ASSUME NEW lq \in Seq(Link), NEW aq \in Seq(Link), NEW k, NEW c, NEW v, NEW y,
         Linked(lq, aq, k, c, v), v = "none", y # "none", Hashed(k),
         NEW i \in 1..Len(aq), aq[i] = [client |-> c, generation |-> Generation(k)],
         NEW r \in Seq(Link), Without(r, aq, i)
  PROVE  k.state # "SYN_RECV" /\ Linked(lq, r, k, c, y)
<1> DEFINE x == [client |-> c, generation |-> Generation(k)]
<1>1. x \in Elems(aq)
  BY DEF Elems
<1>2. k.state # "SYN_RECV" /\ Once(aq, x) /\ x \notin Elems(lq)
  BY <1>1 DEF Linked
<1>3. Elems(r) \subseteq Elems(aq) /\ x \notin Elems(r)
  BY <1>2, WithoutFacts
<1> QED
  BY <1>2, <1>3 DEF Linked

LEMMA LinkedOther ==
  ASSUME NEW lq \in Seq(Link), NEW aq \in Seq(Link), NEW k, NEW d, NEW v, Linked(lq, aq, k, d, v)
  PROVE  /\ \A x \in Link : x.client # d => /\ Linked(Append(lq, x), aq, k, d, v)
                                            /\ Linked(lq, Append(aq, x), k, d, v)
         /\ \A r \in Seq(Link), i \in 1..Len(lq) :
              Without(r, lq, i) /\ lq[i].client # d => Linked(r, aq, k, d, v)
         /\ \A r \in Seq(Link), i \in 1..Len(aq) :
              Without(r, aq, i) /\ aq[i].client # d => Linked(lq, r, k, d, v)
<1> DEFINE z == [client |-> d, generation |-> Generation(k)]
<1>1. ASSUME NEW x \in Link, x.client # d
      PROVE  Linked(Append(lq, x), aq, k, d, v) /\ Linked(lq, Append(aq, x), k, d, v)
  <2>1. x # z
    BY <1>1
  <2>2. /\ Elems(Append(lq, x)) = Elems(lq) \cup {x} /\ (Once(lq, z) => Once(Append(lq, x), z))
        /\ Elems(Append(aq, x)) = Elems(aq) \cup {x} /\ (Once(aq, z) => Once(Append(aq, x), z))
    BY <2>1, AppendFacts
  <2> QED
    BY <1>1, <2>1, <2>2 DEF Linked
<1>2. ASSUME NEW r \in Seq(Link), NEW i \in 1..Len(lq), Without(r, lq, i), lq[i].client # d
      PROVE  Linked(r, aq, k, d, v)
  <2>1. lq[i] # z
    BY <1>2
  <2>2. Elems(r) \subseteq Elems(lq) /\ (Once(lq, z) => Once(r, z))
    BY <1>2, <2>1, WithoutFacts
  <2> QED
    BY <2>2 DEF Linked
<1>3. ASSUME NEW r \in Seq(Link), NEW i \in 1..Len(aq), Without(r, aq, i), aq[i].client # d
      PROVE  Linked(lq, r, k, d, v)
  <2>1. aq[i] # z
    BY <1>3
  <2>2. Elems(r) \subseteq Elems(aq) /\ (Once(aq, z) => Once(r, z))
    BY <1>3, <2>1, WithoutFacts
  <2> QED
    BY <2>2 DEF Linked
<1> QED
  BY <1>1, <1>2, <1>3

-----------------------------------------------------------------------------
(***************************************************************************)
(* Every step is one of client c and leaves the others alone: what is      *)
(* shared are the queues and the server.                                   *)
(***************************************************************************)
ServerOK(l, v) ==
  /\ l \in [state : {"LISTEN", "FREED"}, listen_queue : Seq(Link),
            accept_queue : Seq(Link), accept_backlog : Nat]
  /\ l.accept_backlog = Len(l.accept_queue) /\ l.accept_backlog <= Backlog
  /\ v \in [pc : Pcs, csk : Clients \cup {"none"}]
  /\ v.pc = "accept" <=> v.csk = "none"

\* A step of client c: what there is of the others stays.
Only(c) ==
  /\ sk' \in [Clients -> Sock] /\ child' \in [Clients -> Sock]
  /\ up' \in [Clients -> Seq(Seg)] /\ down' \in [Clients -> Seq(Seg)]
  /\ app' \in [Clients -> Places] /\ wrote' \in [Clients -> {0, 1}]
  /\ got' \in [Clients -> {0, 1}] /\ waits' = {} /\ corrupt' \in BOOLEAN
  /\ \A d \in Clients \ {c} :
       /\ sk'[d] = sk[d] /\ child'[d] = child[d] /\ up'[d] = up[d] /\ down'[d] = down[d]
       /\ app'[d] = app[d] /\ wrote'[d] = wrote[d] /\ got'[d] = got[d]

Conn(c) == Connection(sk[c], child[c], Elems(up[c]), Elems(down[c]),
                      app[c], wrote[c], got[c], View(c))

Queued(c) == Linked(listener.listen_queue, listener.accept_queue, child[c], c, View(c))

LEMMA Frame ==
  ASSUME IInv, NEW c \in Clients, Only(c), ServerOK(listener', server'),
         \A d \in Clients \ {c} : View(d)' = View(d) /\ Queued(d)',
         SynFirst(up[c])', Conn(c)', Queued(c)'
  PROVE  IInv'
<1>1. Typing'
  BY DEF Only, Typing, ServerOK
<1>2. ConnectionInv(c)'
  BY DEF ConnectionInv, Conn, Queued
<1>3. ASSUME NEW d \in Clients \ {c}
      PROVE  ConnectionInv(d)'
  <2>1. ConnectionInv(d)
    BY DEF IInv
  <2> QED
    BY <2>1 DEF ConnectionInv, Queued, Only
<1> QED
  BY <1>1, <1>2, <1>3 DEF IInv

LEMMA At ==
  ASSUME IInv, NEW c \in Clients
  PROVE  /\ sk[c] \in Sock /\ child[c] \in Sock /\ up[c] \in Seq(Seg) /\ down[c] \in Seq(Seg)
         /\ app[c] \in Places /\ wrote[c] \in {0, 1} /\ got[c] \in {0, 1}
         /\ SynFirst(up[c]) /\ Conn(c) /\ Queued(c)
         /\ ServerOK(listener, server) /\ corrupt \in BOOLEAN /\ waits = {}
  BY DEF IInv, Typing, ConnectionInv, ServerOK, Conn, Queued

\* A step that the server and its queues take no part in.
LEMMA SockFrame ==
  ASSUME IInv, NEW c \in Clients, Only(c), UNCHANGED <<listener, server>>,
         SynFirst(up[c])', Conn(c)',
         Generation(child'[c]) = Generation(child[c]),
         Hashed(child'[c]) => /\ Hashed(child[c])
                              /\ child'[c].state = "SYN_RECV" <=> child[c].state = "SYN_RECV"
  PROVE  IInv'
<1>1. \A d \in Clients : View(d)' = View(d)
  BY DEF View
<1>2. ASSUME NEW d \in Clients \ {c}
      PROVE  Queued(d)'
  <2>1. Queued(d)
    BY At
  <2> QED
    BY <1>1, <2>1 DEF Queued, Only
<1>3. Queued(c)'
  <2>1. Linked(listener.listen_queue, listener.accept_queue, child[c], c, View(c))
    BY At DEF Queued
  <2>2. Linked(listener.listen_queue, listener.accept_queue, child'[c], c, View(c))
    BY <2>1, LinkedSame
  <2> QED
    BY <1>1, <2>2 DEF Queued
<1>4. ServerOK(listener', server')
  BY At
<1> QED
  BY <1>1, <1>2, <1>3, <1>4, Frame

\* A step of the client's sock, its application and the links.
LEMMA ClientFrame ==
  ASSUME IInv, NEW c \in Clients, Only(c), UNCHANGED <<listener, server>>,
         child'[c] = child[c], SynFirst(up'[c]),
         Connection(sk'[c], child[c], Elems(up'[c]), Elems(down'[c]),
                    app'[c], wrote'[c], got'[c], View(c))
  PROVE  IInv'
<1>1. View(c)' = View(c)
  BY DEF View
<1>2. Conn(c)' /\ SynFirst(up[c])'
  BY <1>1 DEF Conn
<1> QED
  BY <1>2, SockFrame

\* A segment put on a link, of which the end may be lost.
LEMMA Push ==
  ASSUME NEW s, NEW k, NEW q \in Seq(Seg), NEW D, NEW a, NEW w, NEW g, NEW v,
         SynFirst(q), NEW out \in Seq(Seg), Len(out) <= 1,
         \A x \in Elems(out) : x.kind = "SYN" => \A y \in Elems(q) : y.kind = "SYN",
         Connection(s, k, Elems(q) \cup Elems(out), D, a, w, g, v)
  PROVE  /\ Sent(q, out) \in Seq(Seg) /\ SynFirst(Sent(q, out))
         /\ Connection(s, k, Elems(Sent(q, out)), D, a, w, g, v)
<1>1. /\ Sent(q, out) \in Seq(Seg) /\ SynFirst(Sent(q, out))
      /\ Elems(Sent(q, out)) \subseteq Elems(q) \cup Elems(out)
  BY SentFacts
<1> QED
  BY <1>1, Shrink

LEMMA PushOne ==
  ASSUME NEW s, NEW k, NEW q \in Seq(Seg), NEW D, NEW a, NEW w, NEW g, NEW v,
         SynFirst(q), NEW x \in Seg, x.kind = "SYN" => \A y \in Elems(q) : y.kind = "SYN",
         Connection(s, k, Elems(q) \cup {x}, D, a, w, g, v)
  PROVE  /\ Sent(q, <<x>>) \in Seq(Seg) /\ SynFirst(Sent(q, <<x>>))
         /\ Connection(s, k, Elems(Sent(q, <<x>>)), D, a, w, g, v)
<1>1. <<x>> \in Seq(Seg) /\ Len(<<x>>) <= 1 /\ Elems(<<x>>) = {x}
  BY OneElem
<1> QED
  BY <1>1, Push

LEMMA PushDown ==
  ASSUME NEW s, NEW k, NEW U, NEW q \in Seq(Seg), NEW a, NEW w, NEW g, NEW v,
         NEW out \in Seq(Seg),
         Connection(s, k, U, Elems(q) \cup Elems(out), a, w, g, v)
  PROVE  /\ Sent(q, out) \in Seq(Seg)
         /\ Connection(s, k, U, Elems(Sent(q, out)), a, w, g, v)
<1>1. /\ Sent(q, out) \in Seq(Seg)
      /\ Elems(Sent(q, out)) \subseteq Elems(q) \cup Elems(out)
  BY SentFacts
<1> QED
  BY <1>1, Shrink

LEMMA PushDownOne ==
  ASSUME NEW s, NEW k, NEW U, NEW q \in Seq(Seg), NEW a, NEW w, NEW g, NEW v, NEW x \in Seg,
         Connection(s, k, U, Elems(q) \cup {x}, a, w, g, v)
  PROVE  /\ Sent(q, <<x>>) \in Seq(Seg)
         /\ Connection(s, k, U, Elems(Sent(q, <<x>>)), a, w, g, v)
<1>1. <<x>> \in Seq(Seg) /\ Elems(<<x>>) = {x}
  BY OneElem
<1> QED
  BY <1>1, PushDown

-----------------------------------------------------------------------------
(***************************************************************************)
(* The steps of the client.                                                *)
(***************************************************************************)
LEMMA ConnectSendInv ==
  ASSUME IInv, NEW c \in Clients, ConnectSend(c)
  PROVE  IInv'
<1> DEFINE t == Numbered(sk[c], "SYN")
           y == Segment(sk[c], "SYN")
           q == Sent(up[c], <<y>>)
<1>1. Connection(sk[c], child[c], Elems(up[c]), Elems(down[c]), "start", wrote[c], got[c], View(c))
  BY At DEF ConnectSend, Conn
<1>2. /\ t \in Sock /\ y \in Seg /\ \A x \in Elems(up[c]) : x.kind = "SYN"
      /\ Connection(t, child[c], Elems(up[c]) \cup {y}, Elems(down[c]), "sent", wrote[c], got[c], View(c))
  BY ONLY <1>1, ConnectSendStep
<1>3. up[c] \in Seq(Seg) /\ SynFirst(up[c])
  BY At
<1> HIDE DEF t, y
<1>4. /\ q \in Seq(Seg) /\ SynFirst(q)
      /\ Connection(t, child[c], Elems(q), Elems(down[c]), "sent", wrote[c], got[c], View(c))
  BY ONLY <1>2, <1>3, PushOne
<1>5. /\ sk' = [sk EXCEPT ![c] = t] /\ up' = [up EXCEPT ![c] = q]
      /\ app' = [app EXCEPT ![c] = "sent"]
      /\ UNCHANGED <<child, listener, waits, corrupt, down, server, wrote, got>>
  BY DEF ConnectSend, t, y
<1> HIDE DEF q
<1>6. /\ Only(c) /\ sk'[c] = t /\ child'[c] = child[c] /\ up'[c] = q /\ down'[c] = down[c]
      /\ app'[c] = "sent" /\ wrote'[c] = wrote[c] /\ got'[c] = got[c]
  BY <1>2, <1>4, <1>5 DEF IInv, Typing, Only, Places
<1> QED
  BY <1>4, <1>5, <1>6, ClientFrame

LEMMA ConnectHashInv ==
  ASSUME IInv, NEW c \in Clients, ConnectHash(c)
  PROVE  IInv'
<1> DEFINE t == [sk[c] EXCEPT !.state = "SYN_SENT"]
<1>1. Connection(sk[c], child[c], Elems(up[c]), Elems(down[c]), "sent", wrote[c], got[c], View(c))
  BY At DEF ConnectHash, Conn
<1>2. /\ t \in Sock
      /\ Connection(t, child[c], Elems(up[c]), Elems(down[c]), "hashed", wrote[c], got[c], View(c))
  BY ONLY <1>1, ConnectHashStep
<1>3. /\ sk' = [sk EXCEPT ![c] = t] /\ app' = [app EXCEPT ![c] = "hashed"]
      /\ UNCHANGED <<child, listener, waits, corrupt, up, down, server, wrote, got>>
  BY DEF ConnectHash, links
<1> HIDE DEF t
<1>4. /\ Only(c) /\ sk'[c] = t /\ child'[c] = child[c] /\ up'[c] = up[c] /\ down'[c] = down[c]
      /\ app'[c] = "hashed" /\ wrote'[c] = wrote[c] /\ got'[c] = got[c]
  BY <1>2, <1>3 DEF IInv, Typing, Only, Places
<1> QED
  BY <1>2, <1>3, <1>4, At, ClientFrame

LEMMA ConnectSleepInv ==
  ASSUME IInv, NEW c \in Clients, ConnectSleep(c)
  PROVE  IInv'
<1>1. Connection(sk[c], child[c], Elems(up[c]), Elems(down[c]), "hashed", wrote[c], got[c], View(c))
  BY At DEF ConnectSleep, Conn
<1>2. Connection(sk[c], child[c], Elems(up[c]), Elems(down[c]), "asleep", wrote[c], got[c], View(c))
  BY ONLY <1>1, ConnectSleepStep
<1>3. /\ app' = [app EXCEPT ![c] = "asleep"]
      /\ UNCHANGED <<sk, child, listener, waits, corrupt, up, down, server, wrote, got>>
  BY DEF ConnectSleep, socks, links
<1>4. /\ Only(c) /\ sk'[c] = sk[c] /\ child'[c] = child[c] /\ up'[c] = up[c] /\ down'[c] = down[c]
      /\ app'[c] = "asleep" /\ wrote'[c] = wrote[c] /\ got'[c] = got[c]
  BY <1>3 DEF IInv, Typing, Only, Places
<1> QED
  BY <1>2, <1>3, <1>4, At, ClientFrame

LEMMA WriteInv ==
  ASSUME IInv, NEW c \in Clients, Write(c)
  PROVE  IInv'
<1> DEFINE t == Numbered(sk[c], "DATA")
           y == Segment(sk[c], "DATA")
           q == Sent(up[c], <<y>>)
<1>1. /\ Connection(sk[c], child[c], Elems(up[c]), Elems(down[c]), "connected", 0, got[c], View(c))
      /\ Hashed(sk[c])
  BY At DEF Write, Conn
<1>2. /\ t \in Sock /\ y \in Seg /\ y.kind = "DATA"
      /\ Connection(t, child[c], Elems(up[c]) \cup {y}, Elems(down[c]), "connected", 1, got[c], View(c))
  BY ONLY <1>1, WriteStep
<1>3. up[c] \in Seq(Seg) /\ SynFirst(up[c]) /\ y.kind # "SYN"
  BY <1>2, At
<1> HIDE DEF t, y
<1>4. /\ q \in Seq(Seg) /\ SynFirst(q)
      /\ Connection(t, child[c], Elems(q), Elems(down[c]), "connected", 1, got[c], View(c))
  BY ONLY <1>2, <1>3, PushOne
<1>5. /\ sk' = [sk EXCEPT ![c] = t] /\ up' = [up EXCEPT ![c] = q]
      /\ wrote' = [wrote EXCEPT ![c] = 1] /\ app[c] = "connected"
      /\ UNCHANGED <<child, listener, waits, corrupt, down, app, server, got>>
  BY DEF Write, t, y
<1> HIDE DEF q
<1>6. /\ Only(c) /\ sk'[c] = t /\ child'[c] = child[c] /\ up'[c] = q /\ down'[c] = down[c]
      /\ app'[c] = "connected" /\ wrote'[c] = 1 /\ got'[c] = got[c]
  BY <1>2, <1>4, <1>5 DEF IInv, Typing, Only
<1> QED
  BY <1>4, <1>5, <1>6, ClientFrame

LEMMA CloseInv ==
  ASSUME IInv, NEW c \in Clients, Close(c)
  PROVE  IInv'
<1> DEFINE t == tcp_sock_close(sk[c])
           y == CloseSegment(sk[c])
           q == Sent(up[c], <<y>>)
<1>1. /\ Connection(sk[c], child[c], Elems(up[c]), Elems(down[c]), "connected", wrote[c], got[c], View(c))
      /\ Hashed(sk[c])
  BY At DEF Close, Conn
<1>2. /\ t \in Sock /\ y \in Seg /\ y.kind = "FIN"
      /\ Connection(t, child[c], Elems(up[c]) \cup {y}, Elems(down[c]), "closed", wrote[c], got[c], View(c))
  BY ONLY <1>1, CloseStep
<1>3. up[c] \in Seq(Seg) /\ SynFirst(up[c]) /\ y.kind # "SYN"
  BY <1>2, At
<1> HIDE DEF t, y
<1>4. /\ q \in Seq(Seg) /\ SynFirst(q)
      /\ Connection(t, child[c], Elems(q), Elems(down[c]), "closed", wrote[c], got[c], View(c))
  BY ONLY <1>2, <1>3, PushOne
<1>5. /\ sk' = [sk EXCEPT ![c] = t] /\ up' = [up EXCEPT ![c] = q]
      /\ app' = [app EXCEPT ![c] = "closed"]
      /\ UNCHANGED <<child, listener, waits, corrupt, down, server, wrote, got>>
  BY DEF Close, t, y
<1> HIDE DEF q
<1>6. /\ Only(c) /\ sk'[c] = t /\ child'[c] = child[c] /\ up'[c] = q /\ down'[c] = down[c]
      /\ app'[c] = "closed" /\ wrote'[c] = wrote[c] /\ got'[c] = got[c]
  BY <1>2, <1>4, <1>5 DEF IInv, Typing, Only, Places
<1> QED
  BY <1>4, <1>5, <1>6, ClientFrame

LEMMA ClientReceivesInv ==
  ASSUME IInv, NEW c \in Clients, ClientReceives(c)
  PROVE  IInv'
<1> DEFINE s == sk[c]
           x == Head(down[c])
           p == IF Hashed(s) THEN tcp_process(s, x) ELSE [sock |-> s, out |-> << >>]
           b == IF s.state = "SYN_SENT" /\ p.sock.state = "ESTABLISHED" /\ app[c] = "asleep"
                THEN "connected" ELSE app[c]
           q == Sent(up[c], p.out)
           e == Tail(down[c])
<1>1. down[c] # << >>
  BY DEF ClientReceives
<1>2. /\ x \in Elems(down[c]) /\ e \in Seq(Seg) /\ Elems(e) \subseteq Elems(down[c])
  BY <1>1, At, TailFacts
<1>3. Connection(s, child[c], Elems(up[c]), Elems(down[c]), app[c], wrote[c], got[c], View(c))
  BY At DEF Conn
<1>4. /\ p.sock \in Sock /\ p.sock.state # "CLOSE_WAIT"
      /\ p.out \in Seq(Seg) /\ Len(p.out) <= 1 /\ \A y \in Elems(p.out) : y.kind # "SYN"
      /\ Connection(p.sock, child[c], Elems(up[c]) \cup Elems(p.out), Elems(down[c]),
                    b, wrote[c], got[c], View(c))
  <2>1. CASE Hashed(s)
    <3>1. p = tcp_process(s, x)
      BY <2>1
    <3>2. b = IF s.state = "SYN_SENT" /\ p.sock.state = "ESTABLISHED" /\ app[c] = "asleep"
              THEN "connected" ELSE app[c]
      OBVIOUS
    <3> HIDE DEF p, x, s, e, b
    <3> QED
      BY ONLY <1>2, <1>3, <2>1, <3>1, <3>2, ClientReceivesStep
  <2>2. CASE ~Hashed(s)
    <3>1. p.sock = s /\ p.out = << >> /\ s.state \in {"CLOSED", "FREED"}
      BY <2>2 DEF Hashed
    <3>2. b = app[c]
      BY <3>1
    <3>3. /\ << >> \in Seq(Seg) /\ Len(<< >>) <= 1 /\ Elems(<< >>) = {}
          /\ Elems(up[c]) \cup Elems(<< >>) = Elems(up[c])
      BY DEF Elems
    <3>4. s \in Sock
      BY At
    <3> HIDE DEF p, b, s
    <3> QED
      BY <1>3, <3>1, <3>2, <3>3, <3>4
  <2> QED
    BY <2>1, <2>2
<1>5. /\ sk' = [sk EXCEPT ![c] = p.sock] /\ up' = [up EXCEPT ![c] = q]
      /\ down' = [down EXCEPT ![c] = e]
      /\ waits' = IF WaitsForAck(s, p.sock) THEN waits \cup {c} ELSE waits
      /\ app' = IF s.state = "SYN_SENT" /\ p.sock.state = "ESTABLISHED" /\ app[c] = "asleep"
                THEN [app EXCEPT ![c] = "connected"] ELSE app
      /\ UNCHANGED <<child, listener, corrupt, server, wrote, got>>
  BY DEF ClientReceives
<1> HIDE DEF p, x, e, s
<1>6. /\ app' \in [Clients -> Places] /\ app'[c] = b
      /\ \A d \in Clients \ {c} : app'[d] = app[d]
  BY <1>5 DEF IInv, Typing, Places
<1>7. waits' = {}
  BY <1>4, <1>5, At DEF WaitsForAck
<1> HIDE DEF b
<1>8. Connection(p.sock, child[c], Elems(up[c]) \cup Elems(p.out), Elems(e),
                 b, wrote[c], got[c], View(c))
  <2>1. Elems(up[c]) \cup Elems(p.out) \subseteq Elems(up[c]) \cup Elems(p.out)
    OBVIOUS
  <2> QED
    BY ONLY <1>2, <1>4, <2>1, Shrink
<1>9. /\ q \in Seq(Seg) /\ SynFirst(q)
      /\ Connection(p.sock, child[c], Elems(q), Elems(e), b, wrote[c], got[c], View(c))
  <2>1. up[c] \in Seq(Seg) /\ SynFirst(up[c])
    BY At
  <2> QED
    BY ONLY <1>4, <1>8, <2>1, Push
<1> HIDE DEF q
<1>10. /\ Only(c) /\ sk'[c] = p.sock /\ child'[c] = child[c] /\ up'[c] = q /\ down'[c] = e
       /\ wrote'[c] = wrote[c] /\ got'[c] = got[c]
  BY <1>2, <1>4, <1>5, <1>6, <1>7, <1>9 DEF IInv, Typing, Only
<1> QED
  BY <1>5, <1>6, <1>9, <1>10, ClientFrame

LEMMA ClientScanInv ==
  ASSUME IInv, NEW c \in Clients, ClientScan(c)
  PROVE  IInv'
<1> DEFINE t == Scanned(sk[c])
           y == ScanSends(sk[c])
           q == Sent(up[c], <<y>>)
<1>1. /\ Connection(sk[c], child[c], Elems(up[c]), Elems(down[c]), app[c], wrote[c], got[c], View(c))
      /\ Expired(sk[c])
  BY At DEF ClientScan, Conn
<1>2. /\ t \in Sock /\ y \in Seg /\ (y.kind = "SYN" => \A x \in Elems(up[c]) : x.kind = "SYN")
      /\ Connection(t, child[c], Elems(up[c]) \cup {y}, Elems(down[c]), app[c], wrote[c], got[c], View(c))
  BY ONLY <1>1, ClientScanStep
<1>3. up[c] \in Seq(Seg) /\ SynFirst(up[c])
  BY At
<1> HIDE DEF t, y
<1>4. /\ q \in Seq(Seg) /\ SynFirst(q)
      /\ Connection(t, child[c], Elems(q), Elems(down[c]), app[c], wrote[c], got[c], View(c))
  BY ONLY <1>2, <1>3, PushOne
<1>5. /\ sk' = [sk EXCEPT ![c] = t] /\ up' = [up EXCEPT ![c] = q]
      /\ UNCHANGED <<child, listener, waits, corrupt, down, app, server, wrote, got>>
  BY DEF ClientScan, apps, t, y
<1> HIDE DEF q
<1>6. /\ Only(c) /\ sk'[c] = t /\ child'[c] = child[c] /\ up'[c] = q /\ down'[c] = down[c]
      /\ app'[c] = app[c] /\ wrote'[c] = wrote[c] /\ got'[c] = got[c]
  BY <1>2, <1>4, <1>5 DEF IInv, Typing, Only
<1> QED
  BY <1>4, <1>5, <1>6, ClientFrame

LEMMA TimeWaitEndsInv ==
  ASSUME IInv, NEW c \in Clients, TimeWaitEnds(c)
  PROVE  IInv'
<1> DEFINE t == Freed(sk[c])
<1>1. /\ Connection(sk[c], child[c], Elems(up[c]), Elems(down[c]), app[c], wrote[c], got[c], View(c))
      /\ Hashed(sk[c])
  BY At DEF TimeWaitEnds, Hashed, Conn
<1>2. /\ t \in Sock
      /\ Connection(t, child[c], Elems(up[c]) \cup {Segment(sk[c], "RST")}, Elems(down[c]),
                    app[c], wrote[c], got[c], View(c))
  BY ONLY <1>1, ClientFreed
<1>3. Connection(t, child[c], Elems(up[c]), Elems(down[c]), app[c], wrote[c], got[c], View(c))
  <2>1. Elems(up[c]) \subseteq Elems(up[c]) \cup {Segment(sk[c], "RST")}
        /\ Elems(down[c]) \subseteq Elems(down[c])
    OBVIOUS
  <2> QED
    BY ONLY <1>2, <2>1, Shrink
<1>4. /\ sk' = [sk EXCEPT ![c] = t]
      /\ UNCHANGED <<child, listener, waits, corrupt, up, down, app, server, wrote, got>>
  BY DEF TimeWaitEnds, links, apps
<1> HIDE DEF t
<1>5. /\ Only(c) /\ sk'[c] = t /\ child'[c] = child[c] /\ up'[c] = up[c] /\ down'[c] = down[c]
      /\ app'[c] = app[c] /\ wrote'[c] = wrote[c] /\ got'[c] = got[c]
  BY <1>2, <1>4 DEF IInv, Typing, Only
<1> QED
  BY <1>3, <1>4, <1>5, At, ClientFrame

LEMMA LoseInv ==
  ASSUME IInv, NEW c \in Clients, Lose(c)
  PROVE  IInv'
<1>1. /\ Connection(sk[c], child[c], Elems(up[c]), Elems(down[c]), app[c], wrote[c], got[c], View(c))
      /\ Elems(up[c]) \subseteq Elems(up[c]) /\ Elems(down[c]) \subseteq Elems(down[c])
  BY At DEF Conn
<1>2. CASE up[c] # << >> /\ up' = [up EXCEPT ![c] = Tail(@)] /\ UNCHANGED <<socks, down, apps>>
  <2> DEFINE q == Tail(up[c])
  <2>1. q \in Seq(Seg) /\ Elems(q) \subseteq Elems(up[c]) /\ SynFirst(q)
    BY <1>2, At, TailFacts, SynFirstFacts
  <2>2. Connection(sk[c], child[c], Elems(q), Elems(down[c]), app[c], wrote[c], got[c], View(c))
    BY ONLY <1>1, <2>1, Shrink
  <2>3. /\ up' = [up EXCEPT ![c] = q]
        /\ UNCHANGED <<sk, child, listener, waits, corrupt, down, app, server, wrote, got>>
    BY <1>2 DEF socks, apps
  <2> HIDE DEF q
  <2>4. /\ Only(c) /\ sk'[c] = sk[c] /\ child'[c] = child[c] /\ up'[c] = q /\ down'[c] = down[c]
        /\ app'[c] = app[c] /\ wrote'[c] = wrote[c] /\ got'[c] = got[c]
    BY <2>1, <2>3 DEF IInv, Typing, Only
  <2> QED
    BY <2>1, <2>2, <2>3, <2>4, ClientFrame
<1>3. CASE down[c] # << >> /\ down' = [down EXCEPT ![c] = Tail(@)] /\ UNCHANGED <<socks, up, apps>>
  <2> DEFINE q == Tail(down[c])
  <2>1. q \in Seq(Seg) /\ Elems(q) \subseteq Elems(down[c])
    BY <1>3, At, TailFacts
  <2>2. Connection(sk[c], child[c], Elems(up[c]), Elems(q), app[c], wrote[c], got[c], View(c))
    BY ONLY <1>1, <2>1, Shrink
  <2>3. /\ down' = [down EXCEPT ![c] = q]
        /\ UNCHANGED <<sk, child, listener, waits, corrupt, up, app, server, wrote, got>>
    BY <1>3 DEF socks, apps
  <2> HIDE DEF q
  <2>4. /\ Only(c) /\ sk'[c] = sk[c] /\ child'[c] = child[c] /\ up'[c] = up[c] /\ down'[c] = q
        /\ app'[c] = app[c] /\ wrote'[c] = wrote[c] /\ got'[c] = got[c]
    BY <2>1, <2>3 DEF IInv, Typing, Only
  <2> QED
    BY <2>2, <2>3, <2>4, At, ClientFrame
<1> QED
  BY <1>2, <1>3 DEF Lose

-----------------------------------------------------------------------------
(***************************************************************************)
(* The steps of the server's host.                                         *)
(***************************************************************************)
LEMMA UseAfterFreeInv ==
  ASSUME IInv, UseAfterFree
  PROVE  IInv'
<1>1. /\ corrupt' = TRUE
      /\ UNCHANGED <<sk, child, listener, waits, up, down, app, server, wrote, got>>
  BY DEF UseAfterFree, links, apps
<1>2. Typing'
  BY <1>1 DEF IInv, Typing
<1>3. \A c \in Clients : ConnectionInv(c)'
  BY <1>1 DEF IInv, ConnectionInv, View
<1> QED
  BY <1>2, <1>3 DEF IInv

\* The segments for the server that change neither a child nor a queue.
LEMMA DropInv ==
  ASSUME IInv, NEW c \in Clients, up[c] # << >>, up' = [up EXCEPT ![c] = Tail(@)],
         UNCHANGED <<sk, child, waits, corrupt, down, app, server, wrote, got>>,
         listener' = listener \/ listener' = [listener EXCEPT !.state = "FREED"]
  PROVE  IInv'
<1> DEFINE q == Tail(up[c])
<1>1. q \in Seq(Seg) /\ Elems(q) \subseteq Elems(up[c]) /\ SynFirst(q)
  BY At, TailFacts, SynFirstFacts
<1>2. Connection(sk[c], child[c], Elems(q), Elems(down[c]), app[c], wrote[c], got[c], View(c))
  <2>1. /\ Connection(sk[c], child[c], Elems(up[c]), Elems(down[c]), app[c], wrote[c], got[c], View(c))
        /\ Elems(down[c]) \subseteq Elems(down[c])
    BY At DEF Conn
  <2> QED
    BY ONLY <1>1, <2>1, Shrink
<1>3. up' = [up EXCEPT ![c] = q]
  OBVIOUS
<1> HIDE DEF q
<1>4. Only(c) /\ up'[c] = q
  BY <1>1, <1>3 DEF IInv, Typing, Only
<1>5. /\ listener'.listen_queue = listener.listen_queue
      /\ listener'.accept_queue = listener.accept_queue
      /\ ServerOK(listener', server')
  BY At DEF ServerOK
<1>6. \A d \in Clients : View(d)' = View(d)
  BY DEF View
<1>7. \A d \in Clients : Queued(d)'
  BY <1>5, <1>6, At DEF Queued
<1>8. Conn(c)' /\ SynFirst(up[c])'
  BY <1>1, <1>2, <1>4, <1>6 DEF Conn
<1> QED
  BY <1>4, <1>5, <1>6, <1>7, <1>8, Frame

LEMMA ListenSynInv ==
  ASSUME IInv, NEW c \in Clients, ListenSyn(c)
  PROVE  IInv'
<1> DEFINE s == sk[c]
           k == child[c]
           x == Head(up[c])
           c0 == NewChild(c, x)
           m == Numbered(c0, "SYNACK")
           y == Segment(c0, "SYNACK")
           i == [client |-> c, generation |-> Generation(c0)]
           q == Tail(up[c])
           e == Sent(down[c], <<y>>)
<1>1. up[c] # << >> /\ x.kind = "SYN" /\ ~Hashed(k)
  BY DEF ListenSyn
<1>2. CASE Dangling(listener.listen_queue, {Len(listener.listen_queue)})
  BY <1>2, UseAfterFreeInv DEF ListenSyn
<1>3. CASE ~Dangling(listener.listen_queue, {Len(listener.listen_queue)})
  <2>1. /\ x \in Elems(up[c]) /\ x \in Seg /\ q \in Seq(Seg) /\ SynFirst(q)
        /\ Elems(q) \subseteq Elems(up[c])
    <3>1. /\ x \in Elems(up[c]) /\ q \in Seq(Seg) /\ Elems(q) \subseteq Elems(up[c]) /\ SynFirst(q)
      BY <1>1, At, TailFacts, SynFirstFacts
    <3>2. x \in Seg
      BY <3>1, At DEF Elems
    <3> QED
      BY <3>1, <3>2
  <2>2. k \in Sock /\ Generation(k) \in Nat /\ SeqEnd(x) \in Nat
    BY <2>1, At, SockFacts, SegFacts
  <2>3. /\ c0 \in Sock /\ c0.state = "SYN_RECV" /\ c0.snd_una = 0
        /\ c0.snd_nxt = 100 * (Generation(k) + 1) /\ c0.rcv_nxt = SeqEnd(x)
        /\ c0.send_buf = << >> /\ c0.rcv_buf = 0
    <3> DEFINE n == 100 * (Generation(k) + 1)
               r == SeqEnd(x)
    <3>1. n \in Nat /\ r \in Nat
      BY <2>2
    <3>2. c0 = SynReceived(n, r)
      BY DEF NewChild, SynReceived
    <3> HIDE DEF n, r, c0
    <3>3. /\ c0 \in Sock /\ c0.state = "SYN_RECV" /\ c0.snd_una = 0 /\ c0.snd_nxt = n
          /\ c0.rcv_nxt = r /\ c0.send_buf = << >> /\ c0.rcv_buf = 0
      BY ONLY <3>1, <3>2, NewChildFacts
    <3> QED
      BY <3>3 DEF n, r
  <2>4. Connection(s, k, Elems(up[c]), Elems(down[c]), app[c], wrote[c], got[c], View(c))
    BY At DEF Conn
  <2>5. /\ child' = [child EXCEPT ![c] = m]
        /\ listener' = [listener EXCEPT !.listen_queue = Append(listener.listen_queue, i)]
        /\ down' = [down EXCEPT ![c] = e] /\ up' = [up EXCEPT ![c] = q]
        /\ UNCHANGED <<sk, waits, corrupt, app, server, wrote, got>>
    BY <1>3 DEF ListenSyn, apps
  <2> HIDE DEF c0, x, q
  <2>6. /\ m \in Sock /\ m.state = "SYN_RECV" /\ View(c) = "none"
        /\ Generation(c0) = Generation(k) + 1 /\ Generation(m) = Generation(k) + 1
        /\ y \in Seg
        /\ Connection(s, m, Elems(up[c]), Elems(down[c]) \cup {y}, app[c], wrote[c], got[c], View(c))
    <3>1. m = Numbered(c0, "SYNACK")
      OBVIOUS
    <3> HIDE DEF m
    <3> QED
      BY ONLY <1>1, <2>1, <2>3, <2>4, <3>1, ListenSynStep
  <2> HIDE DEF m, y
  <2>7. Connection(s, m, Elems(q), Elems(down[c]) \cup {y}, app[c], wrote[c], got[c], View(c))
    <3>1. Elems(down[c]) \cup {y} \subseteq Elems(down[c]) \cup {y}
      OBVIOUS
    <3> QED
      BY ONLY <2>1, <2>6, <3>1, Shrink
  <2>8. /\ e \in Seq(Seg)
        /\ Connection(s, m, Elems(q), Elems(e), app[c], wrote[c], got[c], View(c))
    <3>1. down[c] \in Seq(Seg)
      BY At
    <3> QED
      BY ONLY <2>6, <2>7, <3>1, PushDownOne
  <2> HIDE DEF e
  <2>9. /\ listener.listen_queue \in Seq(Link) /\ listener.accept_queue \in Seq(Link)
        /\ listener \in [state : {"LISTEN", "FREED"}, listen_queue : Seq(Link),
                         accept_queue : Seq(Link), accept_backlog : Nat]
    BY DEF IInv, Typing
  <2>10. i = [client |-> c, generation |-> Generation(m)] /\ i.client = c
    BY <2>6
  <2> HIDE DEF i
  <2>11. /\ i \in Link
         /\ Linked(Append(listener.listen_queue, i), listener.accept_queue, m, c, View(c))
    BY <2>2, <2>6, <2>9, <2>10, At, LinkedNew DEF Queued
  <2>12. /\ listener'.listen_queue = Append(listener.listen_queue, i)
         /\ listener'.accept_queue = listener.accept_queue
         /\ ServerOK(listener', server')
    <3>1. Append(listener.listen_queue, i) \in Seq(Link)
      BY <2>9, <2>11
    <3> QED
      BY <2>5, <2>9, <3>1, At DEF ServerOK
  <2>13. Only(c) /\ sk'[c] = s /\ child'[c] = m /\ up'[c] = q /\ down'[c] = e
         /\ app'[c] = app[c] /\ wrote'[c] = wrote[c] /\ got'[c] = got[c]
    BY <2>1, <2>5, <2>6, <2>8 DEF IInv, Typing, Only
  <2>14. \A d \in Clients : View(d)' = View(d)
    BY <2>5 DEF View
  <2>15. ASSUME NEW d \in Clients \ {c}
         PROVE  Queued(d)'
    <3>1. Linked(listener.listen_queue, listener.accept_queue, child[d], d, View(d))
      BY At DEF Queued
    <3>2. Linked(Append(listener.listen_queue, i), listener.accept_queue, child[d], d, View(d))
      BY <2>9, <2>10, <2>11, <3>1, LinkedOther
    <3>3. child'[d] = child[d]
      BY <2>13 DEF Only
    <3> QED
      BY <2>12, <2>14, <3>2, <3>3 DEF Queued
  <2>16. Queued(c)' /\ Conn(c)' /\ SynFirst(up[c])'
    BY <2>1, <2>8, <2>11, <2>12, <2>13, <2>14 DEF Queued, Conn
  <2> QED
    BY <2>12, <2>13, <2>14, <2>15, <2>16, Frame
<1> QED
  BY <1>2, <1>3

LEMMA ListenRstInv ==
  ASSUME IInv, NEW c \in Clients, ListenRst(c)
  PROVE  IInv'
  BY DropInv DEF ListenRst, apps

LEMMA NoSockFoundInv ==
  ASSUME IInv, NEW c \in Clients, NoSockFound(c)
  PROVE  IInv'
  BY DropInv DEF NoSockFound, socks, apps

LEMMA ChildScanInv ==
  ASSUME IInv, NEW c \in Clients, ChildScan(c)
  PROVE  IInv'
<1> DEFINE m == Scanned(child[c])
           y == ScanSends(child[c])
           e == Sent(down[c], <<y>>)
<1>1. /\ Connection(sk[c], child[c], Elems(up[c]), Elems(down[c]), app[c], wrote[c], got[c], View(c))
      /\ Expired(child[c])
  BY At DEF ChildScan, Conn
<1>2. /\ m \in Sock /\ y \in Seg /\ Generation(m) = Generation(child[c])
      /\ Hashed(m) => m.state = child[c].state
      /\ Connection(sk[c], m, Elems(up[c]), Elems(down[c]) \cup {y}, app[c], wrote[c], got[c], View(c))
  BY ONLY <1>1, ChildScanStep
<1>3. down[c] \in Seq(Seg)
  BY At
<1> HIDE DEF m, y
<1>4. /\ e \in Seq(Seg)
      /\ Connection(sk[c], m, Elems(up[c]), Elems(e), app[c], wrote[c], got[c], View(c))
  BY ONLY <1>2, <1>3, PushDownOne
<1>5. /\ child' = [child EXCEPT ![c] = m] /\ down' = [down EXCEPT ![c] = e]
      /\ UNCHANGED <<sk, listener, waits, corrupt, up, app, server, wrote, got>>
  BY DEF ChildScan, apps, m, y
<1> HIDE DEF e
<1>6. /\ Only(c) /\ sk'[c] = sk[c] /\ child'[c] = m /\ up'[c] = up[c] /\ down'[c] = e
      /\ app'[c] = app[c] /\ wrote'[c] = wrote[c] /\ got'[c] = got[c]
  BY <1>2, <1>4, <1>5 DEF IInv, Typing, Only
<1>7. View(c)' = View(c)
  BY <1>5 DEF View
<1>8. Conn(c)' /\ SynFirst(up[c])'
  BY <1>4, <1>6, <1>7, At DEF Conn
<1>9. Hashed(child[c])
  BY <1>1 DEF Expired
<1> QED
  BY <1>2, <1>5, <1>6, <1>8, <1>9, SockFrame

LEMMA ChildReceivesInv ==
  ASSUME IInv, NEW c \in Clients, ChildReceives(c)
  PROVE  IInv'
<1> DEFINE s == sk[c]
           k == child[c]
           x == Head(up[c])
           p == tcp_process(k, x)
           valid == is_tcp_seq_valid(k, x) /\ x.kind # "RST"
           last == valid /\ LastOfHandshake(p.sock, x)
           open == last /\ ~AcceptQueueFull
           m == IF open THEN Admitted(p.sock) ELSE p.sock
           q == Tail(up[c])
           e == Sent(down[c], p.out)
           woken == \/ p.sock.rcv_buf > k.rcv_buf
                    \/ /\ p.sock.state = "CLOSE_WAIT" /\ k.state = "ESTABLISHED"
                       /\ ~WaitsForAck(k, p.sock)
           lost == last /\ (listener.state = "FREED" \/ (~AcceptQueueFull /\ EnqueueTouchesFreed(c)))
<1>1. up[c] # << >> /\ Hashed(k)
  BY DEF ChildReceives
<1>2. CASE lost
  BY <1>2, UseAfterFreeInv DEF ChildReceives
<1>3. CASE ~lost
  <2>1. /\ IF open THEN tcp_sock_accept_enqueue(c) ELSE UNCHANGED listener
        /\ child' = [child EXCEPT ![c] = m]
        /\ waits' = IF WaitsForAck(k, p.sock) THEN waits \cup {"server"} ELSE waits
        /\ server' = Awake(c, woken)
        /\ down' = [down EXCEPT ![c] = e] /\ up' = [up EXCEPT ![c] = q]
        /\ UNCHANGED <<sk, corrupt, app, wrote, got>>
    BY <1>3 DEF ChildReceives, Admitted
  <2>2. /\ x \in Elems(up[c]) /\ q \in Seq(Seg) /\ Elems(q) \subseteq Elems(up[c]) /\ SynFirst(q)
        /\ x.kind # "SYN" => \A y \in Elems(up[c]) : y.kind # "SYN"
    BY <1>1, At, TailFacts, SynFirstFacts
  <2>3. Connection(s, k, Elems(up[c]), Elems(down[c]), app[c], wrote[c], got[c], View(c))
    BY At DEF Conn
  <2>4. /\ p = tcp_process(k, x) /\ open \in BOOLEAN
        /\ open => is_tcp_seq_valid(k, x) /\ x.kind # "RST" /\ LastOfHandshake(p.sock, x)
        /\ m = IF open THEN Admitted(p.sock) ELSE p.sock
        /\ open => ~AcceptQueueFull
    OBVIOUS
  <2> HIDE DEF p, open, m, x, q
  <2>5. /\ m \in Sock /\ p.out \in Seq(Seg) /\ Generation(m) = Generation(k)
        /\ open => k.state = "SYN_RECV" /\ m.state = "ESTABLISHED"
                     /\ Generation(p.sock) = Generation(k)
        /\ ~open /\ Hashed(m) => (m.state = "SYN_RECV" <=> k.state = "SYN_RECV")
        /\ ~WaitsForAck(k, p.sock)
        /\ Connection(s, m, Elems(up[c]), Elems(down[c]) \cup Elems(p.out),
                      app[c], wrote[c], got[c], View(c))
    <3> DEFINE U == Elems(up[c])
               D == Elems(down[c])
    <3>1. /\ Connection(s, k, U, D, app[c], wrote[c], got[c], View(c)) /\ Hashed(k)
          /\ x \in U /\ (x.kind # "SYN" => \A y \in U : y.kind # "SYN")
      BY <1>1, <2>2, <2>3
    <3> DEFINE o == IF open THEN "admitted" ELSE "stays"
    <3>2. /\ p = tcp_process(k, x) /\ o \in {"stays", "admitted"}
          /\ o = "admitted" => is_tcp_seq_valid(k, x) /\ x.kind # "RST" /\ LastOfHandshake(p.sock, x)
          /\ m = IF o = "admitted" THEN Admitted(p.sock) ELSE p.sock
          /\ o = "admitted" <=> open
          /\ o = "stays" <=> ~open
      BY <2>4
    <3> HIDE DEF U, D, s, k, o
    <3>3. Received(k, p, o, m) /\ Connection(s, m, U, D \cup Elems(p.out), app[c], wrote[c], got[c], View(c))
      BY ONLY <3>1, <3>2, ChildReceivesStep
    <3> QED
      BY <3>2, <3>3 DEF U, D, s, k, Received
  <2>6. Connection(s, m, Elems(q), Elems(down[c]) \cup Elems(p.out), app[c], wrote[c], got[c], View(c))
    <3>1. Elems(down[c]) \cup Elems(p.out) \subseteq Elems(down[c]) \cup Elems(p.out)
      OBVIOUS
    <3> QED
      BY ONLY <2>2, <2>5, <3>1, Shrink
  <2>7. /\ e \in Seq(Seg)
        /\ Connection(s, m, Elems(q), Elems(e), app[c], wrote[c], got[c], View(c))
    <3>1. down[c] \in Seq(Seg)
      BY At
    <3> QED
      BY ONLY <2>5, <2>6, <3>1, PushDown
  <2> HIDE DEF e, woken
  <2>8. Only(c) /\ sk'[c] = s /\ child'[c] = m /\ up'[c] = q /\ down'[c] = e
        /\ app'[c] = app[c] /\ wrote'[c] = wrote[c] /\ got'[c] = got[c]
    BY <2>1, <2>2, <2>5, <2>7 DEF IInv, Typing, Only
  <2>9. /\ server' = server \/ (server = [pc |-> "asleep", csk |-> c] /\ server' = [pc |-> "read", csk |-> c])
        /\ ServerOK(listener, server')
    <3>1. ServerOK(listener, server)
      BY At
    <3>2. \/ server' = server
          \/ server = [pc |-> "asleep", csk |-> c] /\ server' = [server EXCEPT !.pc = "read"]
      BY <2>1 DEF Awake
    <3> QED
      BY <3>1, <3>2, LifecycleAssumption DEF ServerOK, Pcs
  <2>10. \A d \in Clients \ {c} : View(d)' = View(d)
    BY <2>9 DEF View
  <2>11. \/ View(c)' = View(c)
         \/ View(c) = "asleep" /\ View(c)' = "read"
    BY <2>9 DEF View
  <2>12. Connection(s, m, Elems(q), Elems(e), app[c], wrote[c], got[c], View(c)')
    <3>1. CASE View(c)' = View(c)
      BY <2>7, <3>1
    <3>2. CASE View(c) = "asleep" /\ View(c)' = "read"
      <4>1. View(c) \in {"read", "tested", "asleep"} /\ View(c)' \in {"read", "tested", "asleep"}
        BY <3>2
      <4> QED
        BY ONLY <2>7, <4>1, ViewStep
    <3> QED
      BY <2>11, <3>1, <3>2
  <2>13. Conn(c)' /\ SynFirst(up[c])'
    BY <2>2, <2>8, <2>12 DEF Conn
  <2>14. CASE ~open
    <3>1. listener' = listener
      BY <2>1, <2>14
    <3>2. ASSUME NEW d \in Clients \ {c}
          PROVE  Queued(d)'
      <4>1. Queued(d)
        BY At
      <4> QED
        BY <2>8, <2>10, <3>1, <4>1 DEF Queued, Only
    <3>3. Linked(listener.listen_queue, listener.accept_queue, k, c, View(c))
      BY At DEF Queued
    <3>4. Linked(listener.listen_queue, listener.accept_queue, m, c, View(c)')
      <4>1. Hashed(m) => Hashed(k) /\ (m.state = "SYN_RECV" <=> k.state = "SYN_RECV")
        BY <1>1, <2>5, <2>14
      <4>2. View(c) = "none" <=> View(c)' = "none"
        BY <2>11
      <4> QED
        BY ONLY <2>5, <3>3, <4>1, <4>2, LinkedSame
    <3>5. Queued(c)' /\ ServerOK(listener', server')
      BY <2>8, <2>9, <3>1, <3>4 DEF Queued
    <3> QED
      BY <2>8, <2>10, <2>13, <3>2, <3>5, Frame
  <2>15. CASE open
    <3> DEFINE lq == listener.listen_queue
               aq == listener.accept_queue
               i == PlaceOf(c)
               z == Id(c)
               r == RemoveAt(lq, i)
    <3>1. /\ lq \in Seq(Link) /\ aq \in Seq(Link)
          /\ listener \in [state : {"LISTEN", "FREED"}, listen_queue : Seq(Link),
                           accept_queue : Seq(Link), accept_backlog : Nat]
          /\ listener.accept_backlog = Len(aq)
      BY DEF IInv, Typing
    <3>2. /\ Linked(lq, aq, k, c, View(c)) /\ k.state = "SYN_RECV" /\ k \in Sock
          /\ m.state = "ESTABLISHED" /\ Generation(m) = Generation(k)
      BY <2>5, <2>15, At DEF Queued
    <3>3. z = [client |-> c, generation |-> Generation(k)] /\ z \in Link /\ z.client = c
      BY <3>2, SockFacts DEF Id, Link
    <3>4. View(c) = "none"
      BY <1>1, <2>3, <3>2 DEF Connection, Served
    <3>5. z \in Elems(lq)
      BY <1>1, <3>1, <3>2, <3>3, OnceFacts DEF Linked
    <3>6. i \in 1..Len(lq) /\ lq[i] = z
      <4>1. i = SelectInSeq(lq, LAMBDA y : y = z)
        BY DEF PlaceOf
      <4> HIDE DEF i, z, lq
      <4> QED
        BY <3>1, <3>5, <4>1, PlaceFacts
    <3>7. listener' = [listener EXCEPT !.listen_queue = r, !.accept_queue = Append(aq, z),
                                       !.accept_backlog = listener.accept_backlog + 1]
      BY <2>1, <2>15 DEF tcp_sock_accept_enqueue
    <3> HIDE DEF z, i
    <3>8. r \in Seq(Link) /\ Without(r, lq, i)
      BY <3>1, <3>6, RemoveAtFacts DEF Without
    <3>9. Append(aq, z) \in Seq(Link) /\ Len(Append(aq, z)) = Len(aq) + 1
      BY <3>1, <3>3
    <3> HIDE DEF r
    <3>10. /\ listener'.listen_queue = r /\ listener'.accept_queue = Append(aq, z)
           /\ listener'.accept_backlog = Len(aq) + 1
           /\ listener' \in [state : {"LISTEN", "FREED"}, listen_queue : Seq(Link),
                             accept_queue : Seq(Link), accept_backlog : Nat]
      <4> DEFINE n == listener.accept_backlog + 1
                 f == Append(aq, z)
      <4>1. n \in Nat /\ n = Len(aq) + 1 /\ f \in Seq(Link)
        BY <3>1, <3>9
      <4>2. listener' = [listener EXCEPT !.listen_queue = r, !.accept_queue = f, !.accept_backlog = n]
        BY <3>7
      <4> HIDE DEF n, f
      <4>3. /\ listener'.listen_queue = r /\ listener'.accept_queue = f /\ listener'.accept_backlog = n
            /\ listener' \in [state : {"LISTEN", "FREED"}, listen_queue : Seq(Link),
                              accept_queue : Seq(Link), accept_backlog : Nat]
        BY ONLY <3>1, <3>8, <4>1, <4>2
      <4> QED
        BY <4>1, <4>3 DEF f
    <3>11. listener'.accept_backlog <= Backlog
      <4>1. ~(listener.accept_backlog >= Backlog)
        BY <2>4, <2>15 DEF AcceptQueueFull
      <4>2. listener.accept_backlog \in Nat /\ listener.accept_backlog = Len(aq)
        BY <3>1
      <4> HIDE DEF aq
      <4> QED
        BY <3>10, <4>1, <4>2, LifecycleAssumption
    <3>12. ServerOK(listener', server')
      BY <2>9, <3>9, <3>10, <3>11 DEF ServerOK
    <3>13. Linked(r, Append(aq, z), m, c, View(c))
      <4> HIDE DEF lq, aq
      <4> QED
        BY ONLY <1>1, <3>1, <3>2, <3>3, <3>4, <3>6, <3>8, LinkedMoved
    <3>14. server' = server /\ View(c)' = View(c)
      BY <2>9, <3>4 DEF View
    <3>15. Queued(c)'
      BY <2>8, <3>10, <3>13, <3>14 DEF Queued
    <3>16. ASSUME NEW d \in Clients \ {c}
           PROVE  Queued(d)'
      <4>1. Linked(lq, aq, child[d], d, View(d))
        BY At DEF Queued
      <4> HIDE DEF lq, aq
      <4>2. Linked(r, aq, child[d], d, View(d))
        BY <3>1, <3>3, <3>6, <3>8, <4>1, LinkedOther
      <4>3. Linked(r, Append(aq, z), child[d], d, View(d))
        BY <3>1, <3>3, <3>8, <4>2, LinkedOther
      <4>4. child'[d] = child[d]
        BY <2>8 DEF Only
      <4> QED
        BY <2>10, <3>10, <4>3, <4>4 DEF Queued
    <3> QED
      BY <2>8, <2>10, <2>13, <3>12, <3>15, <3>16, Frame
  <2> QED
    BY <2>14, <2>15
<1> QED
  BY <1>2, <1>3

LEMMA AcceptInv ==
  ASSUME IInv, Accept
  PROVE  IInv'
<1> DEFINE lq == listener.listen_queue
           aq == listener.accept_queue
           z == Head(aq)
           r == Tail(aq)
<1>1. CASE Dangling(aq, {1, 2})
  BY <1>1, UseAfterFreeInv DEF Accept
<1>2. CASE ~Dangling(aq, {1, 2})
  <2>1. /\ lq \in Seq(Link) /\ aq \in Seq(Link) /\ aq # << >>
        /\ listener \in [state : {"LISTEN", "FREED"}, listen_queue : Seq(Link),
                         accept_queue : Seq(Link), accept_backlog : Nat]
        /\ listener.accept_backlog = Len(aq) /\ Len(aq) <= Backlog
    BY DEF IInv, Typing, Accept
  <2>2. /\ 1 \in DOMAIN aq /\ z = aq[1] /\ r \in Seq(Link) /\ Len(r) = Len(aq) - 1
        /\ \A i \in 1..(Len(aq) - 1) : r[i] = aq[i + 1]
    BY <2>1, TailFacts
  <2>3. 1 \in 1..Len(aq) /\ aq[1] = z /\ Without(r, aq, 1)
    BY <2>1, <2>2 DEF Without
  <2>4. z \in Link /\ z.client \in Clients
    <3>1. aq[1] \in Link
      BY <2>1, <2>2
    <3> QED
      BY <2>2, <3>1 DEF Link
  <2>who. PICK c \in Clients : c = z.client
    BY <2>4
  <2>5. child[c].state # "FREED" /\ z = Id(c)
    BY <1>2, <2>2, <2>who DEF Dangling, Id
  <2>6. server.pc = "accept" /\ server.csk = "none"
    BY DEF Accept, IInv, Typing
  <2>7. \A d \in Clients : View(d) = "none"
    BY <2>6, LifecycleAssumption DEF View
  <2>8. /\ server' = [pc |-> "read", csk |-> c]
        /\ listener' = [listener EXCEPT !.accept_queue = r, !.accept_backlog = listener.accept_backlog - 1]
        /\ UNCHANGED <<sk, child, waits, corrupt, up, down, app, wrote, got>>
    BY <1>2, <2>who DEF Accept, links
  <2> HIDE DEF z, r
  <2>9. /\ View(c)' = "read"
        /\ \A d \in Clients \ {c} : View(d)' = "none"
    BY <2>8, LifecycleAssumption DEF View
  <2>10. /\ Connection(sk[c], child[c], Elems(up[c]), Elems(down[c]), app[c], wrote[c], got[c], "none")
         /\ Linked(lq, aq, child[c], c, "none")
    BY <2>4, <2>7, At DEF Conn, Queued
  <2>11. Hashed(child[c])
    BY <2>5, <2>10 DEF Connection, ChildOK
  <2>12. aq[1] = [client |-> c, generation |-> Generation(child[c])]
    BY <2>3, <2>5 DEF Id
  <2>13. child[c].state # "SYN_RECV" /\ Linked(lq, r, child[c], c, "read")
    <3> DEFINE v == "none"
               y == "read"
               i == 1
    <3>1. v = "none" /\ y # "none" /\ Linked(lq, aq, child[c], c, v) /\ i \in 1..Len(aq)
          /\ aq[i] = [client |-> c, generation |-> Generation(child[c])] /\ Without(r, aq, i)
      BY <2>3, <2>10, <2>12
    <3> HIDE DEF v, y, i, aq, lq
    <3>2. child[c].state # "SYN_RECV" /\ Linked(lq, r, child[c], c, y)
      BY ONLY <2>1, <2>2, <2>11, <3>1, LinkedAccepted
    <3> QED
      BY <3>2 DEF y
  <2>14. Connection(sk[c], child[c], Elems(up[c]), Elems(down[c]), app[c], wrote[c], got[c], "read")
    BY <2>10, <2>11, <2>13, AcceptStep
  <2>15. /\ listener'.listen_queue = lq /\ listener'.accept_queue = r
         /\ ServerOK(listener', server')
    <3> DEFINE n == listener.accept_backlog - 1
    <3>1. n \in Nat /\ n = Len(r) /\ n <= Backlog
      BY <2>1, <2>2, LifecycleAssumption
    <3>2. listener' = [listener EXCEPT !.accept_queue = r, !.accept_backlog = n]
      BY <2>8
    <3> HIDE DEF n, aq
    <3>3. /\ listener'.listen_queue = lq /\ listener'.accept_queue = r
          /\ listener'.accept_backlog = n
          /\ listener' \in [state : {"LISTEN", "FREED"}, listen_queue : Seq(Link),
                            accept_queue : Seq(Link), accept_backlog : Nat]
      BY <2>1, <2>2, <3>1, <3>2
    <3>4. server' \in [pc : Pcs, csk : Clients \cup {"none"}] /\ (server'.pc = "accept" <=> server'.csk = "none")
      BY <2>4, <2>8, LifecycleAssumption DEF Pcs
    <3> QED
      BY <3>1, <3>3, <3>4 DEF ServerOK
  <2>16. Only(c)
    BY <2>8 DEF IInv, Typing, Only
  <2>17. ASSUME NEW d \in Clients \ {c}
         PROVE  View(d)' = View(d) /\ Queued(d)'
    <3>1. Linked(lq, aq, child[d], d, View(d))
      BY At DEF Queued
    <3>2. aq[1].client # d
      BY <2>12
    <3> HIDE DEF lq, aq
    <3>3. Linked(lq, r, child[d], d, View(d))
      BY <2>1, <2>2, <2>3, <3>1, <3>2, LinkedOther
    <3> QED
      BY <2>7, <2>8, <2>9, <2>15, <3>3 DEF Queued
  <2>18. SynFirst(up[c])' /\ Conn(c)' /\ Queued(c)'
    BY <2>4, <2>8, <2>9, <2>13, <2>14, <2>15, At DEF Conn, Queued
  <2> QED
    BY <2>4, <2>15, <2>16, <2>17, <2>18, Frame
<1> QED
  BY <1>1, <1>2

\* The server while it serves a child.
LEMMA ServingFacts ==
  ASSUME IInv, NEW pc \in Pcs \ {"accept"}, Serving(pc), NEW c, c = server.csk
  PROVE  /\ c \in Clients /\ server = [pc |-> pc, csk |-> c] /\ View(c) = pc
         /\ \A d \in Clients \ {c} : View(d) = "none"
         /\ Hashed(child[c])
         /\ Connection(sk[c], child[c], Elems(up[c]), Elems(down[c]), app[c], wrote[c], got[c], pc)
<1>1. c \in Clients /\ server = [pc |-> pc, csk |-> c] /\ Hashed(child[c])
  BY DEF IInv, Typing, Serving
<1>2. View(c) = pc /\ \A d \in Clients \ {c} : View(d) = "none"
  BY <1>1 DEF View
<1> QED
  BY <1>1, <1>2, At DEF Conn

\* A step of the server's application with the child it serves.
LEMMA ServerFrame ==
  ASSUME IInv, NEW pc \in Pcs \ {"accept"}, NEW c \in Clients, server = [pc |-> pc, csk |-> c],
         NEW np \in Pcs \ {"accept"}, server' = [pc |-> np, csk |-> c],
         Only(c), UNCHANGED listener, up'[c] = up[c],
         Connection(sk'[c], child'[c], Elems(up[c]), Elems(down'[c]), app'[c], wrote'[c], got'[c], np),
         Generation(child'[c]) = Generation(child[c]), Hashed(child[c]),
         child'[c].state = "SYN_RECV" <=> child[c].state = "SYN_RECV"
  PROVE  IInv'
<1>1. View(c) = pc /\ View(c)' = np /\ pc # "none" /\ np # "none"
  BY DEF View, Pcs
<1>2. \A d \in Clients \ {c} : View(d)' = View(d)
  BY DEF View
<1>3. ASSUME NEW d \in Clients \ {c}
      PROVE  Queued(d)'
  <2>1. Queued(d)
    BY At
  <2> QED
    BY <1>2, <2>1 DEF Queued, Only
<1>4. Queued(c)'
  <2>1. Linked(listener.listen_queue, listener.accept_queue, child[c], c, pc)
    BY <1>1, At DEF Queued
  <2>2. /\ Hashed(child'[c]) => Hashed(child[c]) /\ (child'[c].state = "SYN_RECV" <=> child[c].state = "SYN_RECV")
        /\ pc = "none" <=> np = "none"
    BY <1>1
  <2>3. Linked(listener.listen_queue, listener.accept_queue, child'[c], c, np)
    BY ONLY <2>1, <2>2, LinkedSame, Generation(child'[c]) = Generation(child[c])
  <2> QED
    BY <1>1, <2>3 DEF Queued
<1>5. ServerOK(listener', server')
  <2>1. ServerOK(listener, server)
    BY At
  <2> QED
    BY <2>1, LifecycleAssumption DEF ServerOK
<1>6. Conn(c)' /\ SynFirst(up[c])'
  BY <1>1, At DEF Conn
<1> QED
  BY <1>2, <1>3, <1>4, <1>5, <1>6, Frame

LEMMA ReadBytesInv ==
  ASSUME IInv, ReadBytes
  PROVE  /\ IInv' /\ got[server.csk] = 0 /\ wrote[server.csk] = 1
         /\ child[server.csk].rcv_buf = 1 /\ server.csk \in Clients
<1>1. PICK c : c = server.csk
  OBVIOUS
<1> DEFINE k == child[c]
           m == [k EXCEPT !.rcv_buf = 0]
<1>2. /\ c \in Clients /\ server = [pc |-> "read", csk |-> c] /\ Hashed(k) /\ k.rcv_buf > 0
      /\ Connection(sk[c], k, Elems(up[c]), Elems(down[c]), app[c], wrote[c], got[c], "read")
  <2>1. Serving("read") /\ "read" \in Pcs \ {"accept"} /\ k.rcv_buf > 0
    BY <1>1 DEF ReadBytes, Pcs
  <2> QED
    BY <1>1, <2>1, ServingFacts
<1>3. /\ child' = [child EXCEPT ![c] = m] /\ got' = [got EXCEPT ![c] = got[c] + k.rcv_buf]
      /\ UNCHANGED <<sk, listener, waits, corrupt, up, down, app, server, wrote>>
  BY <1>1 DEF ReadBytes, links
<1> HIDE DEF m
<1>4. /\ got[c] = 0 /\ wrote[c] = 1 /\ k.rcv_buf = 1
      /\ m \in Sock /\ m.state = k.state /\ Generation(m) = Generation(k)
      /\ Connection(sk[c], m, Elems(up[c]), Elems(down[c]), app[c], wrote[c], 1, "read")
  <2>1. m = [k EXCEPT !.rcv_buf = 0]
    BY DEF m
  <2> QED
    BY ONLY <1>2, <2>1, ReadStep
<1>5. Only(c) /\ child'[c] = m /\ got'[c] = 1
  BY <1>2, <1>3, <1>4 DEF IInv, Typing, Only
<1>6. IInv'
  <2>1. "read" \in Pcs \ {"accept"} /\ server' = [pc |-> "read", csk |-> c]
    BY <1>2, <1>3 DEF Pcs
  <2>2. Connection(sk'[c], child'[c], Elems(up[c]), Elems(down'[c]), app'[c], wrote'[c], got'[c], "read")
    BY <1>3, <1>4, <1>5
  <2> QED
    BY <1>2, <1>3, <1>4, <1>5, <2>1, <2>2, ServerFrame
<1> QED
  BY <1>1, <1>2, <1>4, <1>6

LEMMA TestEndInv ==
  ASSUME IInv, TestEnd
  PROVE  /\ IInv' /\ server.csk \in Clients /\ server'.csk = server.csk
         /\ server'.pc = "eof" \/ server'.pc = "tested"
         /\ server'.pc = "eof" => app[server.csk] = "closed" /\ got[server.csk] = wrote[server.csk]
<1>1. PICK c : c = server.csk
  OBVIOUS
<1> DEFINE k == child[c]
<1>2. /\ c \in Clients /\ server = [pc |-> "read", csk |-> c] /\ Hashed(k) /\ k.rcv_buf = 0
      /\ Connection(sk[c], k, Elems(up[c]), Elems(down[c]), app[c], wrote[c], got[c], "read")
  <2>1. Serving("read") /\ "read" \in Pcs \ {"accept"} /\ k.rcv_buf = 0
    BY <1>1 DEF TestEnd, Pcs
  <2> QED
    BY <1>1, <2>1, ServingFacts
<1>3. PICK np : np = IF k.state = "CLOSE_WAIT" THEN "eof" ELSE "tested"
  OBVIOUS
<1>4. /\ server' = [pc |-> np, csk |-> c]
      /\ UNCHANGED <<sk, child, listener, waits, corrupt, up, down, app, wrote, got>>
  BY <1>1, <1>2, <1>3 DEF TestEnd, socks, links
<1>5. /\ Connection(sk[c], k, Elems(up[c]), Elems(down[c]), app[c], wrote[c], got[c], np)
      /\ np = "eof" => app[c] = "closed" /\ got[c] = wrote[c]
  <2>1. CASE k.state = "CLOSE_WAIT"
    BY <1>2, <1>3, <2>1, EndStep
  <2>2. CASE k.state # "CLOSE_WAIT"
    BY <1>2, <1>3, <2>2, ViewStep
  <2> QED
    BY <2>1, <2>2
<1>6. Only(c)
  BY <1>4 DEF IInv, Typing, Only
<1>7. "read" \in Pcs \ {"accept"} /\ np \in Pcs \ {"accept"}
  BY <1>3 DEF Pcs
<1>8. IInv'
  BY <1>2, <1>4, <1>5, <1>6, <1>7, ServerFrame
<1> QED
  BY <1>1, <1>2, <1>3, <1>4, <1>5, <1>8

LEMMA ReadSleepInv ==
  ASSUME IInv, ReadSleep
  PROVE  IInv'
<1>1. PICK c : c = server.csk
  OBVIOUS
<1>2. /\ c \in Clients /\ server = [pc |-> "tested", csk |-> c] /\ Hashed(child[c])
      /\ Connection(sk[c], child[c], Elems(up[c]), Elems(down[c]), app[c], wrote[c], got[c], "tested")
  <2>1. Serving("tested") /\ "tested" \in Pcs \ {"accept"}
    BY DEF ReadSleep, Pcs
  <2> QED
    BY <1>1, <2>1, ServingFacts
<1>3. /\ server' = [pc |-> "asleep", csk |-> c]
      /\ UNCHANGED <<sk, child, listener, waits, corrupt, up, down, app, wrote, got>>
  BY <1>2 DEF ReadSleep, socks, links
<1>4. Connection(sk[c], child[c], Elems(up[c]), Elems(down[c]), app[c], wrote[c], got[c], "asleep")
  BY <1>2, ViewStep
<1>5. Only(c)
  BY <1>3 DEF IInv, Typing, Only
<1>6. "tested" \in Pcs \ {"accept"} /\ "asleep" \in Pcs \ {"accept"}
  BY DEF Pcs
<1> QED
  BY <1>2, <1>3, <1>4, <1>5, <1>6, ServerFrame

LEMMA CloseChildInv ==
  ASSUME IInv, CloseChild
  PROVE  IInv' /\ server.csk \in Clients /\ server.pc = "eof"
         /\ server' = [pc |-> "closed", csk |-> server.csk]
<1>1. PICK c : c = server.csk
  OBVIOUS
<1> DEFINE k == child[c]
           m == tcp_sock_close(k)
           y == CloseSegment(k)
           e == Sent(down[c], <<y>>)
<1>2. /\ c \in Clients /\ server = [pc |-> "eof", csk |-> c] /\ Hashed(k)
      /\ Connection(sk[c], k, Elems(up[c]), Elems(down[c]), app[c], wrote[c], got[c], "eof")
  <2>1. Serving("eof") /\ "eof" \in Pcs \ {"accept"}
    BY DEF CloseChild, Pcs
  <2> QED
    BY <1>1, <2>1, ServingFacts
<1>3. /\ child' = [child EXCEPT ![c] = m] /\ down' = [down EXCEPT ![c] = e]
      /\ server' = [pc |-> "closed", csk |-> c]
      /\ UNCHANGED <<sk, listener, waits, corrupt, up, app, wrote, got>>
  BY <1>1, <1>2 DEF CloseChild
<1>4. /\ k.state = "CLOSE_WAIT" /\ m.state = "LAST_ACK"
      /\ m \in Sock /\ Generation(m) = Generation(k) /\ y \in Seg
      /\ Connection(sk[c], m, Elems(up[c]), Elems(down[c]) \cup {y}, app[c], wrote[c], got[c], "closed")
  <2>1. m = tcp_sock_close(k)
    OBVIOUS
  <2> HIDE DEF m
  <2> QED
    BY ONLY <1>2, <2>1, CloseChildStep DEF y
<1> HIDE DEF m, y
<1>5. /\ e \in Seq(Seg)
      /\ Connection(sk[c], m, Elems(up[c]), Elems(e), app[c], wrote[c], got[c], "closed")
  <2>1. down[c] \in Seq(Seg)
    BY <1>2, At
  <2> QED
    BY ONLY <1>4, <2>1, PushDownOne
<1> HIDE DEF e
<1>6. Only(c) /\ child'[c] = m /\ down'[c] = e
  BY <1>2, <1>3, <1>4, <1>5 DEF IInv, Typing, Only
<1>7. "eof" \in Pcs \ {"accept"} /\ "closed" \in Pcs \ {"accept"}
  BY DEF Pcs
<1>8. Connection(sk'[c], child'[c], Elems(up[c]), Elems(down'[c]), app'[c], wrote'[c], got'[c], "closed")
  BY <1>3, <1>5, <1>6
<1>9. IInv'
  <2>1. child'[c].state = "SYN_RECV" <=> child[c].state = "SYN_RECV"
    BY <1>4, <1>6
  <2> QED
    BY <1>2, <1>3, <1>4, <1>6, <1>7, <1>8, <2>1, ServerFrame
<1> QED
  BY <1>1, <1>2, <1>3, <1>9

-----------------------------------------------------------------------------
(***************************************************************************)
(* The invariant holds at first, and every step keeps it.                  *)
(***************************************************************************)
LEMMA InitSocks ==
  /\ NewSock(5) \in Sock /\ NoSock \in Sock
  /\ Connection(NewSock(5), NoSock, {}, {}, "start", 0, 0, "none")
<1>1. << >> \in Seq(Entry) /\ Elems(<< >>) = {}
  BY OneElem DEF Elems
<1>2. NewSock(5) \in Sock /\ NewSock(0) \in Sock
  BY <1>1 DEF NewSock, Sock, States
<1> DEFINE s == NewSock(5)
           k == NoSock
<1>3. /\ s \in Sock /\ s.state = "CLOSED" /\ s.snd_una = 0 /\ s.snd_nxt = 5 /\ s.rcv_nxt = 0
      /\ s.send_buf = << >> /\ s.rcv_buf = 0
  BY <1>2 DEF NewSock
<1>4. /\ k \in Sock /\ k.state = "FREED" /\ k.snd_una = 0 /\ k.snd_nxt = 0 /\ k.rcv_nxt = 0
      /\ k.send_buf = << >> /\ k.rcv_buf = 0 /\ ~Hashed(k)
  <2>1. NewSock(0).snd_nxt = 0
    BY DEF NewSock
  <2> QED
    BY <1>2, <2>1, FreedFacts DEF NoSock
<1> HIDE DEF s, k
<1>5. Generation(k) = 0
  BY <1>4 DEF Generation
<1>6. ClientOK(s, "start", 0)
  BY <1>1, <1>3 DEF ClientOK, StatesAt, Places
<1>7. UpOK({}, s, "start", 0) /\ DownOK({}, k, s, {}, "start")
  BY DEF UpOK, DownOK
<1>8. ChildOK(k, s, "start")
  BY <1>1, <1>3, <1>4, <1>5 DEF ChildOK
<1>9. Agree(s, k, {}, "start", 0)
  BY <1>3, <1>4 DEF Agree
<1>10. Served(s, k, {}, "start", 0, 0, "none")
  BY <1>4 DEF Served, Pcs
<1>11. Connection(s, k, {}, {}, "start", 0, 0, "none")
  BY <1>6, <1>7, <1>8, <1>9, <1>10 DEF Connection
<1> QED
  BY <1>3, <1>4, <1>11 DEF s, k

LEMMA InitInv == Init => IInv
<1> SUFFICES ASSUME Init
             PROVE  IInv
  OBVIOUS
<1>1. << >> \in Seq(Link) /\ << >> \in Seq(Seg) /\ Elems(<< >>) = {} /\ Len(<< >>) = 0
  BY DEF Elems
<1>2. /\ sk = [c \in Clients |-> NewSock(5)] /\ child = [c \in Clients |-> NoSock]
      /\ listener = [state |-> "LISTEN", listen_queue |-> << >>,
                     accept_queue |-> << >>, accept_backlog |-> 0]
      /\ app = [c \in Clients |-> "start"] /\ server = [pc |-> "accept", csk |-> "none"]
      /\ up = [c \in Clients |-> << >>] /\ down = [c \in Clients |-> << >>]
      /\ wrote = [c \in Clients |-> 0] /\ got = [c \in Clients |-> 0]
      /\ waits = {} /\ corrupt = FALSE
  BY DEF Init
<1>3. Typing
  <2>1. /\ sk \in [Clients -> Sock] /\ child \in [Clients -> Sock]
        /\ up \in [Clients -> Seq(Seg)] /\ down \in [Clients -> Seq(Seg)]
    BY <1>1, <1>2, InitSocks
  <2>2. /\ listener \in [state : {"LISTEN", "FREED"}, listen_queue : Seq(Link),
                         accept_queue : Seq(Link), accept_backlog : Nat]
        /\ listener.accept_backlog = Len(listener.accept_queue)
        /\ listener.accept_backlog <= Backlog
    BY <1>1, <1>2, LifecycleAssumption
  <2>3. /\ app \in [Clients -> Places] /\ wrote \in [Clients -> {0, 1}]
        /\ got \in [Clients -> {0, 1}] /\ server \in [pc : Pcs, csk : Clients \cup {"none"}]
        /\ server.pc = "accept" <=> server.csk = "none"
        /\ waits = {} /\ corrupt \in BOOLEAN
    BY <1>2 DEF Places, Pcs
  <2> QED
    BY <2>1, <2>2, <2>3 DEF Typing
<1>4. ASSUME NEW c \in Clients
      PROVE  ConnectionInv(c)
  <2>1. View(c) = "none"
    BY <1>2, LifecycleAssumption DEF View
  <2>2. SynFirst(up[c])
    BY <1>2 DEF SynFirst
  <2>3. Connection(sk[c], child[c], Elems(up[c]), Elems(down[c]), app[c], wrote[c], got[c], View(c))
    <3>1. /\ sk[c] = NewSock(5) /\ child[c] = NoSock /\ Elems(up[c]) = {} /\ Elems(down[c]) = {}
          /\ app[c] = "start" /\ wrote[c] = 0 /\ got[c] = 0
      BY <1>1, <1>2
    <3> QED
      BY <2>1, <3>1, InitSocks
  <2>4. child[c].state = "FREED"
    <3>1. NewSock(0) \in Sock
      BY <1>1, OneElem DEF NewSock, Sock, States
    <3> QED
      BY <1>2, <3>1, FreedFacts DEF NoSock
  <2>5. Linked(listener.listen_queue, listener.accept_queue, child[c], c, View(c))
    BY <1>1, <1>2, <2>4 DEF Linked, Hashed
  <2> QED
    BY <2>2, <2>3, <2>5 DEF ConnectionInv
<1> QED
  BY <1>3, <1>4 DEF IInv

LEMMA NextInv == IInv /\ [Next]_vars => IInv'
<1> SUFFICES ASSUME IInv, [Next]_vars
             PROVE  IInv'
  OBVIOUS
<1>1. ASSUME NEW c \in Clients, ClientApp(c)
      PROVE  IInv'
  BY <1>1, ConnectSendInv, ConnectHashInv, ConnectSleepInv, WriteInv, CloseInv DEF ClientApp
<1>2. ASSUME NEW c \in Clients, ServerNet(c)
      PROVE  IInv'
  BY <1>2, ListenSynInv, ListenRstInv, NoSockFoundInv, ChildReceivesInv DEF ServerNet
<1>3. ASSUME NEW c \in Clients, ClientReceives(c) \/ ClientScan(c) \/ ChildScan(c) \/ TimeWaitEnds(c) \/ Lose(c)
      PROVE  IInv'
  BY <1>3, ClientReceivesInv, ClientScanInv, ChildScanInv, TimeWaitEndsInv, LoseInv
<1>4. CASE ServerApp
  BY <1>4, AcceptInv, ReadBytesInv, TestEndInv, ReadSleepInv, CloseChildInv DEF ServerApp
<1>5. CASE UNCHANGED vars
  <2>1. UNCHANGED <<sk, child, listener, waits, corrupt, up, down, app, server, wrote, got>>
    BY <1>5 DEF vars, socks, links, apps
  <2>2. Typing'
    BY <2>1 DEF IInv, Typing
  <2>3. \A c \in Clients : ConnectionInv(c)'
    BY <2>1 DEF IInv, ConnectionInv, View
  <2> QED
    BY <2>2, <2>3 DEF IInv
<1> QED
  BY <1>1, <1>2, <1>3, <1>4, <1>5 DEF Next

(***************************************************************************)
(* In every reachable state each connection, with what is on its two       *)
(* links, is one that the handlers of the two ends can have left.          *)
(***************************************************************************)
THEOREM IInvAlways == Spec => []IInv
  BY InitInv, NextInv, PTL DEF Spec

-----------------------------------------------------------------------------
(***************************************************************************)
(* What follows from it.  First, every variable keeps its type: among      *)
(* others, no segment is kept for more than MaxTimes + 1 repetitions and   *)
(* no reader finds more than one segment in its ring.                      *)
(***************************************************************************)
THEOREM TypeCorrect == Spec => []TypeOK
<1>1. ASSUME IInv
      PROVE  TypeOK
  <2>1. ASSUME NEW s \in Sock
        PROVE  SockOK(s)
    <3>1. s.send_buf \in Seq(Entry)
      BY SockFacts
    <3>2. \A i \in DOMAIN s.send_buf : s.send_buf[i] \in Entry
      BY <3>1
    <3>3. \A i \in DOMAIN s.send_buf : s.send_buf[i].times \in 0..(MaxTimes + 1)
      BY <3>2 DEF Entry
    <3> QED
      BY <3>3, SockFacts DEF SockOK
  <2> QED
    BY <1>1, <2>1 DEF IInv, Typing, TypeOK, Places, Pcs
<1> QED
  BY <1>1, IInvAlways, PTL

(***************************************************************************)
(* The server's end is open only when the client has answered its SYN|ACK, *)
(* however often SYNs were repeated, lost and met by new children.         *)
(***************************************************************************)
THEOREM HandshakeAgreesAlways == Spec => []HandshakeAgrees
<1>1. ASSUME IInv
      PROVE  HandshakeAgrees
  BY <1>1, At DEF HandshakeAgrees, Conn, Connection, Agree, NoMoreSyn, Opening
<1> QED
  BY <1>1, IInvAlways, PTL

(***************************************************************************)
(* What one end takes as acked the other has received, in both directions. *)
(***************************************************************************)
THEOREM AckedIsReceivedAlways == Spec => []AckedIsReceived
<1>1. ASSUME IInv
      PROVE  AckedIsReceived
  BY <1>1, At DEF AckedIsReceived, Conn, Connection, Agree, ChildOK
<1> QED
  BY <1>1, IInvAlways, PTL

(***************************************************************************)
(* The network thread of neither host ever waits in tcp_process.           *)
(***************************************************************************)
THEOREM NetworkThreadRunsAlways == Spec => []NetworkThreadRuns
<1>1. ASSUME IInv
      PROVE  NetworkThreadRuns
  BY <1>1 DEF IInv, Typing, NetworkThreadRuns
<1> QED
  BY <1>1, IInvAlways, PTL

(***************************************************************************)
(* accept_backlog counts the accept queue and respects the backlog, and a  *)
(* child in the tables is linked once, in the queue of its state, until it *)
(* is accepted (tcp_sock_accept_enqueue, tcp_sock_accept_dequeue).         *)
(***************************************************************************)
THEOREM QueuesConsistentAlways == Spec => []QueuesConsistent
<1>1. ASSUME IInv
      PROVE  QueuesConsistent
  <2> DEFINE lq == listener.listen_queue
             aq == listener.accept_queue
             places(queue, c) == {i \in DOMAIN queue : queue[i] = Id(c)}
  <2>1. /\ lq \in Seq(Link) /\ aq \in Seq(Link)
        /\ listener.accept_backlog = Len(aq) /\ listener.accept_backlog <= Backlog
    BY <1>1 DEF IInv, Typing
  <2>2. ASSUME NEW c \in Clients, Hashed(child[c])
        PROVE  IF child[c].state = "SYN_RECV"
               THEN Cardinality(places(lq, c)) = 1 /\ places(aq, c) = {}
               ELSE /\ places(lq, c) = {}
                    /\ Cardinality(places(aq, c)) = IF server.csk = c THEN 0 ELSE 1
    <3> DEFINE x == Id(c)
    <3>1. x = [client |-> c, generation |-> Generation(child[c])]
      BY DEF Id
    <3>2. View(c) = "none" <=> server.csk # c
      BY <1>1 DEF View, IInv, Typing, Pcs
    <3>3. IF child[c].state = "SYN_RECV" THEN Once(lq, x) /\ x \notin Elems(aq)
          ELSE x \notin Elems(lq) /\ (IF View(c) = "none" THEN Once(aq, x) ELSE x \notin Elems(aq))
      BY <1>1, <2>2, <3>1, At DEF Queued, Linked
    <3> HIDE DEF x, lq, aq
    <3>4. /\ Once(lq, x) => Cardinality({i \in DOMAIN lq : lq[i] = x}) = 1
          /\ Once(aq, x) => Cardinality({i \in DOMAIN aq : aq[i] = x}) = 1
          /\ x \notin Elems(lq) => {i \in DOMAIN lq : lq[i] = x} = {}
          /\ x \notin Elems(aq) => {i \in DOMAIN aq : aq[i] = x} = {}
          /\ Cardinality({}) = 0
      BY <2>1, OnceFacts
    <3>5. /\ places(lq, c) = {i \in DOMAIN lq : lq[i] = x}
          /\ places(aq, c) = {i \in DOMAIN aq : aq[i] = x}
      BY DEF x
    <3> HIDE DEF places
    <3> QED
      BY <3>2, <3>3, <3>4, <3>5
  <2> QED
    BY <2>1, <2>2 DEF QueuesConsistent
<1> QED
  BY <1>1, IInvAlways, PTL

-----------------------------------------------------------------------------
(***************************************************************************)
(* The refinement: writing, closing, reading and coming to the end are     *)
(* steps of ClosingStream, everything else leaves it as it is.             *)
(***************************************************************************)
Closed == {c \in Clients : app[c] = "closed"}
AtEnd == server.pc \in {"eof", "closed"}
Ended == IF AtEnd THEN {server.csk} ELSE {}

LEMMA Stutters ==
  ASSUME UNCHANGED <<wrote, got, Closed, Ended>>
  PROVE  [Conversation!Next]_(Conversation!vars)
  BY DEF Conversation!vars, Closed, Ended, AtEnd

\* The server's reader goes on or sleeps: it has not come to the end.
LEMMA NotEnded ==
  ASSUME UNCHANGED <<wrote, got, app>>, server' = server \/ (~AtEnd /\ ~AtEnd')
  PROVE  [Conversation!Next]_(Conversation!vars)
<1>1. Closed' = Closed
  BY DEF Closed
<1>2. Ended' = Ended
  BY DEF Ended, AtEnd
<1> QED
  BY <1>1, <1>2, Stutters

LEMMA ClosedStays ==
  ASSUME IInv, NEW c \in Clients, app[c] # "closed", NEW a, a # "closed",
         app' = [app EXCEPT ![c] = a]
  PROVE  Closed' = Closed
  BY DEF IInv, Typing, Closed

LEMMA ClientAppRefines ==
  ASSUME IInv, NEW c \in Clients, ClientApp(c)
  PROVE  [Conversation!Next]_(Conversation!vars)
<1>1. app \in [Clients -> Places] /\ wrote \in [Clients -> {0, 1}]
  BY DEF IInv, Typing
<1>2. CASE ConnectSend(c) \/ ConnectHash(c) \/ ConnectSleep(c)
  <2>1. Closed' = Closed
    BY <1>2, ClosedStays DEF ConnectSend, ConnectHash, ConnectSleep
  <2>2. UNCHANGED <<wrote, got, server>>
    BY <1>2 DEF ConnectSend, ConnectHash, ConnectSleep
  <2> QED
    BY <2>1, <2>2, Stutters DEF Ended, AtEnd
<1>3. CASE Write(c)
  <2>1. /\ c \notin Closed /\ wrote' = [wrote EXCEPT ![c] = wrote[c] + 1]
        /\ UNCHANGED <<got, Closed, Ended>>
    BY <1>1, <1>3 DEF Write, Closed, Ended, AtEnd
  <2> QED
    BY <2>1 DEF Conversation!Next, Conversation!Write, Closed, Ended, AtEnd
<1>4. CASE Close(c)
  <2>1. app[c] = "connected" /\ app' = [app EXCEPT ![c] = "closed"] /\ UNCHANGED <<wrote, got, server>>
    BY <1>4 DEF Close
  <2>2. c \notin Closed /\ Closed' = Closed \cup {c} /\ UNCHANGED <<wrote, got, Ended>>
    BY <1>1, <2>1 DEF Closed, Ended, AtEnd
  <2> QED
    BY <2>2 DEF Conversation!Next, Conversation!Close, Closed, Ended, AtEnd
<1> QED
  BY <1>2, <1>3, <1>4 DEF ClientApp

LEMMA ServerAppRefines ==
  ASSUME IInv, ServerApp
  PROVE  [Conversation!Next]_(Conversation!vars)
<1>1. CASE Accept
  <2>1. /\ UNCHANGED <<wrote, got, app>>
        /\ server' = server \/ (server.pc = "accept" /\ server'.pc = "read")
    BY <1>1 DEF Accept, UseAfterFree, apps
  <2> QED
    BY <2>1, NotEnded DEF AtEnd
<1>2. CASE ReadBytes
  <2>1. /\ got[server.csk] = 0 /\ wrote[server.csk] = 1
        /\ child[server.csk].rcv_buf = 1 /\ server.csk \in Clients
    BY <1>2, ReadBytesInv
  <2>2. PICK c \in Clients : c = server.csk
    BY <2>1
  <2>3. /\ 1 \in 1..(wrote[c] - got[c]) /\ got' = [got EXCEPT ![c] = got[c] + 1]
        /\ c \notin Ended /\ UNCHANGED <<wrote, Closed, Ended>>
    <3>1. /\ server.pc = "read" /\ got' = [got EXCEPT ![c] = got[c] + child[c].rcv_buf]
          /\ UNCHANGED <<wrote, app, server>>
      BY <1>2, <2>2 DEF ReadBytes, Serving
    <3>2. c \notin Ended /\ UNCHANGED <<Closed, Ended>>
      BY <3>1 DEF Closed, Ended, AtEnd
    <3>3. got[c] = 0 /\ wrote[c] = 1 /\ child[c].rcv_buf = 1
      BY <2>1, <2>2
    <3> QED
      BY <3>1, <3>2, <3>3
  <2> QED
    BY <2>3 DEF Conversation!Next, Conversation!Read, Closed, Ended, AtEnd
<1>3. CASE TestEnd
  <2>1. /\ server.csk \in Clients /\ server'.csk = server.csk
        /\ server'.pc = "eof" \/ server'.pc = "tested"
        /\ server'.pc = "eof" => app[server.csk] = "closed" /\ got[server.csk] = wrote[server.csk]
    BY <1>3, TestEndInv
  <2>2. server.pc = "read" /\ UNCHANGED <<wrote, got, app>>
    BY <1>3 DEF TestEnd, Serving
  <2>3. CASE server'.pc = "tested"
    BY <2>2, <2>3, NotEnded DEF AtEnd
  <2>4. CASE server'.pc = "eof"
    <3>1. PICK c \in Clients : c = server.csk
      BY <2>1
    <3>2. /\ c \in Closed \ Ended /\ got[c] = wrote[c] /\ Ended' = Ended \cup {c}
          /\ UNCHANGED <<wrote, got, Closed>>
      BY <2>1, <2>2, <2>4, <3>1 DEF Closed, Ended, AtEnd
    <3> QED
      BY <3>2 DEF Conversation!Next, Conversation!End, Closed, Ended, AtEnd
  <2> QED
    BY <2>1, <2>3, <2>4
<1>4. CASE ReadSleep
  <2>1. /\ UNCHANGED <<wrote, got, app>> /\ server.pc = "tested" /\ server'.pc = "asleep"
    BY <1>4 DEF ReadSleep, Serving, IInv, Typing
  <2> QED
    BY <2>1, NotEnded DEF AtEnd
<1>5. CASE CloseChild
  <2>1. UNCHANGED <<wrote, got, app>> /\ server.pc = "eof" /\ server' = [pc |-> "closed", csk |-> server.csk]
    BY <1>5, CloseChildInv DEF CloseChild
  <2>2. UNCHANGED <<wrote, got, Closed, Ended>>
    BY <2>1 DEF Closed, Ended, AtEnd
  <2> QED
    BY <2>2, Stutters
<1> QED
  BY <1>1, <1>2, <1>3, <1>4, <1>5 DEF ServerApp

LEMMA NetworkRefines ==
  ASSUME IInv, NEW c \in Clients, ServerNet(c) \/ ClientReceives(c)
  PROVE  [Conversation!Next]_(Conversation!vars)
<1>1. CASE ListenSyn(c) \/ ListenRst(c) \/ NoSockFound(c)
  <2>1. UNCHANGED <<wrote, got, app, server>>
    BY <1>1 DEF ListenSyn, ListenRst, NoSockFound, UseAfterFree, apps
  <2> QED
    BY <2>1, NotEnded
<1>2. CASE ChildReceives(c)
  <2>1. UNCHANGED <<wrote, got, app>>
    BY <1>2 DEF ChildReceives, UseAfterFree, apps
  <2>2. \/ server' = server
        \/ \E woken : server' = Awake(c, woken)
    BY <1>2 DEF ChildReceives, UseAfterFree, apps
  <2>3. server' = server \/ (server.pc = "asleep" /\ server'.pc = "read")
    BY <2>2 DEF Awake, IInv, Typing
  <2> QED
    BY <2>1, <2>3, NotEnded DEF AtEnd
<1>3. CASE ClientReceives(c)
  <2>1. /\ UNCHANGED <<wrote, got, server>>
        /\ app' = app \/ (app[c] = "asleep" /\ app' = [app EXCEPT ![c] = "connected"])
    BY <1>3 DEF ClientReceives
  <2>2. Closed' = Closed
    BY <2>1, ClosedStays DEF Closed
  <2> QED
    BY <2>1, <2>2, Stutters DEF Ended, AtEnd
<1> QED
  BY <1>1, <1>2, <1>3 DEF ServerNet

LEMMA StepRefines == IInv /\ [Next]_vars => [Conversation!Next]_(Conversation!vars)
<1> SUFFICES ASSUME IInv, [Next]_vars
             PROVE  [Conversation!Next]_(Conversation!vars)
  OBVIOUS
<1>1. ASSUME NEW c \in Clients, ClientScan(c) \/ ChildScan(c) \/ TimeWaitEnds(c) \/ Lose(c)
      PROVE  [Conversation!Next]_(Conversation!vars)
  BY <1>1, NotEnded DEF ClientScan, ChildScan, TimeWaitEnds, Lose, apps
<1>2. CASE UNCHANGED vars
  BY <1>2, NotEnded DEF vars, apps
<1> QED
  BY <1>1, <1>2, ClientAppRefines, NetworkRefines, ServerAppRefines DEF Next

LEMMA InitRefines == Init => Conversation!Init
  BY DEF Init, Conversation!Init

(***************************************************************************)
(* The server reads what a client wrote, none of it twice, and a read      *)
(* returns 0 only when the client has closed and nothing is left, through  *)
(* lost and repeated segments (tcp_sock_read, tcp_process).                *)
(***************************************************************************)
THEOREM EndOfStreamIsLastAlways == Spec => EndOfStreamIsLast
<1>1. Init => Conversation!Init
  BY InitRefines
<1>2. IInv /\ [Next]_vars => [Conversation!Next]_(Conversation!vars)
  BY StepRefines
<1> QED
  BY <1>1, <1>2, IInvAlways, PTL DEF Spec, EndOfStreamIsLast, Conversation!Spec

=============================================================================
