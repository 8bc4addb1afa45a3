--------------------------- MODULE ArpCacheProofs ---------------------------
(***************************************************************************)
(* What ArpCache guarantees for every set of addresses, every size of the  *)
(* table and every limit of repetitions.                                   *)
(***************************************************************************)
EXTENDS ArpCache, SequenceTheorems, FiniteSetTheorems, WellFoundedInduction, TLAPS

-----------------------------------------------------------------------------
(***************************************************************************)
(* The inductive invariant.  A packet is told by where it is: with the     *)
(* loop, at one place of one request, or answered.  What is known of the   *)
(* sweep is that its request and the next are in the list as long as they  *)
(* are not stale.                                                          *)
(***************************************************************************)
Walk == [pc : {"idle", "icmp", "pend", "relock"}, at : Addr \cup {End}, next : Addr \cup {End},
         last : BOOLEAN, begun : BOOLEAN, stale : SUBSET Addr, icmp : Packet \cup {NoPacket}]

OneEach(list) == \A i, j \in DOMAIN list : list[i].ip4 = list[j].ip4 => i = j

Has(list, ip, n) == \E i \in DOMAIN list : list[i].ip4 = ip /\ Len(list[i].pkts) >= n

WaitsIn(list, p) == \E i \in DOMAIN list : \E k \in DOMAIN list[i].pkts : list[i].pkts[k] = p

\* A packet that came in waits at one place only.
NoneTwice(list) ==
  \A i, j \in DOMAIN list : \A k \in DOMAIN list[i].pkts, l \in DOMAIN list[j].pkts :
    list[i].pkts[k] = list[j].pkts[l] /\ ~list[i].pkts[k].icmp => i = j /\ k = l

\* What waits is not among the answered, but for what the sweep holds.
Unanswered(list, w, A) ==
  \A i \in DOMAIN list : \A k \in DOMAIN list[i].pkts :
    ~list[i].pkts[k].icmp /\ list[i].pkts[k] \in A =>
      w.pc \in {"pend", "relock"} /\ list[i].ip4 = w.at /\ k = 1

Known(p, h) == p.icmp \/ p \in h

PacketsOK(list, w, l, h, A) ==
  /\ \A p \in h : p.id <= Cardinality(h)
  /\ \A p \in A : Known(p, h)
  /\ \A p : WaitsIn(list, p) => Known(p, h)
  /\ l # NoPacket => ~l.icmp /\ l \in h /\ l \notin A /\ ~WaitsIn(list, l)
  /\ NoneTwice(list) /\ Unanswered(list, w, A)

WalkOK(w, list) ==
  w.pc # "idle" =>
    /\ w.at \in Addr
    /\ w.at \notin w.stale => Has(list, w.at, IF w.last THEN 1 ELSE 2)
    /\ w.next = End \/ w.next \in w.stale \/ (w.next # w.at /\ Has(list, w.next, 1))
    /\ w.pc = "pend" => w.icmp \in Packet /\ w.icmp.icmp

Typing ==
  /\ entries \in [Slot -> [valid : BOOLEAN, ip4 : Addr, mac : Mac, age : 0..(Timeout + 1)]]
  /\ req_list \in Seq(Request)
  /\ loop \in Packet \cup {NoPacket} /\ walk \in Walk
  /\ asked \subseteq Addr /\ handed \subseteq Packet /\ IsFiniteSet(handed)
  /\ sent \subseteq Packet /\ refused \subseteq Packet /\ corrupt \in BOOLEAN

IInv == /\ Typing /\ OneEach(req_list) /\ WalkOK(walk, req_list)
        /\ PacketsOK(req_list, walk, loop, handed, sent \cup refused)

-----------------------------------------------------------------------------
(***************************************************************************)
(* Sequences, and the operators of the list of requests.                   *)
(***************************************************************************)
LEMMA LeastNatural ==
  ASSUME NEW T, T \subseteq Nat, T # {}
  PROVE  \E m \in T : \A n \in T : m <= n
<1>1. PICK m \in T : \A n \in T : ~(<<n, m>> \in OpToRel(<, Nat))
  BY NatLessThanWellFounded, WFMin
<1>2. \A n \in T : ~(n < m)
  BY <1>1 DEF OpToRel
<1> QED
  BY <1>2

LEMMA FirstFacts ==
  ASSUME NEW J, J \subseteq Nat \ {0}, NEW m, m = IF J # {} THEN Min(J) ELSE 0
  PROVE  /\ m = 0 => J = {}
         /\ m # 0 => m \in J /\ \A i \in J : m <= i
<1>1. CASE J # {}
  <2>1. PICK l \in J : \A i \in J : l <= i
    BY <1>1, LeastNatural
  <2>2. m = CHOOSE x \in J : \A y \in J : x <= y
    BY <1>1 DEF Min
  <2>3. m \in J /\ \A i \in J : m <= i
    BY <2>1, <2>2
  <2> QED
    BY <2>3
<1> QED
  BY <1>1

LEMMA RemoveAtFacts ==
  ASSUME NEW S, NEW s \in Seq(S), NEW i \in 1..Len(s)
  PROVE  /\ RemoveAt(s, i) \in Seq(S)
         /\ Len(RemoveAt(s, i)) = Len(s) - 1
         /\ \A k \in 1..(Len(s) - 1) : RemoveAt(s, i)[k] = s[IF k < i THEN k ELSE k + 1]
<1> DEFINE p == SubSeq(s, 1, i - 1)
           q == SubSeq(s, i + 1, Len(s))
<1>1. /\ p \in Seq(S) /\ Len(p) = i - 1
      /\ \A k \in 1..(i - 1) : p[k] = s[k]
  OBVIOUS
<1>2. /\ q \in Seq(S) /\ Len(q) = Len(s) - i
      /\ \A k \in 1..(Len(s) - i) : q[k] = s[i + k]
  OBVIOUS
<1> HIDE DEF p, q
<1>3. /\ p \o q \in Seq(S) /\ Len(p \o q) = Len(s) - 1
      /\ \A k \in 1..(Len(s) - 1) :
           (p \o q)[k] = IF k <= Len(p) THEN p[k] ELSE q[k - Len(p)]
  <2>1. Len(p) + Len(q) = Len(s) - 1
    BY <1>1, <1>2
  <2>2. /\ p \o q \in Seq(S) /\ Len(p \o q) = Len(p) + Len(q)
        /\ \A k \in 1..(Len(p) + Len(q)) :
             (p \o q)[k] = IF k <= Len(p) THEN p[k] ELSE q[k - Len(p)]
    BY ONLY ConcatProperties, <1>1, <1>2, Zenon
  <2> QED
    BY ONLY <2>1, <2>2, Zenon
<1>4. RemoveAt(s, i) = p \o q
  BY DEF RemoveAt, p, q
<1>5. ASSUME NEW k \in 1..(Len(s) - 1)
      PROVE  (p \o q)[k] = s[IF k < i THEN k ELSE k + 1]
  <2>1. CASE k < i
    BY <1>1, <1>3, <2>1
  <2>2. CASE ~(k < i)
    <3>1. k - (i - 1) \in 1..(Len(s) - i) /\ i + (k - (i - 1)) = k + 1
      BY <2>2
    <3> QED
      BY <1>2, <1>3, <2>2, <3>1
  <2> QED
    BY <2>1, <2>2
<1> QED
  BY <1>3, <1>4, <1>5

\* The type of a sequence from its entries.
LEMMA SeqFrom ==
  ASSUME NEW S, NEW n \in Nat, NEW m, m = [i \in 1..n |-> m[i]], \A i \in 1..n : m[i] \in S
  PROVE  m \in Seq(S) /\ Len(m) = n /\ DOMAIN m = 1..n
OBVIOUS

LEMMA RequestFacts ==
  ASSUME NEW r \in Request
  PROVE  /\ r.ip4 \in Addr /\ r.age \in 0..2 /\ r.retries \in 1..MaxRetries
         /\ r.pkts \in Seq(Packet) /\ Len(r.pkts) \in Nat /\ Len(r.pkts) >= 1
         /\ 1 \in DOMAIN r.pkts /\ DOMAIN r.pkts = 1..Len(r.pkts)
         /\ \A k \in DOMAIN r.pkts : r.pkts[k] \in Packet
  BY DEF Request

LEMMA IndexFacts ==
  ASSUME req_list \in Seq(Request), NEW ip, NEW n, n = IndexOf(ip)
  PROVE  /\ n \in 0..Len(req_list)
         /\ n = 0 => \A i \in DOMAIN req_list : req_list[i].ip4 # ip
         /\ n # 0 => n \in DOMAIN req_list /\ req_list[n].ip4 = ip
<1> DEFINE J == {i \in 1..Len(req_list) : req_list[i].ip4 = ip}
<1>1. n = IF J # {} THEN Min(J) ELSE 0
  BY DEF IndexOf, SelectInSeq
<1>2. J \subseteq Nat \ {0} /\ DOMAIN req_list = 1..Len(req_list) /\ Len(req_list) \in Nat
  OBVIOUS
<1> HIDE DEF J
<1>3. (n = 0 => J = {}) /\ (n # 0 => n \in J)
  BY <1>1, <1>2, FirstFacts
<1> QED
  BY <1>2, <1>3 DEF J

-----------------------------------------------------------------------------
(***************************************************************************)
(* The list after each of the operations on it.                            *)
(***************************************************************************)
\* Requests repeated, aged or not: the same addresses and packets.
Alike(m, list) ==
  /\ m \in Seq(Request) /\ DOMAIN m = DOMAIN list
  /\ \A i \in DOMAIN list : m[i].ip4 = list[i].ip4 /\ m[i].pkts = list[i].pkts

LEMMA AlikeFacts ==
  ASSUME NEW m, NEW list, Alike(m, list)
  PROVE  /\ OneEach(list) => OneEach(m)
         /\ \A ip, n : Has(list, ip, n) => Has(m, ip, n)
         /\ \A p : WaitsIn(m, p) => WaitsIn(list, p)
         /\ NoneTwice(list) => NoneTwice(m)
         /\ \A w, A : Unanswered(list, w, A) => Unanswered(m, w, A)
<1>1. OneEach(list) => OneEach(m)
  BY DEF Alike, OneEach
<1>2. \A ip, n : Has(list, ip, n) => Has(m, ip, n)
  BY DEF Alike, Has
<1>3. \A p : WaitsIn(m, p) => WaitsIn(list, p)
  BY DEF Alike, WaitsIn
<1>4. NoneTwice(list) => NoneTwice(m)
  BY DEF Alike, NoneTwice
<1>5. \A w, A : Unanswered(list, w, A) => Unanswered(m, w, A)
  BY DEF Alike, Unanswered
<1> QED
  BY <1>1, <1>2, <1>3, <1>4, <1>5

\* What waits is as before, but for p as packet h of request n.
Came(m, list, p, n, h) ==
  \A i \in DOMAIN m : \A k \in DOMAIN m[i].pkts :
    \/ i = n /\ k = h /\ m[i].pkts[k] = p
    \/ /\ i \in DOMAIN list /\ m[i].ip4 = list[i].ip4
       /\ k \in DOMAIN list[i].pkts /\ m[i].pkts[k] = list[i].pkts[k]

\* Packet p has come behind the packets of one request, old or new.
Pended(m, list, p) ==
  /\ m \in Seq(Request) /\ OneEach(m)
  /\ \A i \in DOMAIN list : /\ i \in DOMAIN m /\ m[i].ip4 = list[i].ip4
                            /\ Len(m[i].pkts) >= Len(list[i].pkts)
  /\ \E n, h : Came(m, list, p, n, h)

LEMMA PendedFacts ==
  ASSUME NEW list \in Seq(Request), NEW m, NEW p, Pended(m, list, p)
  PROVE  /\ \A ip : \A n \in {1, 2} : Has(list, ip, n) => Has(m, ip, n)
         /\ \A x : WaitsIn(m, x) => WaitsIn(list, x) \/ x = p
         /\ NoneTwice(list) /\ (p.icmp \/ ~WaitsIn(list, p)) => NoneTwice(m)
         /\ \A w, A : Unanswered(list, w, A) /\ (p.icmp \/ p \notin A) => Unanswered(m, w, A)
<1>0. PICK n, h : Came(m, list, p, n, h)
  BY DEF Pended
<1>1. \A i \in DOMAIN m : \A k \in DOMAIN m[i].pkts :
        \/ i = n /\ k = h /\ m[i].pkts[k] = p
        \/ /\ i \in DOMAIN list /\ m[i].ip4 = list[i].ip4
           /\ k \in DOMAIN list[i].pkts /\ m[i].pkts[k] = list[i].pkts[k]
  BY <1>0 DEF Came
<1>2. ASSUME NEW ip, NEW y \in {1, 2}, Has(list, ip, y)
      PROVE  Has(m, ip, y)
  <2>1. PICK i \in DOMAIN list : list[i].ip4 = ip /\ Len(list[i].pkts) >= y
    BY <1>2 DEF Has
  <2>2. i \in DOMAIN m /\ m[i].ip4 = ip /\ Len(m[i].pkts) >= Len(list[i].pkts)
    BY <2>1 DEF Pended
  <2>3. Len(m[i].pkts) \in Nat /\ Len(list[i].pkts) \in Nat
    <3>1. m[i] \in Request /\ list[i] \in Request
      BY <2>2 DEF Pended
    <3> QED
      BY <3>1, RequestFacts
  <2>4. Len(m[i].pkts) >= y
    BY <2>1, <2>2, <2>3
  <2> QED
    BY <2>2, <2>4 DEF Has
<1>3. \A x : WaitsIn(m, x) => WaitsIn(list, x) \/ x = p
  BY <1>1 DEF WaitsIn
<1>4. ASSUME NoneTwice(list), p.icmp \/ ~WaitsIn(list, p)
      PROVE  NoneTwice(m)
  <2> SUFFICES ASSUME NEW i \in DOMAIN m, NEW j \in DOMAIN m,
                      NEW k \in DOMAIN m[i].pkts, NEW l \in DOMAIN m[j].pkts,
                      m[i].pkts[k] = m[j].pkts[l], ~m[i].pkts[k].icmp
               PROVE  i = j /\ k = l
    BY DEF NoneTwice
  <2>1. CASE m[i].pkts[k] = p
    <3>1. i = n /\ k = h
      BY <1>1, <1>4, <2>1 DEF WaitsIn
    <3>2. j = n /\ l = h
      BY <1>1, <1>4, <2>1 DEF WaitsIn
    <3> QED
      BY <3>1, <3>2
  <2>2. CASE m[i].pkts[k] # p
    <3>1. i \in DOMAIN list /\ k \in DOMAIN list[i].pkts /\ m[i].pkts[k] = list[i].pkts[k]
      BY <1>1, <2>2
    <3>2. j \in DOMAIN list /\ l \in DOMAIN list[j].pkts /\ m[j].pkts[l] = list[j].pkts[l]
      BY <1>1, <2>2
    <3>3. list[i].pkts[k] = list[j].pkts[l] /\ ~list[i].pkts[k].icmp
      BY <3>1, <3>2
    <3> QED
      BY ONLY <1>4, <3>1, <3>2, <3>3 DEF NoneTwice
  <2> QED
    BY <2>1, <2>2
<1>5. \A w, A : Unanswered(list, w, A) /\ (p.icmp \/ p \notin A) => Unanswered(m, w, A)
  BY <1>1 DEF Unanswered
<1> QED
  BY <1>2, <1>3, <1>4, <1>5

LEMMA AppendPended ==
  ASSUME req_list \in Seq(Request), OneEach(req_list), NEW p \in Packet, p.hop \in Addr,
         arpcache_append_packet(p)
  PROVE  Pended(req_list', req_list, p)
<1> DEFINE list == req_list
           n == IndexOf(p.hop)
<1>1. /\ n \in 0..Len(list) /\ Len(list) \in Nat /\ DOMAIN list = 1..Len(list)
      /\ n = 0 => \A i \in DOMAIN list : list[i].ip4 # p.hop
      /\ n # 0 => n \in DOMAIN list /\ list[n].ip4 = p.hop
  BY IndexFacts
<1>2. PICK m : m = req_list'
  OBVIOUS
<1>3. /\ n # 0 => m = [list EXCEPT ![n].pkts = Append(list[n].pkts, p)]
      /\ n = 0 => m = Append(list, [ip4 |-> p.hop, age |-> 0, retries |-> 1, pkts |-> <<p>>])
  BY <1>2 DEF arpcache_append_packet
<1> HIDE DEF n
<1>4. CASE n # 0
  <2> DEFINE r == list[n]
             b == Append(r.pkts, p)
             q == [r EXCEPT !.pkts = b]
  <2>1. r \in Request
    BY <1>1, <1>4
  <2>2. /\ b \in Seq(Packet) \ {<< >>} /\ Len(b) = Len(r.pkts) + 1 /\ b[Len(r.pkts) + 1] = p
        /\ \A k \in 1..Len(r.pkts) : b[k] = r.pkts[k]
        /\ DOMAIN b = 1..(Len(r.pkts) + 1) /\ Len(r.pkts) \in Nat
    BY <2>1, RequestFacts
  <2>3. m = [list EXCEPT ![n] = q]
    BY <1>3, <1>4
  <2> HIDE DEF b
  <2>4. q \in Request /\ q.ip4 = r.ip4 /\ q.pkts = b
    BY <2>1, <2>2 DEF Request
  <2> HIDE DEF q
  <2>5. /\ m \in Seq(Request) /\ DOMAIN m = DOMAIN list /\ m[n] = q
        /\ \A i \in DOMAIN list : i # n => m[i] = list[i]
    BY <1>1, <1>4, <2>3, <2>4
  <2> HIDE DEF r
  <2>6. r = list[n]
    BY DEF r
  <2>7. OneEach(m)
    BY <2>4, <2>5, <2>6 DEF OneEach
  <2>8. \A i \in DOMAIN list : /\ i \in DOMAIN m /\ m[i].ip4 = list[i].ip4
                               /\ Len(m[i].pkts) >= Len(list[i].pkts)
    <3> SUFFICES ASSUME NEW i \in DOMAIN list
                 PROVE  /\ i \in DOMAIN m /\ m[i].ip4 = list[i].ip4
                        /\ Len(m[i].pkts) >= Len(list[i].pkts)
      OBVIOUS
    <3>1. CASE i = n
      BY <2>2, <2>4, <2>5, <2>6, <3>1
    <3>2. CASE i # n
      <4>1. list[i] \in Request
        OBVIOUS
      <4> QED
        BY <2>5, <3>2, <4>1, RequestFacts
    <3> QED
      BY <3>1, <3>2
  <2>9. Came(m, list, p, n, Len(r.pkts) + 1)
    <3> SUFFICES ASSUME NEW i \in DOMAIN m, NEW k \in DOMAIN m[i].pkts
                 PROVE  \/ i = n /\ k = Len(r.pkts) + 1 /\ m[i].pkts[k] = p
                        \/ /\ i \in DOMAIN list /\ m[i].ip4 = list[i].ip4
                           /\ k \in DOMAIN list[i].pkts /\ m[i].pkts[k] = list[i].pkts[k]
      BY DEF Came
    <3>1. CASE i # n
      BY <2>5, <3>1
    <3>2. CASE i = n
      <4>1. m[i].pkts = b /\ k \in 1..(Len(r.pkts) + 1) /\ m[i].ip4 = list[i].ip4 /\ i \in DOMAIN list
        BY <2>2, <2>4, <2>5, <2>6, <3>2
      <4>2. DOMAIN r.pkts = 1..Len(r.pkts)
        BY <2>1, RequestFacts
      <4>3. CASE k = Len(r.pkts) + 1
        BY <2>2, <3>2, <4>1, <4>3
      <4>4. CASE k # Len(r.pkts) + 1
        BY <2>2, <2>6, <3>2, <4>1, <4>2, <4>4
      <4> QED
        BY <4>3, <4>4
    <3> QED
      BY <3>1, <3>2
  <2>10. Pended(m, list, p)
    BY ONLY <2>5, <2>7, <2>8, <2>9 DEF Pended
  <2> QED
    BY <1>2, <2>10
<1>5. CASE n = 0
  <2> DEFINE q == [ip4 |-> p.hop, age |-> 0, retries |-> 1, pkts |-> <<p>>]
  <2>1. <<p>> \in Seq(Packet) \ {<< >>} /\ DOMAIN <<p>> = {1} /\ <<p>>[1] = p
    OBVIOUS
  <2>2. q \in Request /\ q.ip4 = p.hop /\ q.pkts = <<p>>
    BY <2>1, ArpAssumption DEF Request
  <2>3. m = Append(list, q)
    BY <1>3, <1>5
  <2> HIDE DEF q
  <2>4. /\ m \in Seq(Request) /\ DOMAIN m = 1..(Len(list) + 1) /\ m[Len(list) + 1] = q
        /\ \A i \in DOMAIN list : i \in DOMAIN m /\ m[i] = list[i] /\ i # Len(list) + 1
    BY <1>1, <2>2, <2>3
  <2>5. OneEach(m)
    BY <1>1, <1>5, <2>2, <2>4 DEF OneEach
  <2>6. \A i \in DOMAIN list : /\ i \in DOMAIN m /\ m[i].ip4 = list[i].ip4
                               /\ Len(m[i].pkts) >= Len(list[i].pkts)
    <3> SUFFICES ASSUME NEW i \in DOMAIN list
                 PROVE  /\ i \in DOMAIN m /\ m[i].ip4 = list[i].ip4
                        /\ Len(m[i].pkts) >= Len(list[i].pkts)
      OBVIOUS
    <3>1. list[i] \in Request
      OBVIOUS
    <3> QED
      BY <2>4, <3>1, RequestFacts
  <2>7. Came(m, list, p, Len(list) + 1, 1)
    <3> SUFFICES ASSUME NEW i \in DOMAIN m, NEW k \in DOMAIN m[i].pkts
                 PROVE  \/ i = Len(list) + 1 /\ k = 1 /\ m[i].pkts[k] = p
                        \/ /\ i \in DOMAIN list /\ m[i].ip4 = list[i].ip4
                           /\ k \in DOMAIN list[i].pkts /\ m[i].pkts[k] = list[i].pkts[k]
      BY DEF Came
    <3>1. CASE i = Len(list) + 1
      BY <2>1, <2>2, <2>4, <3>1
    <3>2. CASE i # Len(list) + 1
      <4>1. i \in DOMAIN list
        BY <1>1, <2>4, <3>2
      <4> QED
        BY <2>4, <4>1
    <3> QED
      BY <3>1, <3>2
  <2>8. Pended(m, list, p)
    BY ONLY <2>4, <2>5, <2>6, <2>7 DEF Pended
  <2> QED
    BY <1>2, <2>8
<1> QED
  BY <1>4, <1>5

\* One request has left the list.
Without(m, list, n) ==
  /\ m \in Seq(Request) /\ n \in DOMAIN list /\ Len(m) = Len(list) - 1
  /\ \A i \in DOMAIN m : m[i] = list[IF i < n THEN i ELSE i + 1]

LEMMA WithoutFacts ==
  ASSUME NEW list \in Seq(Request), NEW m, NEW n, Without(m, list, n), OneEach(list)
  PROVE  /\ OneEach(m)
         /\ \A ip : ip # list[n].ip4 => \A h : Has(list, ip, h) => Has(m, ip, h)
         /\ \A p : WaitsIn(m, p) => WaitsIn(list, p)
         /\ NoneTwice(list) => NoneTwice(m)
         /\ \A w, A, B : /\ Unanswered(list, w, A) /\ NoneTwice(list) /\ B \subseteq ToSet(list[n].pkts)
                         => /\ Unanswered(m, w, A \cup B)
                            /\ w.at = list[n].ip4 => \A y : Unanswered(m, y, A \cup B)
<1> DEFINE f(i) == IF i < n THEN i ELSE i + 1
<1>1. /\ Len(list) \in Nat /\ DOMAIN list = 1..Len(list) /\ DOMAIN m = 1..(Len(list) - 1)
      /\ n \in 1..Len(list)
  BY DEF Without
<1>2. \A i \in DOMAIN m : f(i) \in DOMAIN list /\ f(i) # n /\ m[i] = list[f(i)]
  BY <1>1 DEF Without
<1>3. \A i, j \in DOMAIN m : f(i) = f(j) => i = j
  BY <1>1
<1>4. ASSUME NEW j \in DOMAIN list, j # n
      PROVE  \E i \in DOMAIN m : f(i) = j
  <2>1. CASE j < n
    BY <1>1, <2>1
  <2>2. CASE ~(j < n)
    <3>1. j - 1 \in DOMAIN m /\ f(j - 1) = j
      BY <1>1, <1>4, <2>2
    <3> QED
      BY <3>1
  <2> QED
    BY <2>1, <2>2
<1> HIDE DEF f
<1>5. OneEach(m)
  BY <1>2, <1>3 DEF OneEach
<1>6. ASSUME NEW ip, ip # list[n].ip4, NEW h, Has(list, ip, h)
      PROVE  Has(m, ip, h)
  <2>1. PICK j \in DOMAIN list : list[j].ip4 = ip /\ Len(list[j].pkts) >= h
    BY <1>6 DEF Has
  <2>2. PICK i \in DOMAIN m : f(i) = j
    BY <1>4, <1>6, <2>1
  <2>3. m[i] = list[j]
    BY <1>2, <2>2
  <2> QED
    BY <2>1, <2>3 DEF Has
<1>7. \A p : WaitsIn(m, p) => WaitsIn(list, p)
  BY <1>2 DEF WaitsIn
<1>8. ASSUME NoneTwice(list)
      PROVE  NoneTwice(m)
  <2> SUFFICES ASSUME NEW i \in DOMAIN m, NEW j \in DOMAIN m,
                      NEW k \in DOMAIN m[i].pkts, NEW l \in DOMAIN m[j].pkts,
                      m[i].pkts[k] = m[j].pkts[l], ~m[i].pkts[k].icmp
               PROVE  i = j /\ k = l
    BY DEF NoneTwice
  <2>1. /\ f(i) \in DOMAIN list /\ f(j) \in DOMAIN list /\ m[i] = list[f(i)] /\ m[j] = list[f(j)]
    BY <1>2
  <2>2. f(i) = f(j) /\ k = l
    BY ONLY <1>8, <2>1, k \in DOMAIN m[i].pkts, l \in DOMAIN m[j].pkts,
            m[i].pkts[k] = m[j].pkts[l], ~m[i].pkts[k].icmp DEF NoneTwice
  <2> QED
    BY <1>3, <2>2
<1>9. ASSUME NEW w, NEW A, NEW B, Unanswered(list, w, A), NoneTwice(list), B \subseteq ToSet(list[n].pkts)
      PROVE  /\ Unanswered(m, w, A \cup B)
             /\ w.at = list[n].ip4 => \A y : Unanswered(m, y, A \cup B)
  <2>1. ASSUME NEW i \in DOMAIN m, NEW k \in DOMAIN m[i].pkts,
               ~m[i].pkts[k].icmp, m[i].pkts[k] \in A \cup B
        PROVE  w.pc \in {"pend", "relock"} /\ m[i].ip4 = w.at /\ k = 1 /\ w.at # list[n].ip4
    <3>1. /\ f(i) \in DOMAIN list /\ f(i) # n /\ m[i] = list[f(i)]
          /\ k \in DOMAIN list[f(i)].pkts /\ ~list[f(i)].pkts[k].icmp
      BY <1>2, <2>1
    <3>2. list[f(i)].pkts[k] \notin B
      <4> SUFFICES ASSUME list[f(i)].pkts[k] \in B
                   PROVE  FALSE
        OBVIOUS
      <4>1. PICK l \in DOMAIN list[n].pkts : list[n].pkts[l] = list[f(i)].pkts[k]
        BY <1>9 DEF ToSet
      <4> QED
        BY ONLY <1>1, <1>9, <3>1, <4>1 DEF NoneTwice
    <3>3. list[f(i)].pkts[k] \in A
      BY <2>1, <3>1, <3>2
    <3>4. w.pc \in {"pend", "relock"} /\ list[f(i)].ip4 = w.at /\ k = 1
      BY ONLY <1>9, <3>1, <3>3 DEF Unanswered
    <3>5. list[f(i)].ip4 # list[n].ip4
      BY ONLY <1>1, <3>1, OneEach(list) DEF OneEach
    <3> QED
      BY <3>1, <3>4, <3>5
  <2> QED
    BY <2>1 DEF Unanswered
<1> QED
  BY <1>5, <1>6, <1>7, <1>8, <1>9

LEMMA RemovedFacts ==
  ASSUME req_list \in Seq(Request), OneEach(req_list), NEW ip, NEW m, m = Removed(ip)
  PROVE  \/ m = req_list /\ \A i \in DOMAIN req_list : req_list[i].ip4 # ip
         \/ \E n \in DOMAIN req_list : req_list[n].ip4 = ip /\ Without(m, req_list, n)
<1> DEFINE n == IndexOf(ip)
<1>1. /\ n \in 0..Len(req_list)
      /\ n = 0 => \A i \in DOMAIN req_list : req_list[i].ip4 # ip
      /\ n # 0 => n \in DOMAIN req_list /\ req_list[n].ip4 = ip
  BY IndexFacts
<1>2. m = IF n = 0 THEN req_list ELSE RemoveAt(req_list, n)
  BY DEF Removed
<1> HIDE DEF n
<1>3. CASE n = 0
  BY <1>1, <1>2, <1>3
<1>4. CASE n # 0
  <2>1. /\ n \in 1..Len(req_list) /\ m = RemoveAt(req_list, n) /\ Len(req_list) \in Nat
        /\ DOMAIN req_list = 1..Len(req_list)
    BY <1>1, <1>2, <1>4
  <2>2. /\ m \in Seq(Request) /\ Len(m) = Len(req_list) - 1
        /\ \A k \in 1..(Len(req_list) - 1) : m[k] = req_list[IF k < n THEN k ELSE k + 1]
    BY <2>1, RemoveAtFacts
  <2>3. DOMAIN m = 1..(Len(req_list) - 1)
    BY <2>2
  <2>4. Without(m, req_list, n)
    BY <2>1, <2>2, <2>3 DEF Without
  <2> QED
    BY <1>1, <1>4, <2>4
<1> QED
  BY <1>3, <1>4

LEMMA TailOf ==
  ASSUME NEW t \in Seq(Packet), Len(t) >= 2, NEW b, b = Tail(t)
  PROVE  /\ b \in Seq(Packet) \ {<< >>} /\ Len(b) = Len(t) - 1 /\ Len(t) \in Nat
         /\ DOMAIN b = 1..(Len(t) - 1) /\ DOMAIN t = 1..Len(t)
         /\ \A k \in 1..(Len(t) - 1) : b[k] = t[k + 1]
<1>1. Len(t) \in Nat /\ t # << >> /\ DOMAIN t = 1..Len(t)
  OBVIOUS
<1>2. b \in Seq(Packet) /\ Len(b) = Len(t) - 1
  BY <1>1
<1>3. \A k \in 1..(Len(t) - 1) : b[k] = t[k + 1]
  BY <1>1
<1>4. DOMAIN b = 1..(Len(t) - 1) /\ b # << >>
  BY <1>1, <1>2
<1> QED
  BY <1>1, <1>2, <1>3, <1>4

\* The first packet of one request has left.
Shortened(m, list, n) == m = [list EXCEPT ![n].pkts = Tail(list[n].pkts)]

LEMMA TailFacts ==
  ASSUME NEW list \in Seq(Request), OneEach(list), NEW n \in DOMAIN list, Len(list[n].pkts) >= 2,
         NEW m, Shortened(m, list, n)
  PROVE  /\ m \in Seq(Request) /\ OneEach(m)
         /\ \A ip : ip # list[n].ip4 => \A h : Has(list, ip, h) => Has(m, ip, h)
         /\ \A h \in Nat : Len(list[n].pkts) > h => Has(m, list[n].ip4, h)
         /\ \A p : WaitsIn(m, p) => WaitsIn(list, p)
         /\ NoneTwice(list) => NoneTwice(m)
         /\ \A w, A : Unanswered(list, w, A) /\ w.at = list[n].ip4 => \A y : Unanswered(m, y, A)
<1> DEFINE r == list[n]
           b == Tail(r.pkts)
           q == [r EXCEPT !.pkts = b]
<1>1. r \in Request /\ n \in 1..Len(list) /\ Len(list) \in Nat
  OBVIOUS
<1>2. /\ b \in Seq(Packet) \ {<< >>} /\ Len(b) = Len(r.pkts) - 1 /\ Len(r.pkts) \in Nat
      /\ DOMAIN b = 1..(Len(r.pkts) - 1) /\ DOMAIN r.pkts = 1..Len(r.pkts)
      /\ \A k \in 1..(Len(r.pkts) - 1) : b[k] = r.pkts[k + 1]
  <2>1. r.pkts \in Seq(Packet) /\ Len(r.pkts) >= 2
    BY <1>1, RequestFacts
  <2>2. PICK t, u : t = r.pkts /\ u = b
    OBVIOUS
  <2>3. t \in Seq(Packet) /\ Len(t) >= 2 /\ u = Tail(t)
    BY <2>1, <2>2
  <2>4. /\ u \in Seq(Packet) \ {<< >>} /\ Len(u) = Len(t) - 1 /\ Len(t) \in Nat
        /\ DOMAIN u = 1..(Len(t) - 1) /\ DOMAIN t = 1..Len(t)
        /\ \A k \in 1..(Len(t) - 1) : u[k] = t[k + 1]
    BY ONLY <2>3, TailOf
  <2> HIDE DEF r, b
  <2> QED
    BY ONLY <2>2, <2>4
<1>3. m = [list EXCEPT ![n] = q]
  BY DEF Shortened
<1> HIDE DEF b
<1>4. q \in Request /\ q.ip4 = r.ip4 /\ q.pkts = b
  BY <1>1, <1>2 DEF Request
<1> HIDE DEF q
<1>5. /\ m \in Seq(Request) /\ DOMAIN m = DOMAIN list /\ m[n] = q /\ r = list[n]
      /\ \A i \in DOMAIN list : i # n => m[i] = list[i]
  <2>1. /\ m \in Seq(Request) /\ DOMAIN m = DOMAIN list /\ m[n] = q
        /\ \A i \in DOMAIN list : i # n => m[i] = list[i]
    BY ONLY <1>1, <1>3, <1>4, list \in Seq(Request), n \in DOMAIN list
  <2> QED
    BY ONLY <2>1
<1> HIDE DEF r
<1>6. OneEach(m)
  BY <1>4, <1>5 DEF OneEach
<1>7. ASSUME NEW ip, ip # list[n].ip4, NEW h, Has(list, ip, h)
      PROVE  Has(m, ip, h)
  BY <1>5, <1>7 DEF Has
<1>8. ASSUME NEW h \in Nat, Len(list[n].pkts) > h
      PROVE  Has(m, list[n].ip4, h)
  <2>1. m[n].pkts = b /\ m[n].ip4 = list[n].ip4
    BY <1>4, <1>5
  <2>2. Len(r.pkts) > h
    BY <1>5, <1>8
  <2>3. Len(b) >= h
    BY <1>2, <2>2
  <2> QED
    BY <1>5, <2>1, <2>3 DEF Has
<1> DEFINE g(i, k) == IF i = n THEN k + 1 ELSE k
<1>9. ASSUME NEW i \in DOMAIN m, NEW k \in DOMAIN m[i].pkts
      PROVE  /\ g(i, k) \in DOMAIN list[i].pkts /\ i \in DOMAIN list /\ k \in Nat /\ k >= 1
             /\ m[i].pkts[k] = list[i].pkts[g(i, k)]
             /\ m[i].ip4 = list[i].ip4
  <2>1. CASE i = n
    <3>1. k \in 1..(Len(r.pkts) - 1) /\ m[i].pkts = b /\ m[i].ip4 = list[i].ip4
      BY <1>2, <1>4, <1>5, <2>1
    <3>2. k + 1 \in 1..Len(r.pkts) /\ k \in Nat /\ k >= 1
      BY <1>2, <3>1
    <3>3. b[k] = r.pkts[k + 1]
      BY <1>2, <3>1
    <3> QED
      BY <1>2, <1>5, <2>1, <3>1, <3>2, <3>3
  <2>2. CASE i # n
    <3>1. list[i] \in Request /\ m[i] = list[i] /\ i \in DOMAIN list
      BY <1>5, <2>2
    <3>2. k \in 1..Len(list[i].pkts) /\ Len(list[i].pkts) \in Nat
      BY <3>1, RequestFacts
    <3> QED
      BY <2>2, <3>1, <3>2
  <2> QED
    BY <2>1, <2>2
<1>10. \A i, k, l : k \in Nat /\ l \in Nat /\ g(i, k) = g(i, l) => k = l
  OBVIOUS
<1>11. ASSUME NEW i \in DOMAIN m, NEW k \in DOMAIN m[i].pkts, g(i, k) = 1
       PROVE  i # n
  BY <1>9, <1>11
<1> HIDE DEF g
<1>12. \A p : WaitsIn(m, p) => WaitsIn(list, p)
  BY <1>9 DEF WaitsIn
<1>13. ASSUME NoneTwice(list)
       PROVE  NoneTwice(m)
  <2> SUFFICES ASSUME NEW i \in DOMAIN m, NEW j \in DOMAIN m,
                      NEW k \in DOMAIN m[i].pkts, NEW l \in DOMAIN m[j].pkts,
                      m[i].pkts[k] = m[j].pkts[l], ~m[i].pkts[k].icmp
               PROVE  i = j /\ k = l
    BY DEF NoneTwice
  <2>1. /\ g(i, k) \in DOMAIN list[i].pkts /\ i \in DOMAIN list /\ k \in Nat
        /\ g(j, l) \in DOMAIN list[j].pkts /\ j \in DOMAIN list /\ l \in Nat
        /\ list[i].pkts[g(i, k)] = list[j].pkts[g(j, l)] /\ ~list[i].pkts[g(i, k)].icmp
    BY <1>9
  <2>2. i = j /\ g(i, k) = g(j, l)
    BY ONLY <1>13, <2>1 DEF NoneTwice
  <2> QED
    BY <1>10, <2>1, <2>2
<1>14. ASSUME NEW w, NEW A, Unanswered(list, w, A), w.at = list[n].ip4
       PROVE  \A y : Unanswered(m, y, A)
  <2>1. ASSUME NEW i \in DOMAIN m, NEW k \in DOMAIN m[i].pkts,
               ~m[i].pkts[k].icmp, m[i].pkts[k] \in A
        PROVE  FALSE
    <3>1. /\ g(i, k) \in DOMAIN list[i].pkts /\ i \in DOMAIN list
          /\ ~list[i].pkts[g(i, k)].icmp /\ list[i].pkts[g(i, k)] \in A
      BY <1>9, <2>1
    <3>2. list[i].ip4 = w.at /\ g(i, k) = 1
      BY ONLY <1>14, <3>1 DEF Unanswered
    <3>3. i = n
      BY ONLY <1>14, <3>1, <3>2, OneEach(list), n \in DOMAIN list DEF OneEach
    <3> QED
      BY <1>11, <3>2, <3>3
  <2> QED
    BY <2>1 DEF Unanswered
<1> QED
  BY <1>5, <1>6, <1>7, <1>8, <1>12, <1>13, <1>14

-----------------------------------------------------------------------------
(***************************************************************************)
(* The sweep goes on from a request.                                       *)
(***************************************************************************)
LEMMA RepeatedFacts ==
  ASSUME NEW r \in Request, ~Exhausted(r)
  PROVE  Repeated(r) \in Request /\ Repeated(r).ip4 = r.ip4 /\ Repeated(r).pkts = r.pkts
<1> DEFINE n == r.retries + 1
<1>1. n \in 1..MaxRetries /\ 0 \in 0..2
  BY RequestFacts, ArpAssumption DEF Exhausted
<1>2. Repeated(r) = IF r.age > 1 THEN [r EXCEPT !.age = 0, !.retries = n] ELSE r
  BY DEF Repeated
<1> HIDE DEF n
<1> QED
  BY <1>1, <1>2 DEF Request

LEMMA WalkFacts ==
  ASSUME NEW list \in Seq(Request), OneEach(list), NEW first \in 1..(Len(list) + 1),
         WalkFrom(list, first)
  PROVE  /\ Alike(req_list', list) /\ walk' \in Walk /\ walk'.pc \in {"idle", "icmp"}
         /\ WalkOK(walk', list)
<1> DEFINE J == {i \in first..Len(list) : Exhausted(list[i])}
           stop == IF J # {} THEN Min(J) ELSE 0
           past == IF stop = 0 THEN Len(list) + 1 ELSE stop
           e(j) == IF j >= first /\ j < past THEN Repeated(list[j]) ELSE list[j]
<1>1. SelectInSubSeq(list, first, Len(list), Exhausted) = stop
  BY DEF SelectInSubSeq
<1>2. /\ J \subseteq Nat \ {0} /\ Len(list) \in Nat /\ DOMAIN list = 1..Len(list)
      /\ first \in Nat /\ first >= 1
      /\ \A i : i \in J <=> i \in first..Len(list) /\ Exhausted(list[i])
  OBVIOUS
<1> HIDE DEF J
<1>3. /\ stop = 0 => J = {}
      /\ stop # 0 => stop \in J /\ \A i \in J : stop <= i
  BY <1>2, FirstFacts
<1>4. /\ req_list' = [j \in DOMAIN list |-> e(j)]
      /\ walk' = IF stop = 0 THEN Idle
                 ELSE [pc |-> "icmp", at |-> list[stop].ip4,
                       next |-> IF stop < Len(list) THEN list[stop + 1].ip4 ELSE End,
                       last |-> Len(list[stop].pkts) = 1,
                       begun |-> FALSE, stale |-> {}, icmp |-> NoPacket]
  BY <1>1 DEF WalkFrom
<1> HIDE DEF stop
<1>5. ASSUME NEW j \in DOMAIN list
      PROVE  e(j) \in Request /\ e(j).ip4 = list[j].ip4 /\ e(j).pkts = list[j].pkts
  <2>1. list[j] \in Request
    OBVIOUS
  <2>2. CASE j >= first /\ j < past
    <3>1. ~Exhausted(list[j])
      <4>1. j \notin J
        <5>1. CASE stop = 0
          BY <1>3, <5>1
        <5>2. CASE stop # 0
          <6>1. stop \in Nat /\ j < stop
            BY <1>2, <1>3, <2>2, <5>2
          <6> QED
            BY <1>2, <1>3, <5>2, <6>1
        <5> QED
          BY <5>1, <5>2
      <4>2. j \in first..Len(list)
        BY <1>2, <2>2
      <4> QED
        BY <1>2, <4>1, <4>2
    <3> QED
      BY <2>1, <2>2, <3>1, RepeatedFacts
  <2>3. CASE ~(j >= first /\ j < past)
    BY <2>1, <2>3
  <2> QED
    BY <2>2, <2>3
<1> HIDE DEF e
<1>6. Alike(req_list', list)
  <2>1. req_list' = [j \in 1..Len(list) |-> e(j)]
    BY <1>2, <1>4
  <2>2. \A j \in 1..Len(list) : req_list'[j] = e(j) /\ e(j) \in Request
    BY <1>2, <1>5, <2>1
  <2>3. req_list' \in Seq(Request) /\ DOMAIN req_list' = DOMAIN list
    BY <1>2, <2>1, <2>2
  <2> QED
    BY <1>2, <1>5, <2>2, <2>3 DEF Alike
<1>7. CASE stop = 0
  BY <1>4, <1>6, <1>7 DEF Idle, Walk, WalkOK
<1>8. CASE stop # 0
  <2> DEFINE r == list[stop]
             next == IF stop < Len(list) THEN list[stop + 1].ip4 ELSE End
             last == Len(list[stop].pkts) = 1
  <2>1. stop \in DOMAIN list /\ r \in Request /\ stop \in 1..Len(list)
    BY <1>2, <1>3, <1>8
  <2>2. r.ip4 \in Addr /\ Len(r.pkts) \in Nat /\ Len(r.pkts) >= 1
    BY <2>1, RequestFacts
  <2>3. next \in Addr \cup {End} /\ (next = End \/ (Has(list, next, 1) /\ next # r.ip4))
    <3>1. CASE stop < Len(list)
      <4>1. stop + 1 \in DOMAIN list /\ list[stop + 1] \in Request /\ stop + 1 # stop
        BY <1>2, <2>1, <3>1
      <4>2. list[stop + 1].ip4 \in Addr /\ Len(list[stop + 1].pkts) >= 1
        BY <4>1, RequestFacts
      <4>3. list[stop + 1].ip4 # list[stop].ip4
        BY <2>1, <4>1 DEF OneEach
      <4> QED
        BY <3>1, <4>1, <4>2, <4>3 DEF Has
    <3>2. CASE ~(stop < Len(list))
      BY <3>2
    <3> QED
      BY <3>1, <3>2
  <2>4. Has(list, r.ip4, IF last THEN 1 ELSE 2)
    <3>1. CASE last
      BY <2>1, <2>2, <3>1 DEF Has
    <3>2. CASE ~last
      <4>1. PICK x : x = Len(list[stop].pkts)
        OBVIOUS
      <4>2. x \in Nat /\ x >= 1 /\ x # 1
        BY <2>2, <3>2, <4>1
      <4>3. x >= 2
        BY ONLY <4>2
      <4>4. Len(list[stop].pkts) >= 2
        BY ONLY <4>1, <4>3
      <4> QED
        BY <2>1, <3>2, <4>4 DEF Has
    <3> QED
      BY <3>1, <3>2
  <2>5. walk' = [pc |-> "icmp", at |-> r.ip4, next |-> next, last |-> last,
                 begun |-> FALSE, stale |-> {}, icmp |-> NoPacket]
    BY <1>4, <1>8
  <2>6. last \in BOOLEAN
    OBVIOUS
  <2> HIDE DEF next, last, r
  <2>7. walk' \in Walk
    BY <2>2, <2>3, <2>5, <2>6 DEF Walk
  <2>8. /\ walk'.pc = "icmp" /\ walk'.at = r.ip4 /\ walk'.next = next /\ walk'.last = last
        /\ walk'.stale = {}
    BY <2>5
  <2> QED
    BY <1>6, <2>2, <2>3, <2>4, <2>7, <2>8 DEF WalkOK
<1> QED
  BY <1>7, <1>8

-----------------------------------------------------------------------------
(***************************************************************************)
(* The packets where nothing or little of them changes.                    *)
(***************************************************************************)
LEMMA PacketsKept ==
  ASSUME NEW list, NEW w, NEW l, NEW h, NEW A, PacketsOK(list, w, l, h, A),
         NEW m, NEW y, NEW B,
         \A p : WaitsIn(m, p) => WaitsIn(list, p) \/ (Known(p, h) /\ p # l),
         NoneTwice(m), Unanswered(m, y, B),
         \A p \in B : Known(p, h), l # NoPacket => l \notin B
  PROVE  PacketsOK(m, y, l, h, B)
  BY DEF PacketsOK

LEMMA UnansweredElsewhere ==
  ASSUME NEW list, NEW w, NEW A, Unanswered(list, w, A), NEW y,
         w.pc \notin {"pend", "relock"} \/ (y.pc = w.pc /\ y.at = w.at)
                                        \/ (y.pc \in {"pend", "relock"} /\ y.at = w.at)
  PROVE  Unanswered(list, y, A)
  BY DEF Unanswered

LEMMA WalkKept ==
  ASSUME NEW w, NEW list, WalkOK(w, list), NEW m,
         \A ip : \A n \in {1, 2} : Has(list, ip, n) => Has(m, ip, n)
  PROVE  WalkOK(w, m)
<1> DEFINE n == IF w.last THEN 1 ELSE 2
<1>1. n \in {1, 2} /\ 1 \in {1, 2}
  OBVIOUS
<1>2. WalkOK(w, list) <=>
        (w.pc # "idle" =>
           /\ w.at \in Addr
           /\ w.at \notin w.stale => Has(list, w.at, n)
           /\ w.next = End \/ w.next \in w.stale \/ (w.next # w.at /\ Has(list, w.next, 1))
           /\ w.pc = "pend" => w.icmp \in Packet /\ w.icmp.icmp)
  BY DEF WalkOK
<1>3. WalkOK(w, m) <=>
        (w.pc # "idle" =>
           /\ w.at \in Addr
           /\ w.at \notin w.stale => Has(m, w.at, n)
           /\ w.next = End \/ w.next \in w.stale \/ (w.next # w.at /\ Has(m, w.next, 1))
           /\ w.pc = "pend" => w.icmp \in Packet /\ w.icmp.icmp)
  BY DEF WalkOK
<1> HIDE DEF n
<1> QED
  BY <1>1, <1>2, <1>3

\* The index of the request that the sweep stands on, or goes on with.
PlaceOf(list, ip) == SelectInSeq(list, LAMBDA r : r.ip4 = ip)

LEMMA HasIndex ==
  ASSUME NEW list \in Seq(Request), NEW ip, NEW h, Has(list, ip, h), OneEach(list),
         NEW n, n = PlaceOf(list, ip)
  PROVE  n \in DOMAIN list /\ list[n].ip4 = ip /\ Len(list[n].pkts) >= h
<1> DEFINE J == {i \in 1..Len(list) : list[i].ip4 = ip}
<1>1. n = IF J # {} THEN Min(J) ELSE 0
  BY DEF PlaceOf, SelectInSeq
<1>2. PICK j \in DOMAIN list : list[j].ip4 = ip /\ Len(list[j].pkts) >= h
  BY DEF Has
<1>3. J \subseteq Nat \ {0} /\ j \in J
  BY <1>2
<1>4. \A i \in J : i \in DOMAIN list /\ list[i].ip4 = ip
  OBVIOUS
<1> HIDE DEF J
<1>5. n \in J
  BY <1>1, <1>3, FirstFacts
<1>6. n \in DOMAIN list /\ list[n].ip4 = ip
  BY <1>4, <1>5
<1>7. n = j
  BY <1>2, <1>6 DEF OneEach
<1> QED
  BY <1>2, <1>6, <1>7

-----------------------------------------------------------------------------
(***************************************************************************)
(* The loop.                                                               *)
(***************************************************************************)
LEMMA HandPacketInv ==
  ASSUME IInv, HandPacket
  PROVE  IInv'
<1> DEFINE A == sent \cup refused
<1>1. PICK p \in Packet :
        /\ p.id = Cardinality(handed) + 1 /\ p.hop # Own /\ ~p.icmp
        /\ handed' = handed \cup {p}
        /\ IF arpcache_lookup(p.hop) THEN sent' = sent \cup {p} /\ UNCHANGED loop
                                     ELSE loop' = p /\ UNCHANGED sent
  BY DEF HandPacket
<1>2. /\ UNCHANGED <<entries, req_list, walk, asked, refused, corrupt>> /\ loop = NoPacket
  BY DEF HandPacket
<1>3. \/ loop' = NoPacket /\ sent' = sent \cup {p}
      \/ loop' = p /\ sent' = sent
  BY <1>1, <1>2
<1>4. /\ Typing /\ OneEach(req_list) /\ WalkOK(walk, req_list)
      /\ PacketsOK(req_list, walk, loop, handed, A)
  BY DEF IInv
<1>5. /\ IsFiniteSet(handed) /\ Cardinality(handed) \in Nat
      /\ \A q \in handed : q.id <= Cardinality(handed) /\ q.id \in Int
  BY <1>4, FS_CardinalityType DEF Typing, PacketsOK, Packet
<1>6. p \notin handed
  BY <1>1, <1>5
<1>7. IsFiniteSet(handed') /\ Cardinality(handed') = Cardinality(handed) + 1
  BY <1>1, <1>5, <1>6, FS_AddElement
<1>8. ~Known(p, handed)
  BY <1>1, <1>6 DEF Known
<1>9. p \notin A /\ ~WaitsIn(req_list, p)
  BY <1>4, <1>8 DEF PacketsOK
<1>10. Typing'
  BY <1>1, <1>2, <1>3, <1>4, <1>7 DEF Typing, Walk, Request
<1>11. \A q : Known(q, handed) => Known(q, handed')
  BY <1>1 DEF Known
<1>12. Known(p, handed')
  BY <1>1 DEF Known
<1>13. \A q \in handed' : q.id <= Cardinality(handed')
  BY <1>1, <1>5, <1>7
<1>14. Unanswered(req_list, walk, A \cup {p})
  BY <1>4, <1>9 DEF PacketsOK, Unanswered, WaitsIn
<1>15. Unanswered(req_list, walk, A)
  BY <1>4 DEF PacketsOK
<1>16. \A q \in A : Known(q, handed')
  BY <1>4, <1>11 DEF PacketsOK
<1>17. \A q : WaitsIn(req_list, q) => Known(q, handed')
  BY <1>4, <1>11 DEF PacketsOK
<1> HIDE DEF A
<1>18. PacketsOK(req_list, walk, loop', handed', sent' \cup refused')
  <2>1. CASE loop' = NoPacket /\ sent' = sent \cup {p}
    <3>1. sent' \cup refused' = A \cup {p}
      BY <1>2, <2>1 DEF A
    <3>2. \A q \in A \cup {p} : Known(q, handed')
      BY <1>12, <1>16
    <3> QED
      BY <1>4, <1>13, <1>14, <1>17, <2>1, <3>1, <3>2 DEF PacketsOK
  <2>2. CASE loop' = p /\ sent' = sent
    <3>1. sent' \cup refused' = A
      BY <1>2, <2>2 DEF A
    <3>2. p \in handed'
      BY <1>1
    <3> QED
      BY <1>1, <1>4, <1>9, <1>13, <1>15, <1>16, <1>17, <2>2, <3>1, <3>2 DEF PacketsOK
  <2> QED
    BY <1>3, <2>1, <2>2
<1> QED
  BY <1>2, <1>4, <1>10, <1>18 DEF IInv

LEMMA PendPacketInv ==
  ASSUME IInv, PendPacket
  PROVE  IInv'
<1> DEFINE A == sent \cup refused
<1>1. /\ arpcache_append_packet(loop) /\ loop' = NoPacket /\ loop # NoPacket
      /\ UNCHANGED <<entries, walk, handed, sent, refused, corrupt>>
  BY DEF PendPacket
<1>2. /\ Typing /\ OneEach(req_list) /\ WalkOK(walk, req_list)
      /\ PacketsOK(req_list, walk, loop, handed, A)
  BY DEF IInv
<1>3. /\ loop \in Packet /\ loop.hop \in Addr /\ req_list \in Seq(Request)
      /\ ~loop.icmp /\ loop \in handed /\ loop \notin A /\ ~WaitsIn(req_list, loop)
  BY <1>1, <1>2 DEF Typing, PacketsOK, Packet
<1>4. Pended(req_list', req_list, loop)
  BY <1>1, <1>2, <1>3, AppendPended
<1>5. asked' = asked \/ asked' = asked \cup {loop.hop}
  BY <1>1 DEF arpcache_append_packet
<1>6. Typing'
  <2>1. req_list' \in Seq(Request) /\ asked' \subseteq Addr
    BY <1>2, <1>3, <1>4, <1>5 DEF Pended, Typing
  <2> QED
    BY <1>1, <1>2, <2>1 DEF Typing
<1>7. WalkOK(walk, req_list')
  <2>1. \A ip : \A n \in {1, 2} : Has(req_list, ip, n) => Has(req_list', ip, n)
    BY <1>3, <1>4, PendedFacts
  <2> QED
    BY <1>2, <2>1, WalkKept
<1>8. PacketsOK(req_list', walk, NoPacket, handed, A)
  <2>1. /\ \A x : WaitsIn(req_list', x) => WaitsIn(req_list, x) \/ x = loop
        /\ NoneTwice(req_list) => NoneTwice(req_list')
        /\ Unanswered(req_list, walk, A) => Unanswered(req_list', walk, A)
    BY <1>3, <1>4, PendedFacts
  <2>2. Known(loop, handed)
    BY <1>3 DEF Known
  <2> HIDE DEF A
  <2> QED
    BY <1>2, <2>1, <2>2 DEF PacketsOK
<1> QED
  BY <1>1, <1>2, <1>4, <1>6, <1>7, <1>8 DEF IInv, Pended

LEMMA handle_arp_packetInv ==
  ASSUME IInv, handle_arp_packet
  PROVE  IInv'
<1> DEFINE A == sent \cup refused
<1>1. PICK ip \in asked \ {Own}, mac \in Mac : arpcache_insert(ip, mac)
  BY DEF handle_arp_packet
<1> DEFINE m == Removed(ip)
           B == UNION {ToSet(r.pkts) : r \in {q \in ToSet(req_list) : q.ip4 = ip}}
<1>2. /\ Typing /\ OneEach(req_list) /\ WalkOK(walk, req_list)
      /\ PacketsOK(req_list, walk, loop, handed, A)
  BY DEF IInv
<1>3. /\ req_list \in Seq(Request) /\ ip \in Addr /\ walk \in Walk
  BY <1>2 DEF Typing
<1>4. /\ \E i \in Slot : entries' = [entries EXCEPT ![i] =
                           [valid |-> TRUE, ip4 |-> ip, mac |-> mac, age |-> 0]]
      /\ sent' = sent \cup B /\ req_list' = m
      /\ walk' = [walk EXCEPT !.stale = @ \cup ({ip} \cap {walk.at, walk.next})]
      /\ corrupt' = (walk.begun /\ walk.at = ip)
      /\ UNCHANGED <<loop, asked, handed, refused>>
  BY <1>1 DEF arpcache_insert, SlotFor
<1>5. loop = NoPacket
  BY DEF handle_arp_packet
<1>6. \A x \in B : \E i \in DOMAIN req_list :
                     req_list[i].ip4 = ip /\ x \in ToSet(req_list[i].pkts)
  BY DEF ToSet
<1>7. \/ m = req_list /\ \A i \in DOMAIN req_list : req_list[i].ip4 # ip
      \/ \E n \in DOMAIN req_list : req_list[n].ip4 = ip /\ Without(m, req_list, n)
  BY <1>2, <1>3, RemovedFacts
<1> HIDE DEF m, B
<1>8. \A x \in B : WaitsIn(req_list, x) /\ x \in Packet
  <2> SUFFICES ASSUME NEW x \in B
               PROVE  WaitsIn(req_list, x) /\ x \in Packet
    OBVIOUS
  <2>1. PICK i \in DOMAIN req_list : x \in ToSet(req_list[i].pkts)
    BY <1>6
  <2>2. PICK k \in DOMAIN req_list[i].pkts : req_list[i].pkts[k] = x
    BY <2>1 DEF ToSet
  <2>3. req_list[i] \in Request
    BY <1>3
  <2> QED
    BY <2>2, <2>3, RequestFacts DEF WaitsIn
<1>9. /\ m \in Seq(Request) /\ OneEach(m) /\ NoneTwice(m) /\ Unanswered(m, walk, A \cup B)
      /\ \A p : WaitsIn(m, p) => WaitsIn(req_list, p)
      /\ \A a, h : a # ip \/ m = req_list => (Has(req_list, a, h) => Has(m, a, h))
  <2>1. CASE m = req_list /\ \A i \in DOMAIN req_list : req_list[i].ip4 # ip
    <3>1. A \cup B = A
      BY <1>6, <2>1
    <3> HIDE DEF A
    <3> QED
      BY <1>2, <1>3, <2>1, <3>1 DEF PacketsOK
  <2>2. CASE \E n \in DOMAIN req_list : req_list[n].ip4 = ip /\ Without(m, req_list, n)
    <3>1. PICK n \in DOMAIN req_list : req_list[n].ip4 = ip /\ Without(m, req_list, n)
      BY <2>2
    <3>2. B \subseteq ToSet(req_list[n].pkts)
      BY <1>2, <1>6, <3>1 DEF OneEach
    <3>3. NoneTwice(req_list) /\ Unanswered(req_list, walk, A)
      BY <1>2 DEF PacketsOK
    <3> HIDE DEF A
    <3>4. /\ OneEach(m) /\ NoneTwice(m)
          /\ \A a : a # ip => \A h : Has(req_list, a, h) => Has(m, a, h)
          /\ \A p : WaitsIn(m, p) => WaitsIn(req_list, p)
      BY <1>2, <1>3, <3>1, <3>3, WithoutFacts
    <3>5. Unanswered(m, walk, A \cup B)
      BY <1>2, <1>3, <3>1, <3>2, <3>3, WithoutFacts
    <3>6. m \in Seq(Request) /\ m # req_list
      BY <1>3, <3>1 DEF Without
    <3> QED
      BY <3>4, <3>5, <3>6
  <2> QED
    BY <1>7, <2>1, <2>2
<1>10. /\ walk' \in Walk /\ walk'.pc = walk.pc /\ walk'.at = walk.at /\ walk'.next = walk.next
       /\ walk'.last = walk.last /\ walk'.icmp = walk.icmp
       /\ walk'.stale = walk.stale \cup ({ip} \cap {walk.at, walk.next})
  BY <1>3, <1>4 DEF Walk
<1>11. Typing'
  <2>1. entries' \in [Slot -> [valid : BOOLEAN, ip4 : Addr, mac : Mac, age : 0..(Timeout + 1)]]
    BY <1>2, <1>3, <1>4, ArpAssumption DEF Typing
  <2>2. corrupt' \in BOOLEAN
    BY <1>4
  <2>3. sent' \subseteq Packet
    BY <1>2, <1>4, <1>8 DEF Typing
  <2> QED
    BY <1>2, <1>4, <1>9, <1>10, <2>1, <2>2, <2>3 DEF Typing
<1>12. WalkOK(walk', m)
  <2> SUFFICES ASSUME walk'.pc # "idle"
               PROVE  WalkOK(walk', m)
    BY DEF WalkOK
  <2>1. /\ walk.at \in Addr
        /\ walk.at \notin walk.stale => Has(req_list, walk.at, IF walk.last THEN 1 ELSE 2)
        /\ \/ walk.next = End \/ walk.next \in walk.stale
           \/ walk.next # walk.at /\ Has(req_list, walk.next, 1)
        /\ walk.pc = "pend" => walk.icmp \in Packet /\ walk.icmp.icmp
    BY <1>2, <1>10 DEF WalkOK
  <2>2. walk.at \notin walk'.stale => Has(m, walk.at, IF walk.last THEN 1 ELSE 2)
    BY <1>9, <1>10, <2>1
  <2>3. \/ walk.next = End \/ walk.next \in walk'.stale
        \/ walk.next # walk.at /\ Has(m, walk.next, 1)
    BY <1>9, <1>10, <2>1
  <2> QED
    BY <1>10, <2>1, <2>2, <2>3 DEF WalkOK
<1>13. PacketsOK(m, walk', loop, handed, A \cup B)
  <2>1. Unanswered(m, walk', A \cup B)
    BY <1>9, <1>10 DEF Unanswered
  <2>2. \A p \in A \cup B : Known(p, handed)
    BY <1>2, <1>8 DEF PacketsOK
  <2> HIDE DEF A
  <2> QED
    BY <1>2, <1>5, <1>9, <2>1, <2>2 DEF PacketsOK
<1>14. sent' \cup refused' = A \cup B
  BY <1>4
<1> HIDE DEF A
<1> QED
  BY <1>4, <1>9, <1>11, <1>12, <1>13, <1>14 DEF IInv

-----------------------------------------------------------------------------
(***************************************************************************)
(* The clock and the sweep.                                                *)
(***************************************************************************)
LEMMA TickInv ==
  ASSUME IInv, Tick
  PROVE  IInv'
<1> DEFINE A == sent \cup refused
           e(j) == [req_list[j] EXCEPT !.age = Smaller(@ + 1, 2)]
<1>1. /\ walk.pc = "idle"
      /\ entries' = [i \in Slot |-> [entries[i] EXCEPT !.age = Smaller(@ + 1, Timeout + 1)]]
      /\ req_list' = [j \in DOMAIN req_list |-> e(j)]
      /\ UNCHANGED <<loop, walk, asked, handed, sent, refused, corrupt>>
  BY DEF Tick
<1>2. /\ Typing /\ OneEach(req_list) /\ WalkOK(walk, req_list)
      /\ PacketsOK(req_list, walk, loop, handed, A) /\ req_list \in Seq(Request)
  BY DEF IInv, Typing
<1>3. Alike(req_list', req_list)
  <2>1. Len(req_list) \in Nat /\ DOMAIN req_list = 1..Len(req_list)
    BY <1>2
  <2>2. ASSUME NEW j \in DOMAIN req_list
        PROVE  e(j) \in Request /\ e(j).ip4 = req_list[j].ip4 /\ e(j).pkts = req_list[j].pkts
    <3> DEFINE r == req_list[j]
               a == Smaller(r.age + 1, 2)
    <3>1. r \in Request
      BY <1>2
    <3>2. a \in 0..2
      BY <3>1, RequestFacts DEF Smaller
    <3>3. e(j) = [r EXCEPT !.age = a]
      OBVIOUS
    <3> HIDE DEF e, a
    <3> QED
      BY <3>1, <3>2, <3>3 DEF Request
  <2> HIDE DEF e
  <2>3. req_list' = [j \in 1..Len(req_list) |-> e(j)]
    BY <1>1, <2>1
  <2>4. \A j \in 1..Len(req_list) : req_list'[j] = e(j) /\ e(j) \in Request
    BY <2>1, <2>2, <2>3
  <2>5. req_list' \in Seq(Request) /\ DOMAIN req_list' = DOMAIN req_list
    BY <2>1, <2>3, <2>4
  <2> QED
    BY <2>1, <2>2, <2>4, <2>5 DEF Alike
<1>4. /\ \A ip, n : Has(req_list, ip, n) => Has(req_list', ip, n)
      /\ \A p : WaitsIn(req_list', p) => WaitsIn(req_list, p)
      /\ OneEach(req_list') /\ NoneTwice(req_list') /\ Unanswered(req_list', walk, A)
  BY <1>2, <1>3, AlikeFacts DEF PacketsOK
<1>5. entries' \in [Slot -> [valid : BOOLEAN, ip4 : Addr, mac : Mac, age : 0..(Timeout + 1)]]
  <2> SUFFICES ASSUME NEW i \in Slot
               PROVE  [entries[i] EXCEPT !.age = Smaller(@ + 1, Timeout + 1)]
                        \in [valid : BOOLEAN, ip4 : Addr, mac : Mac, age : 0..(Timeout + 1)]
    BY <1>1
  <2> DEFINE r == entries[i]
             a == Smaller(r.age + 1, Timeout + 1)
  <2>1. r \in [valid : BOOLEAN, ip4 : Addr, mac : Mac, age : 0..(Timeout + 1)]
    BY <1>2 DEF Typing
  <2>2. a \in 0..(Timeout + 1)
    BY <2>1, ArpAssumption DEF Smaller
  <2>3. [entries[i] EXCEPT !.age = Smaller(@ + 1, Timeout + 1)] = [r EXCEPT !.age = a]
    OBVIOUS
  <2> HIDE DEF a, r
  <2> QED
    BY <2>1, <2>2, <2>3
<1>6. Typing'
  BY <1>1, <1>2, <1>3, <1>5 DEF Typing, Alike
<1>7. WalkOK(walk, req_list')
  BY <1>1 DEF WalkOK
<1> HIDE DEF A
<1>8. PacketsOK(req_list', walk, loop, handed, A)
  BY <1>2, <1>4 DEF PacketsOK
<1> QED
  BY <1>1, <1>4, <1>6, <1>7, <1>8 DEF IInv, A

\* Where a walk along a list ends: the packets as on that list.
LEMMA WalkedInv ==
  ASSUME Typing, NEW list \in Seq(Request), OneEach(list), NEW first \in 1..(Len(list) + 1),
         WalkFrom(list, first), UNCHANGED <<loop, asked, handed, sent, refused, corrupt>>,
         entries' \in [Slot -> [valid : BOOLEAN, ip4 : Addr, mac : Mac, age : 0..(Timeout + 1)]],
         NEW A, A = sent \cup refused, PacketsOK(list, walk, loop, handed, A),
         \A y : Unanswered(list, y, A)
  PROVE  IInv'
<1>1. /\ Alike(req_list', list) /\ walk' \in Walk /\ WalkOK(walk', list)
  BY WalkFacts
<1>2. /\ \A ip, n : Has(list, ip, n) => Has(req_list', ip, n)
      /\ \A p : WaitsIn(req_list', p) => WaitsIn(list, p)
      /\ OneEach(req_list') /\ NoneTwice(req_list')
  BY <1>1, AlikeFacts DEF PacketsOK
<1>3. Unanswered(req_list', walk', A)
  BY <1>1, AlikeFacts
<1>4. WalkOK(walk', req_list')
  BY <1>1, <1>2, WalkKept
<1>5. PacketsOK(req_list', walk', loop, handed, A)
  BY <1>2, <1>3 DEF PacketsOK
<1>6. Typing'
  BY <1>1 DEF Typing, Alike
<1> QED
  BY <1>2, <1>4, <1>5, <1>6 DEF IInv

LEMMA StartSweepInv ==
  ASSUME IInv, StartSweep
  PROVE  IInv'
<1>1. /\ walk.pc = "idle" /\ WalkFrom(req_list, 1)
      /\ entries' = [i \in Slot |-> IF entries[i].age > Timeout
                                    THEN [entries[i] EXCEPT !.valid = FALSE] ELSE entries[i]]
      /\ UNCHANGED <<loop, asked, handed, sent, refused, corrupt>>
  BY DEF StartSweep
<1>2. /\ Typing /\ OneEach(req_list) /\ req_list \in Seq(Request)
      /\ PacketsOK(req_list, walk, loop, handed, sent \cup refused)
  BY DEF IInv, Typing
<1>3. entries' \in [Slot -> [valid : BOOLEAN, ip4 : Addr, mac : Mac, age : 0..(Timeout + 1)]]
  BY <1>1, <1>2 DEF Typing
<1>4. \A y : Unanswered(req_list, y, sent \cup refused)
  BY <1>1, <1>2 DEF PacketsOK, Unanswered
<1>5. 1 \in 1..(Len(req_list) + 1)
  BY <1>2
<1> QED
  BY <1>1, <1>2, <1>3, <1>4, <1>5, WalkedInv

\* The first packet of the request that the sweep stands on.
LEMMA AtFacts ==
  ASSUME IInv, walk.pc # "idle", walk.at \notin walk.stale, NEW n, n = IndexOf(walk.at)
  PROVE  /\ n \in DOMAIN req_list /\ req_list[n] \in Request /\ req_list[n].ip4 = walk.at
         /\ walk.at \in Addr
         /\ ~walk.last => Len(req_list[n].pkts) >= 2
<1>1. req_list \in Seq(Request) /\ OneEach(req_list) /\ WalkOK(walk, req_list)
  BY DEF IInv, Typing
<1>2. PICK h : h = IF walk.last THEN 1 ELSE 2
  OBVIOUS
<1>3. walk.at \in Addr /\ Has(req_list, walk.at, h)
  BY <1>1, <1>2 DEF WalkOK
<1>4. PICK m : m = PlaceOf(req_list, walk.at)
  OBVIOUS
<1>5. m \in DOMAIN req_list /\ req_list[m].ip4 = walk.at /\ Len(req_list[m].pkts) >= h
  BY <1>1, <1>3, <1>4, HasIndex
<1>6. n = m
  BY <1>4 DEF IndexOf, PlaceOf
<1> QED
  BY <1>1, <1>2, <1>3, <1>5, <1>6

LEMMA icmp_send_packetInv ==
  ASSUME IInv, icmp_send_packet
  PROVE  IInv'
<1> DEFINE A == sent \cup refused
<1>1. CASE walk.at \in walk.stale
  BY <1>1 DEF icmp_send_packet, UseAfterFree, IInv, Typing
<1>2. CASE walk.at \notin walk.stale
  <2> DEFINE n == IndexOf(walk.at)
             p == Head(req_list[n].pkts)
             q == [id |-> p.id, hop |-> p.src, src |-> Own, icmp |-> TRUE]
  <2>1. /\ walk.pc = "icmp" /\ refused' = refused \cup {p}
        /\ \/ sent' = sent \cup {q} /\ walk' = [walk EXCEPT !.pc = "relock"]
           \/ sent' = sent /\ walk' = [walk EXCEPT !.pc = "pend", !.icmp = q]
        /\ UNCHANGED <<entries, req_list, loop, asked, handed, corrupt>>
    BY <1>2 DEF icmp_send_packet
  <2>2. n \in DOMAIN req_list /\ req_list[n] \in Request /\ req_list[n].ip4 = walk.at
    BY <1>2, <2>1, AtFacts
  <2>3. /\ Typing /\ OneEach(req_list) /\ WalkOK(walk, req_list)
        /\ PacketsOK(req_list, walk, loop, handed, A) /\ req_list \in Seq(Request)
    BY DEF IInv, Typing
  <2> HIDE DEF n
  <2>4. p = req_list[n].pkts[1] /\ 1 \in DOMAIN req_list[n].pkts /\ p \in Packet
    BY <2>2, RequestFacts
  <2> HIDE DEF p
  <2>5. q \in Packet /\ q.icmp
    BY <2>4, ArpAssumption DEF Packet
  <2> HIDE DEF q
  <2>6. WaitsIn(req_list, p) /\ Known(p, handed) /\ Known(q, handed)
    BY <2>2, <2>3, <2>4, <2>5 DEF WaitsIn, PacketsOK, Known
  <2>7. /\ walk' \in Walk /\ walk'.pc \in {"pend", "relock"} /\ walk'.at = walk.at
        /\ walk'.next = walk.next /\ walk'.last = walk.last /\ walk'.stale = walk.stale
        /\ walk'.pc = "pend" => walk'.icmp = q
    BY <2>1, <2>3, <2>5 DEF Walk, Typing
  <2>8. sent' \cup refused' \subseteq A \cup {p, q}
    BY <2>1
  <2> HIDE DEF A
  <2>9. Typing'
    <3>1. sent' \subseteq Packet /\ refused' \subseteq Packet
      BY <2>1, <2>3, <2>4, <2>5 DEF Typing
    <3> QED
      BY <2>1, <2>3, <2>7, <3>1 DEF Typing
  <2>10. WalkOK(walk', req_list)
    BY <2>1, <2>3, <2>5, <2>7 DEF WalkOK
  <2>11. Unanswered(req_list, walk', sent' \cup refused')
    <3> SUFFICES ASSUME NEW i \in DOMAIN req_list, NEW k \in DOMAIN req_list[i].pkts,
                        ~req_list[i].pkts[k].icmp, req_list[i].pkts[k] \in sent' \cup refused'
                 PROVE  i = n /\ k = 1
      BY <2>2, <2>7 DEF Unanswered
    <3>1. req_list[i].pkts[k] \notin A
      BY <2>1, <2>3 DEF PacketsOK, Unanswered
    <3>2. req_list[i].pkts[k] = p
      BY <2>5, <2>8, <3>1
    <3> QED
      BY <2>2, <2>3, <2>4, <3>2 DEF PacketsOK, NoneTwice
  <2>12. \A x \in sent' \cup refused' : Known(x, handed)
    BY <2>3, <2>6, <2>8 DEF PacketsOK
  <2>13. loop # NoPacket => loop \notin sent' \cup refused'
    BY <2>3, <2>5, <2>6, <2>8 DEF PacketsOK
  <2>14. PacketsOK(req_list, walk', loop, handed, sent' \cup refused')
    BY <2>3, <2>11, <2>12, <2>13 DEF PacketsOK
  <2> QED
    BY <2>1, <2>3, <2>9, <2>10, <2>14 DEF IInv
<1> QED
  BY <1>1, <1>2

LEMMA PendIcmpInv ==
  ASSUME IInv, PendIcmp
  PROVE  IInv'
<1> DEFINE A == sent \cup refused
           p == walk.icmp
<1>1. /\ arpcache_append_packet(p) /\ walk.pc = "pend"
      /\ walk' = [walk EXCEPT !.pc = "relock", !.icmp = NoPacket]
      /\ UNCHANGED <<entries, loop, handed, sent, refused, corrupt>>
  BY DEF PendIcmp
<1>2. /\ Typing /\ OneEach(req_list) /\ WalkOK(walk, req_list)
      /\ PacketsOK(req_list, walk, loop, handed, A) /\ req_list \in Seq(Request)
  BY DEF IInv, Typing
<1>3. p \in Packet /\ p.icmp /\ p.hop \in Addr
  BY <1>1, <1>2 DEF WalkOK, Packet
<1>4. Pended(req_list', req_list, p)
  BY <1>1, <1>2, <1>3, AppendPended
<1>5. asked' = asked \/ asked' = asked \cup {p.hop}
  BY <1>1 DEF arpcache_append_packet
<1> HIDE DEF p
<1>6. /\ walk' \in Walk /\ walk'.pc = "relock" /\ walk'.at = walk.at
      /\ walk'.next = walk.next /\ walk'.last = walk.last /\ walk'.stale = walk.stale
  BY <1>1, <1>2 DEF Walk, Typing
<1>7. Typing'
  <2>1. req_list' \in Seq(Request) /\ asked' \subseteq Addr
    BY <1>2, <1>3, <1>4, <1>5 DEF Pended, Typing
  <2> QED
    BY <1>1, <1>2, <1>6, <2>1 DEF Typing
<1>8. WalkOK(walk', req_list')
  <2>1. \A ip : \A n \in {1, 2} : Has(req_list, ip, n) => Has(req_list', ip, n)
    BY <1>2, <1>4, PendedFacts
  <2>2. WalkOK(walk', req_list)
    BY <1>1, <1>2, <1>6 DEF WalkOK
  <2> QED
    BY <2>1, <2>2, WalkKept
<1>9. PacketsOK(req_list', walk', loop, handed, A)
  <2>1. /\ \A x : WaitsIn(req_list', x) => WaitsIn(req_list, x) \/ x = p
        /\ NoneTwice(req_list) => NoneTwice(req_list')
        /\ Unanswered(req_list, walk, A) => Unanswered(req_list', walk, A)
    BY <1>2, <1>3, <1>4, PendedFacts
  <2>2. Known(p, handed)
    BY <1>3 DEF Known
  <2> HIDE DEF A
  <2>3. Unanswered(req_list', walk', A)
    BY <1>2, <1>6, <2>1 DEF PacketsOK, Unanswered
  <2> QED
    BY <1>2, <1>3, <2>1, <2>2, <2>3 DEF PacketsOK
<1> QED
  BY <1>1, <1>2, <1>4, <1>7, <1>8, <1>9 DEF IInv, Pended

LEMMA FreePacketInv ==
  ASSUME IInv, FreePacket
  PROVE  IInv'
<1> DEFINE A == sent \cup refused
           n == IndexOf(walk.at)
           m == [req_list EXCEPT ![n].pkts = Tail(req_list[n].pkts)]
           last == Len(req_list[n].pkts) = 2
<1>1. /\ walk.pc = "relock" /\ ~walk.last /\ walk.at \notin walk.stale
      /\ req_list' = m
      /\ walk' = [walk EXCEPT !.pc = "icmp", !.begun = TRUE, !.last = last]
      /\ UNCHANGED <<entries, loop, asked, handed, sent, refused, corrupt>>
  BY DEF FreePacket
<1>2. /\ Typing /\ OneEach(req_list) /\ WalkOK(walk, req_list)
      /\ PacketsOK(req_list, walk, loop, handed, A) /\ req_list \in Seq(Request)
  BY DEF IInv, Typing
<1>3. /\ n \in DOMAIN req_list /\ req_list[n] \in Request /\ req_list[n].ip4 = walk.at
      /\ Len(req_list[n].pkts) >= 2
  BY <1>1, AtFacts
<1>4. Len(req_list[n].pkts) \in Nat
  BY <1>3, RequestFacts
<1> HIDE DEF n
<1>5. PICK l : l = m
  OBVIOUS
<1>6. /\ l \in Seq(Request) /\ OneEach(l)
      /\ \A ip : ip # walk.at => \A h : Has(req_list, ip, h) => Has(l, ip, h)
      /\ \A h \in Nat : Len(req_list[n].pkts) > h => Has(l, walk.at, h)
      /\ \A x : WaitsIn(l, x) => WaitsIn(req_list, x)
      /\ NoneTwice(req_list) => NoneTwice(l)
      /\ Unanswered(req_list, walk, A) => \A y : Unanswered(l, y, A)
  <2>1. Shortened(l, req_list, n)
    BY <1>5 DEF Shortened
  <2> HIDE DEF A, m
  <2>2. /\ l \in Seq(Request) /\ OneEach(l)
        /\ \A ip : ip # req_list[n].ip4 => \A h : Has(req_list, ip, h) => Has(l, ip, h)
        /\ \A h \in Nat : Len(req_list[n].pkts) > h => Has(l, req_list[n].ip4, h)
        /\ \A x : WaitsIn(l, x) => WaitsIn(req_list, x)
        /\ NoneTwice(req_list) => NoneTwice(l)
        /\ \A w, B : Unanswered(req_list, w, B) /\ w.at = req_list[n].ip4
                       => \A y : Unanswered(l, y, B)
    BY ONLY <1>2, <1>3, <2>1, TailFacts
  <2>3. Unanswered(req_list, walk, A) => \A y : Unanswered(l, y, A)
    BY ONLY <1>3, <2>2
  <2> QED
    BY ONLY <1>3, <2>2, <2>3
<1> HIDE DEF m
<1>7. /\ walk' \in Walk /\ walk'.pc = "icmp" /\ walk'.at = walk.at
      /\ walk'.next = walk.next /\ walk'.last = last /\ walk'.stale = walk.stale
  BY <1>1, <1>2 DEF Walk, Typing
<1>8. Typing'
  BY <1>1, <1>2, <1>5, <1>6, <1>7 DEF Typing
<1>9. Has(l, walk.at, IF last THEN 1 ELSE 2)
  <2>1. CASE last
    BY <1>6, <2>1
  <2>2. CASE ~last
    <3>1. PICK x : x = Len(req_list[n].pkts)
      OBVIOUS
    <3>2. x \in Nat /\ x >= 2 /\ x # 2
      BY <1>3, <1>4, <2>2, <3>1
    <3>3. x > 2
      BY ONLY <3>2
    <3>4. Has(l, walk.at, 2)
      BY <1>6, <3>1, <3>3
    <3> QED
      BY <2>2, <3>4
  <2> QED
    BY <2>1, <2>2
<1> HIDE DEF last
<1>10. WalkOK(walk', l)
  <2>1. /\ walk.at \in Addr
        /\ \/ walk.next = End \/ walk.next \in walk.stale
           \/ walk.next # walk.at /\ Has(req_list, walk.next, 1)
    BY <1>1, <1>2 DEF WalkOK
  <2>2. \/ walk.next = End \/ walk.next \in walk.stale
        \/ walk.next # walk.at /\ Has(l, walk.next, 1)
    BY <1>6, <2>1
  <2> QED
    BY <1>7, <1>9, <2>1, <2>2 DEF WalkOK
<1> HIDE DEF A
<1>11. PacketsOK(l, walk', loop, handed, A)
  BY <1>2, <1>6 DEF PacketsOK
<1> QED
  BY <1>1, <1>5, <1>6, <1>8, <1>10, <1>11 DEF IInv, A

LEMMA FreeRequestInv ==
  ASSUME IInv, FreeRequest
  PROVE  IInv'
<1> DEFINE A == sent \cup refused
           list == Removed(walk.at)
           first == IF walk.next = End THEN Len(list) + 1
                    ELSE SelectInSeq(list, LAMBDA r : r.ip4 = walk.next)
<1>1. /\ walk.pc = "relock" /\ walk.last /\ walk.stale = {}
      /\ WalkFrom(list, first)
      /\ UNCHANGED <<entries, loop, asked, handed, sent, refused, corrupt>>
  BY DEF FreeRequest
<1>2. /\ Typing /\ OneEach(req_list) /\ WalkOK(walk, req_list)
      /\ PacketsOK(req_list, walk, loop, handed, A) /\ req_list \in Seq(Request)
  BY DEF IInv, Typing
<1>3. \E i \in DOMAIN req_list : req_list[i].ip4 = walk.at
  BY <1>1, AtFacts
<1>4. PICK m : m = list
  OBVIOUS
<1>5. PICK f : f = first
  OBVIOUS
<1>6. WalkFrom(m, f)
  BY <1>1, <1>4, <1>5
<1>7. f = IF walk.next = End THEN Len(m) + 1
          ELSE PlaceOf(m, walk.next)
  BY <1>4, <1>5 DEF PlaceOf
<1>8. PICK n \in DOMAIN req_list : req_list[n].ip4 = walk.at /\ Without(m, req_list, n)
  BY <1>2, <1>3, <1>4, RemovedFacts
<1> HIDE DEF list, first
<1> HIDE DEF A
<1>9. /\ OneEach(m) /\ m \in Seq(Request)
      /\ \A ip : ip # walk.at => \A h : Has(req_list, ip, h) => Has(m, ip, h)
      /\ \A p : WaitsIn(m, p) => WaitsIn(req_list, p)
      /\ NoneTwice(req_list) => NoneTwice(m)
  <2>1. /\ OneEach(m)
        /\ \A ip : ip # req_list[n].ip4 => \A h : Has(req_list, ip, h) => Has(m, ip, h)
        /\ \A p : WaitsIn(m, p) => WaitsIn(req_list, p)
        /\ NoneTwice(req_list) => NoneTwice(m)
    BY ONLY <1>2, <1>8, WithoutFacts
  <2>2. m \in Seq(Request)
    BY <1>8 DEF Without
  <2> QED
    BY ONLY <1>8, <2>1, <2>2
<1>10. \A y : Unanswered(m, y, A)
  <2>1. Unanswered(req_list, walk, A) /\ NoneTwice(req_list)
    BY <1>2 DEF PacketsOK
  <2>2. PICK B : B = {}
    OBVIOUS
  <2>3. B \subseteq ToSet(req_list[n].pkts) /\ A \cup B = A
    BY <2>2
  <2>4. walk.at = req_list[n].ip4 => \A y : Unanswered(m, y, A \cup B)
    BY ONLY <1>2, <1>8, <2>1, <2>3, WithoutFacts
  <2> QED
    BY ONLY <1>8, <2>3, <2>4
<1>11. f \in 1..(Len(m) + 1)
  <2>1. Len(m) \in Nat /\ DOMAIN m = 1..Len(m)
    BY <1>9
  <2>2. CASE walk.next = End
    BY <1>7, <2>1, <2>2
  <2>3. CASE walk.next # End
    <3>1. walk.next # walk.at /\ Has(req_list, walk.next, 1)
      BY <1>1, <1>2, <2>3 DEF WalkOK
    <3>2. Has(m, walk.next, 1)
      BY <1>9, <3>1
    <3>3. f = PlaceOf(m, walk.next)
      BY <1>7, <2>3
    <3>4. f \in DOMAIN m
      BY <1>9, <3>2, <3>3, HasIndex
    <3> QED
      BY <2>1, <3>4
  <2> QED
    BY <2>2, <2>3
<1>12. PacketsOK(m, walk, loop, handed, A)
  BY <1>2, <1>9, <1>10 DEF PacketsOK
<1>13. entries' \in [Slot -> [valid : BOOLEAN, ip4 : Addr, mac : Mac, age : 0..(Timeout + 1)]]
  BY <1>1, <1>2 DEF Typing
<1> QED
  BY <1>1, <1>2, <1>6, <1>9, <1>10, <1>11, <1>12, <1>13, WalkedInv DEF A

-----------------------------------------------------------------------------
LEMMA InitInv ==
  ASSUME Init
  PROVE  IInv
<1>1. /\ req_list = << >> /\ loop = NoPacket /\ walk = Idle
      /\ asked = {} /\ handed = {} /\ sent = {} /\ refused = {} /\ corrupt = FALSE
  BY DEF Init
<1>2. Typing
  <2>1. entries \in [Slot -> [valid : BOOLEAN, ip4 : Addr, mac : Mac, age : 0..(Timeout + 1)]]
    BY ArpAssumption DEF Init
  <2>2. req_list \in Seq(Request) /\ IsFiniteSet(handed)
    BY <1>1, FS_EmptySet
  <2>3. walk \in Walk
    BY <1>1 DEF Idle, Walk
  <2> QED
    BY <1>1, <2>1, <2>2, <2>3 DEF Typing
<1>3. DOMAIN req_list = {}
  BY <1>1
<1>4. OneEach(req_list) /\ WalkOK(walk, req_list)
  BY <1>1, <1>3 DEF OneEach, WalkOK, Idle
<1>5. PacketsOK(req_list, walk, loop, handed, sent \cup refused)
  BY <1>1, <1>3 DEF PacketsOK, WaitsIn, NoneTwice, Unanswered
<1> QED
  BY <1>2, <1>4, <1>5 DEF IInv

LEMMA UseAfterFreeInv ==
  ASSUME IInv, UseAfterFree
  PROVE  IInv'
  BY DEF IInv, UseAfterFree, Typing

LEMMA NextInv ==
  ASSUME IInv, [Next]_vars
  PROVE  IInv'
<1>1. CASE HandPacket
  BY <1>1, HandPacketInv
<1>2. CASE PendPacket
  BY <1>2, PendPacketInv
<1>3. CASE handle_arp_packet
  BY <1>3, handle_arp_packetInv
<1>4. CASE Tick
  BY <1>4, TickInv
<1>5. CASE StartSweep
  BY <1>5, StartSweepInv
<1>6. CASE icmp_send_packet
  BY <1>6, icmp_send_packetInv
<1>7. CASE PendIcmp
  BY <1>7, PendIcmpInv
<1>8. CASE FreePacket
  BY <1>8, FreePacketInv
<1>9. CASE FreeRequest
  BY <1>9, FreeRequestInv
<1>10. CASE FreeAgain
  BY <1>10, UseAfterFreeInv DEF FreeAgain
<1>11. CASE UNCHANGED vars
  BY <1>11 DEF vars, IInv, Typing
<1> QED
  BY <1>1, <1>2, <1>3, <1>4, <1>5, <1>6, <1>7, <1>8, <1>9, <1>10, <1>11 DEF Next, Sweep

-----------------------------------------------------------------------------
(***************************************************************************)
(* The results.                                                            *)
(***************************************************************************)
\* The inductive invariant holds in every behaviour of the loop and the sweep.
THEOREM IInvAlways == Spec => []IInv
<1>1. Init => IInv
  BY InitInv
<1>2. IInv /\ [Next]_vars => IInv'
  BY NextInv
<1> QED
  BY <1>1, <1>2, PTL DEF Spec

\* The table, the list of requests and the position of the sweep keep their
\* types: no request is counted beyond ARP_REQUEST_MAX_RETRIES or left in the
\* list without a packet (arpcache_append_packet, arpcache_sweep).
THEOREM TypeCorrect == Spec => []TypeOK
<1>1. IInv => TypeOK
  BY DEF IInv, Typing, TypeOK, Walk
<1> QED
  BY <1>1, IInvAlways, PTL

\* Between lookup and append, and between two holds of the lock by the sweep,
\* no second request for an address arises (arpcache_append_packet).
THEOREM OneRequestPerAddrAlways == Spec => []OneRequestPerAddr
<1>1. IInv => OneRequestPerAddr
  BY DEF IInv, OneEach, OneRequestPerAddr
<1> QED
  BY <1>1, IInvAlways, PTL

\* No packet that still waits was sent or refused, but the one the sweep has
\* in hand, whatever was freed under the sweep (arpcache_insert,
\* arpcache_sweep).
THEOREM WaitingIsUnansweredAlways == Spec => []WaitingIsUnanswered
<1>1. IInv => WaitingIsUnanswered
  BY DEF IInv, PacketsOK, Unanswered, WaitingIsUnanswered
<1> QED
  BY <1>1, IInvAlways, PTL

=============================================================================
