---------------------------- MODULE MospfProofs -----------------------------
(***************************************************************************)
(* What Mospf guarantees for every area, every number of updates and every *)
(* number of faults.                                                       *)
(***************************************************************************)
EXTENDS Mospf, FiniteSetTheorems, FunctionTheorems, TLAPS

-----------------------------------------------------------------------------
(***************************************************************************)
(* The inductive invariant.  Updates are found in databases, in the hands  *)
(* of packet loops and under way; what EntriesAgree says of entries holds  *)
(* of all of them.                                                         *)
(***************************************************************************)
NotOwnNeighbour == \A r \in Router : r \notin nbrs[r]

Copy(x) == /\ x \in Lsu
           /\ \/ \E r, o \in Router : db[r][o] = x
              \/ \E r \in Router : hand[r] = x
              \/ \E m \in net : m.lsu = x

CopiesAgree ==
  /\ \A x, y \in Lsu : Copy(x) /\ Copy(y) /\ x.rid = y.rid /\ x.seq = y.seq => x = y
  /\ \A x \in Lsu : Copy(x) =>
       /\ x.seq <= sequence_num[x.rid]
       /\ x.seq = sequence_num[x.rid] /\ owes[x.rid] = {} => x.nbrs = nbrs[x.rid]

RightPlace == \A r, o \in Router : db[r][o] # None => db[r][o].rid = o

IInv == /\ TypeOK /\ NotOwnNeighbour /\ RightPlace /\ NoOwnEntry
        /\ CopiesAgree /\ FloodingReaches

LEMMA InitIInv == Init => IInv
<1> SUFFICES ASSUME Init PROVE IInv
  OBVIOUS
<1>1. TypeOK
  <2>1. /\ up \subseteq Link /\ nbrs \in [Router -> SUBSET Router]
        /\ sequence_num \in [Router -> Nat] /\ net \subseteq Message
    BY DEF Init
  <2>2. /\ owes \in [Router -> SUBSET {"loop", "nbr"}]
        /\ hand \in [Router -> Lsu \cup {None}]
    BY DEF Init
  <2>3. /\ db \in [Router -> [Router -> Lsu \cup {None}]]
        /\ rtable \in [Router -> [Router -> Router \cup {None}]]
    BY DEF Init
  <2>4. excused \subseteq Excusable
    BY DEF Init
  <2>5. faults \in 0..MaxFaults
    BY MospfAssumption DEF Init
  <2>6. corrupt \in BOOLEAN
    BY Zenon DEF Init
  <2> QED
    BY <2>1, <2>2, <2>3, <2>4, <2>5, <2>6 DEF TypeOK
<1>2. NotOwnNeighbour /\ RightPlace /\ NoOwnEntry /\ FloodingReaches
  BY DEF Init, NotOwnNeighbour, RightPlace, NoOwnEntry, FloodingReaches
<1>3. CopiesAgree
  BY MospfAssumption DEF Init, CopiesAgree, Copy
<1> QED
  BY <1>1, <1>2, <1>3 DEF IInv

-----------------------------------------------------------------------------
(***************************************************************************)
(* Types.                                                                  *)
(***************************************************************************)
LEMMA SendType ==
  ASSUME TypeOK, NEW r \in Router, NEW R \in SUBSET Router, NEW lsu \in Lsu,
         Send(r, R, lsu)
  PROVE  net' \subseteq Message /\ excused' \subseteq Excusable
<1>1. lsu.rid \in Router
  BY DEF Lsu
<1>2. \A n \in R : n \in Router /\ [from |-> r, to |-> n, lsu |-> lsu] \in Message
  BY DEF Message
<1>3. ASSUME NEW m \in net' PROVE m \in Message
  <2>1. m \in net \/ \E n \in R : m = [from |-> r, to |-> n, lsu |-> lsu]
    BY DEF Send
  <2> QED
    BY <1>2, <2>1 DEF TypeOK
<1>4. \A n \in R : <<r, n, lsu.rid>> \in Excusable
  BY <1>1 DEF Excusable
<1>5. ASSUME NEW e \in excused' PROVE e \in Excusable
  <2>1. e \in excused \/ \E n \in R : e = <<r, n, lsu.rid>>
    BY DEF Send
  <2> QED
    BY <1>4, <2>1 DEF TypeOK
<1> QED
  BY <1>3, <1>5

LEMMA OwnLsu ==
  ASSUME TypeOK, NEW r \in Router
  PROVE  [rid |-> r, seq |-> Numbered(r), nbrs |-> nbrs[r]] \in Lsu
  BY DEF TypeOK, Numbered, Lsu

LEMMA RoutesType ==
  ASSUME TypeOK, NEW r \in Router, update_rtable(r)
  PROVE  rtable' \in [Router -> [Router -> Router \cup {None}]]
<1> DEFINE hops == [o \in Router |-> NextHops(r, o)]
<1>1. PICK routes \in [Router -> UNION {hops[o] : o \in Router}] :
        /\ \A o \in Router : routes[o] \in hops[o]
        /\ rtable' = [rtable EXCEPT ![r] = routes]
  BY DEF update_rtable
<1>2. \A o \in Router : NextHops(r, o) \subseteq Router \cup {None}
  <2>1. Known(r) \subseteq Router
    BY DEF Known
  <2>2. \A o \in Router : Hops(r, o) \subseteq Known(r)
    BY DEF Hops, FirstHops
  <2>3. nbrs[r] \subseteq Router
    BY DEF TypeOK
  <2> QED
    BY <2>1, <2>2, <2>3 DEF NextHops
<1>3. routes \in [Router -> Router \cup {None}]
  BY <1>1, <1>2
<1> QED
  BY <1>1, <1>3 DEF TypeOK

LEMMA SendLsuType ==
  ASSUME TypeOK, NEW r \in Router, send_mospf_lsu(r)
  PROVE  /\ sequence_num' \in [Router -> Nat]
         /\ net' \subseteq Message /\ excused' \subseteq Excusable
<1>1. sequence_num' \in [Router -> Nat]
  BY DEF send_mospf_lsu, TypeOK, Numbered
<1>2. nbrs[r] \in SUBSET Router
  BY DEF TypeOK
<1> QED
  BY <1>1, <1>2, OwnLsu, SendType DEF send_mospf_lsu

LEMMA CorruptType ==
  ASSUME corrupt \in BOOLEAN, NEW r \in Router, MayCorrupt(r)
  PROVE  corrupt' \in BOOLEAN
<1>1. CASE hand[r] = None
  <2>1. corrupt' \in {FALSE}
    BY <1>1, Zenon DEF MayCorrupt
  <2> QED
    BY <2>1, Zenon
<1>2. CASE hand[r] # None
  BY <1>2, Zenon DEF MayCorrupt
<1> QED
  BY <1>1, <1>2

(***************************************************************************)
(* The conjuncts of TypeOK apart: the solvers deal with them one by one.   *)
(***************************************************************************)
Tables == /\ up \subseteq Link
          /\ nbrs \in [Router -> SUBSET Router]
          /\ sequence_num \in [Router -> Nat]
          /\ db \in [Router -> [Router -> Lsu \cup {None}]]
          /\ rtable \in [Router -> [Router -> Router \cup {None}]]
          /\ owes \in [Router -> SUBSET {"loop", "nbr"}]
          /\ hand \in [Router -> Lsu \cup {None}]
          /\ net \subseteq Message
          /\ faults \in 0..MaxFaults

LEMMA TypeParts ==
  /\ TypeOK <=> Tables /\ excused \subseteq Excusable /\ corrupt \in BOOLEAN
  /\ TypeOK' <=> Tables' /\ excused' \subseteq Excusable /\ corrupt' \in BOOLEAN
  BY Zenon DEF TypeOK, Tables

LEMMA TypeStep ==
  ASSUME TypeOK, [Next]_vars
  PROVE  TypeOK'
<1>0. Tables /\ excused \subseteq Excusable /\ corrupt \in BOOLEAN
  BY TypeParts
<1> SUFFICES Tables' /\ excused' \subseteq Excusable /\ corrupt' \in BOOLEAN
  BY TypeParts
<1> DEFINE Goal == Tables' /\ excused' \subseteq Excusable /\ corrupt' \in BOOLEAN
<1>1. ASSUME NEW r \in Router, PeriodicLsu(r) PROVE Goal
  <2>1. corrupt' \in BOOLEAN
    BY <1>0, <1>1, Zenon DEF PeriodicLsu
  <2>2. excused' \subseteq Excusable
    BY <1>1, SendLsuType DEF PeriodicLsu, Excusable
  <2>3. Tables'
    BY <1>0, <1>1, SendLsuType DEF PeriodicLsu, Tables
  <2> QED
    BY <2>1, <2>2, <2>3
<1>2. ASSUME NEW r \in Router, NEW t \in {"loop", "nbr"}, SendOwed(r, t) PROVE Goal
  <2>1. corrupt' \in BOOLEAN
    BY <1>0, <1>2, Zenon DEF SendOwed
  <2>2. excused' \subseteq Excusable
    BY <1>2, SendLsuType DEF SendOwed, Excusable
  <2>3. Tables'
    BY <1>0, <1>2, SendLsuType DEF SendOwed, Tables
  <2> QED
    BY <2>1, <2>2, <2>3
<1>3. ASSUME NEW r \in Router, ForwardLsu(r) PROVE Goal
  <2>1. Receivers(r, hand[r]) \in SUBSET Router /\ hand[r] \in Lsu
    BY <1>0, <1>3 DEF ForwardLsu, Receivers, Tables
  <2>2. net' \subseteq Message /\ excused' \subseteq Excusable
    BY <1>3, <2>1, SendType DEF ForwardLsu, Excusable
  <2>3. rtable' \in [Router -> [Router -> Router \cup {None}]]
    BY <1>3, RoutesType DEF ForwardLsu
  <2>4. Tables'
    BY <1>0, <1>3, <2>2, <2>3 DEF ForwardLsu, Tables
  <2>5. corrupt' \in BOOLEAN
    BY <1>0, <1>3, Zenon DEF ForwardLsu
  <2> QED
    BY <2>2, <2>4, <2>5
<1>4. ASSUME NEW r \in Router, checking_nbr_thread(r) PROVE Goal
  <2>1. corrupt' \in BOOLEAN
    BY <1>0, <1>4, CorruptType DEF checking_nbr_thread
  <2>2. excused' \subseteq Excusable
    BY <1>0, <1>4 DEF checking_nbr_thread, Excusable
  <2>3. Tables'
    BY <1>0, <1>4 DEF checking_nbr_thread, Owing, Tables
  <2> QED
    BY <2>1, <2>2, <2>3
<1>5. ASSUME NEW r \in Router, NEW n \in Router, handle_mospf_hello(r, n) PROVE Goal
  <2>1. corrupt' \in BOOLEAN
    BY <1>0, <1>5, Zenon DEF handle_mospf_hello
  <2>2. excused' \subseteq Excusable
    BY <1>0, <1>5 DEF handle_mospf_hello, Excusable
  <2>3. Tables'
    BY <1>0, <1>5 DEF handle_mospf_hello, Tables
  <2> QED
    BY <2>1, <2>2, <2>3
<1>6. ASSUME NEW r \in Router, NEW o \in Router, checking_database_thread(r, o) PROVE Goal
  <2>1. corrupt' \in BOOLEAN
    BY <1>0, <1>6, CorruptType DEF checking_database_thread
  <2>2. excused' \subseteq Excusable
    BY <1>0, <1>6 DEF checking_database_thread, Excusable
  <2>3. Tables'
    BY <1>0, <1>6, MospfAssumption DEF checking_database_thread, Fault, Tables
  <2> QED
    BY <2>1, <2>2, <2>3
<1>7. ASSUME NEW m \in net, DropLsu(m) \/ StoreLsu(m) PROVE Goal
  <2>1. m.to \in Router /\ m.lsu \in Lsu /\ m.lsu.rid \in Router
    BY <1>0 DEF Tables, Message, Lsu
  <2>2. corrupt' \in BOOLEAN
    BY <1>0, <1>7, Zenon DEF DropLsu, StoreLsu
  <2>3. excused' \subseteq Excusable
    BY <1>0, <1>7 DEF DropLsu, StoreLsu, Excusable
  <2>4. db' \in [Router -> [Router -> Lsu \cup {None}]]
    <3>1. CASE DropLsu(m)
      BY <1>0, <3>1 DEF DropLsu, Tables
    <3>2. CASE StoreLsu(m)
      <4>1. db' = [db EXCEPT ![m.to] = [db[m.to] EXCEPT ![m.lsu.rid] = m.lsu]]
        BY <3>2 DEF StoreLsu
      <4> QED
        BY ONLY <1>0, <2>1, <4>1 DEF Tables
    <3> QED
      BY <1>7, <3>1, <3>2
  <2>5. hand' \in [Router -> Lsu \cup {None}] /\ net' \subseteq Message
    BY <1>0, <1>7, <2>1 DEF DropLsu, StoreLsu, Tables
  <2>6. Tables'
    BY <1>0, <1>7, <2>4, <2>5 DEF DropLsu, StoreLsu, Tables
  <2> QED
    BY <2>2, <2>3, <2>6
<1>8. CASE LinkUp
  <2>1. corrupt' \in BOOLEAN
    BY <1>0, <1>8, Zenon DEF LinkUp
  <2> QED
    BY <1>0, <1>8, <2>1 DEF LinkUp, Tables, Excusable
<1>9. CASE LinkDown \/ Lose
  <2>1. corrupt' \in BOOLEAN
    BY <1>0, <1>9, Zenon DEF LinkDown, Lose
  <2>2. PICK lost \in SUBSET net : net' = net \ lost /\ excused' = Excuse(lost)
    BY <1>9 DEF LinkDown, Lose
  <2>3. \A m \in lost : m.from \in Router /\ m.to \in Router /\ m.lsu.rid \in Router
    BY <1>0 DEF Tables, Message, Lsu
  <2>4. excused' \subseteq Excusable
    BY <1>0, <2>2, <2>3 DEF Excuse, Excusable
  <2>5. up' \subseteq Link
    BY <1>0, <1>9 DEF LinkDown, Lose, Tables
  <2>6. faults' \in 0..MaxFaults
    BY <1>0, <1>9, MospfAssumption DEF LinkDown, Lose, Fault, Tables
  <2>7. UNCHANGED <<nbrs, sequence_num, db, rtable, owes, hand>>
    BY <1>9 DEF LinkDown, Lose
  <2>8. Tables'
    BY <1>0, <2>2, <2>5, <2>6, <2>7 DEF Tables
  <2> QED
    BY <2>1, <2>4, <2>8
<1>10. CASE UNCHANGED vars
  <2>1. corrupt' \in BOOLEAN
    BY <1>0, <1>10, Zenon DEF vars
  <2> QED
    BY <1>0, <1>10, <2>1 DEF vars, Tables, Excusable
<1> QED
  BY <1>1, <1>2, <1>3, <1>4, <1>5, <1>6, <1>7, <1>8, <1>9, <1>10 DEF Next

-----------------------------------------------------------------------------
(***************************************************************************)
(* No router has an entry of its own.                                      *)
(***************************************************************************)
LEMMA SendFacts ==
  ASSUME TypeOK, NEW r \in Router, NEW R \in SUBSET Router, NEW lsu, Send(r, R, lsu)
  PROVE  /\ net \subseteq net' /\ excused \subseteq excused'
         /\ \A m \in net' : \/ m \in net
                            \/ m.lsu = lsu /\ m.from = r /\ m.to \in R
         /\ \A n \in R : \/ [from |-> r, to |-> n, lsu |-> lsu] \in net'
                         \/ <<r, n, lsu.rid>> \in excused'
<1> DEFINE reached == {n \in R : {r, n} \in up}
<1>1. net' = net \cup {[from |-> r, to |-> n, lsu |-> lsu] : n \in reached}
  BY DEF Send
<1>2. excused' = excused \cup {<<r, n, lsu.rid>> : n \in R \ reached}
  BY DEF Send
<1>3. reached \subseteq R
  OBVIOUS
<1> HIDE DEF reached
<1>4. net \subseteq net' /\ excused \subseteq excused'
  BY ONLY <1>1, <1>2
<1>5. \A m \in net' : m \in net \/ (m.lsu = lsu /\ m.from = r /\ m.to \in R)
  BY ONLY <1>1, <1>3
<1>6. \A n \in R : \/ [from |-> r, to |-> n, lsu |-> lsu] \in net'
                   \/ <<r, n, lsu.rid>> \in excused'
  <2>1. \A n \in reached : [from |-> r, to |-> n, lsu |-> lsu] \in net'
    BY ONLY <1>1
  <2>2. \A n \in R \ reached : <<r, n, lsu.rid>> \in excused'
    BY ONLY <1>2
  <2> QED
    BY ONLY <2>1, <2>2
<1> QED
  BY <1>4, <1>5, <1>6

LEMMA NeighbourStep ==
  ASSUME TypeOK, NotOwnNeighbour, [Next]_vars
  PROVE  NotOwnNeighbour'
<1>1. ASSUME NEW r \in Router, NEW n \in Router, handle_mospf_hello(r, n)
      PROVE  NotOwnNeighbour'
  <2>1. r # n
    <3>1. {r, n} \in Link
      BY <1>1 DEF handle_mospf_hello, TypeOK
    <3> QED
      BY <3>1, MospfAssumption
  <2> QED
    BY <1>1, <2>1 DEF handle_mospf_hello, NotOwnNeighbour, TypeOK
<1>2. ASSUME NEW r \in Router, checking_nbr_thread(r) PROVE NotOwnNeighbour'
  BY <1>2 DEF checking_nbr_thread, NotOwnNeighbour, TypeOK
<1>3. ASSUME nbrs' = nbrs PROVE NotOwnNeighbour'
  BY <1>3 DEF NotOwnNeighbour
<1> QED
  BY <1>1, <1>2, <1>3 DEF Next, vars, PeriodicLsu, SendOwed, ForwardLsu, DropLsu,
     StoreLsu, checking_database_thread, LinkUp, LinkDown, Lose

LEMMA EntryStep ==
  ASSUME TypeOK, NotOwnNeighbour, RightPlace, NoOwnEntry, [Next]_vars
  PROVE  RightPlace' /\ NoOwnEntry'
<1>1. ASSUME NEW r \in Router, send_mospf_lsu(r), db' = db PROVE RightPlace' /\ NoOwnEntry'
  <2>1. \A m \in net' : m \in net \/ (m.lsu.rid = r /\ m.to \in nbrs[r])
    <3> DEFINE own == [rid |-> r, seq |-> Numbered(r), nbrs |-> nbrs[r]]
    <3>1. Send(r, nbrs[r], own) /\ nbrs[r] \in SUBSET Router
      BY <1>1 DEF send_mospf_lsu, TypeOK
    <3>2. own.rid = r
      OBVIOUS
    <3> HIDE DEF own
    <3>3. \A m \in net' : m \in net \/ (m.lsu = own /\ m.to \in nbrs[r])
      BY <3>1, SendFacts
    <3> QED
      BY ONLY <3>2, <3>3
  <2> QED
    BY <1>1, <2>1 DEF RightPlace, NoOwnEntry, NotOwnNeighbour
<1>2. ASSUME NEW r \in Router, ForwardLsu(r) PROVE RightPlace' /\ NoOwnEntry'
  <2>1. Receivers(r, hand[r]) \in SUBSET Router /\ hand[r].rid \notin Receivers(r, hand[r])
    BY <1>2 DEF ForwardLsu, Receivers, TypeOK
  <2>2. \A m \in net' : m \in net \/ (m.lsu = hand[r] /\ m.to \in Receivers(r, hand[r]))
    BY <1>2, <2>1, SendFacts DEF ForwardLsu
  <2> QED
    BY <1>2, <2>1, <2>2 DEF ForwardLsu, RightPlace, NoOwnEntry
<1>3. ASSUME NEW m \in net, StoreLsu(m) PROVE RightPlace' /\ NoOwnEntry'
  <2>1. m.to \in Router /\ m.lsu \in Lsu /\ m.lsu.rid \in Router /\ m.lsu.rid # m.to
    BY DEF TypeOK, Message, Lsu, NoOwnEntry
  <2>2. \A r, o \in Router : db'[r][o] = IF r = m.to /\ o = m.lsu.rid THEN m.lsu ELSE db[r][o]
    BY <1>3, <2>1 DEF StoreLsu, TypeOK
  <2> QED
    BY <1>3, <2>1, <2>2 DEF StoreLsu, RightPlace, NoOwnEntry
<1>4. ASSUME NEW r \in Router, NEW o \in Router, checking_database_thread(r, o)
      PROVE  RightPlace' /\ NoOwnEntry'
  <2>1. \A r1, o1 \in Router : db'[r1][o1] \in {db[r1][o1], None}
    BY <1>4 DEF checking_database_thread, TypeOK
  <2> QED
    BY <1>4, <2>1 DEF checking_database_thread, RightPlace, NoOwnEntry
<1>5. ASSUME db' = db, net' \subseteq net PROVE RightPlace' /\ NoOwnEntry'
  BY <1>5 DEF RightPlace, NoOwnEntry
<1> QED
  BY <1>1, <1>2, <1>3, <1>4, <1>5 DEF Next, vars, PeriodicLsu, SendOwed, handle_mospf_hello,
     DropLsu, checking_nbr_thread, LinkUp, LinkDown, Lose

-----------------------------------------------------------------------------
(***************************************************************************)
(* Copies of an update: a step makes none but of a new update, which has   *)
(* a number above those of all the others.                                 *)
(***************************************************************************)
LEMMA NewCopies ==
  ASSUME TypeOK, [Next]_vars, NEW x, Copy(x)'
  PROVE  \/ Copy(x)
         \/ \E r \in Router : /\ send_mospf_lsu(r)
                              /\ x = [rid |-> r, seq |-> Numbered(r), nbrs |-> nbrs[r]]
<1> DEFINE Goal == \/ Copy(x)
                   \/ \E r \in Router :
                        /\ send_mospf_lsu(r)
                        /\ x = [rid |-> r, seq |-> Numbered(r), nbrs |-> nbrs[r]]
<1>1. ASSUME NEW r \in Router, send_mospf_lsu(r), db' = db, hand' = hand PROVE Goal
  <2>1. \A m \in net' : \/ m \in net
                        \/ m.lsu = [rid |-> r, seq |-> Numbered(r), nbrs |-> nbrs[r]]
    BY <1>1, SendFacts DEF send_mospf_lsu, TypeOK
  <2> QED
    BY <1>1, <2>1 DEF Copy
<1>2. ASSUME NEW r \in Router, ForwardLsu(r) PROVE Goal
  <2>1. Receivers(r, hand[r]) \in SUBSET Router
    BY DEF Receivers, TypeOK
  <2>2. \A m \in net' : m \in net \/ m.lsu = hand[r]
    BY <1>2, <2>1, SendFacts DEF ForwardLsu
  <2>3. \A q \in Router : hand'[q] \in {hand[q], None}
    BY <1>2 DEF ForwardLsu, TypeOK
  <2>4. x # None
    BY MospfAssumption DEF Copy
  <2> QED
    BY <1>2, <2>2, <2>3, <2>4 DEF ForwardLsu, Copy
<1>3. ASSUME NEW m \in net, StoreLsu(m) PROVE Goal
  <2>1. m.to \in Router /\ m.lsu.rid \in Router
    BY DEF TypeOK, Message, Lsu
  <2>2. /\ \A r, o \in Router : db'[r][o] \in {db[r][o], m.lsu}
        /\ \A r \in Router : hand'[r] \in {hand[r], m.lsu}
        /\ net' \subseteq net
    BY <1>3, <2>1 DEF StoreLsu, TypeOK
  <2> QED
    BY <2>2 DEF Copy
<1>4. ASSUME NEW r \in Router, NEW o \in Router, checking_database_thread(r, o) PROVE Goal
  <2>1. \A r1, o1 \in Router : db'[r1][o1] \in {db[r1][o1], None}
    BY <1>4 DEF checking_database_thread, TypeOK
  <2>2. x # None
    BY MospfAssumption DEF Copy
  <2> QED
    BY <1>4, <2>1, <2>2 DEF checking_database_thread, Copy
<1>5. ASSUME db' = db, hand' = hand, net' \subseteq net PROVE Goal
  BY <1>5 DEF Copy
<1> QED
  BY <1>1, <1>2, <1>3, <1>4, <1>5 DEF Next, vars, PeriodicLsu, SendOwed, handle_mospf_hello,
     DropLsu, checking_nbr_thread, LinkUp, LinkDown, Lose

LEMMA CopiesStep ==
  ASSUME TypeOK, CopiesAgree, [Next]_vars
  PROVE  CopiesAgree'
<1> DEFINE Own(r) == [rid |-> r, seq |-> Numbered(r), nbrs |-> nbrs[r]]
<1>1. ASSUME NEW r \in Router, send_mospf_lsu(r), nbrs' = nbrs,
             \A o \in Router : o # r => owes'[o] = owes[o]
      PROVE  CopiesAgree'
  <2>1. \A x : Copy(x)' => Copy(x) \/ x = Own(r)
    <3>1. \A q \in Router : send_mospf_lsu(q) => q = r
      BY <1>1 DEF send_mospf_lsu, Numbered, TypeOK
    <3> QED
      BY <3>1, NewCopies
  <2>2. /\ sequence_num'[r] = sequence_num[r] + 1
        /\ \A o \in Router : o # r => sequence_num'[o] = sequence_num[o]
    BY <1>1 DEF send_mospf_lsu, Numbered, TypeOK
  <2>3. /\ Own(r).rid = r /\ Own(r).seq = sequence_num[r] + 1 /\ Own(r).nbrs = nbrs[r]
    BY DEF Numbered
  <2>4. \A x \in Lsu : x.rid \in Router /\ x.seq \in Nat
    BY DEF Lsu
  <2>5. sequence_num \in [Router -> Nat]
    BY DEF TypeOK
  <2> HIDE DEF Own
  <2>6. \A x, y \in Lsu : Copy(x)' /\ Copy(y)' /\ x.rid = y.rid /\ x.seq = y.seq => x = y
    BY <2>1, <2>3, <2>4, <2>5 DEF CopiesAgree
  <2>7. \A x \in Lsu : Copy(x)' =>
          /\ x.seq <= sequence_num'[x.rid]
          /\ x.seq = sequence_num'[x.rid] /\ owes'[x.rid] = {} => x.nbrs = nbrs'[x.rid]
    BY <1>1, <2>1, <2>2, <2>3, <2>4, <2>5 DEF CopiesAgree
  <2> QED
    BY <2>6, <2>7 DEF CopiesAgree
<1>2. ASSUME sequence_num' = sequence_num,
             \A o \in Router : owes'[o] = {} => owes[o] = {} /\ nbrs'[o] = nbrs[o]
      PROVE  CopiesAgree'
  <2>1. \A x : Copy(x)' => Copy(x)
    <3>1. \A r \in Router : ~send_mospf_lsu(r)
      BY <1>2 DEF send_mospf_lsu, Numbered, TypeOK
    <3> QED
      BY <3>1, NewCopies
  <2>2. \A x \in Lsu : x.rid \in Router
    BY DEF Lsu
  <2> QED
    BY <1>2, <2>1, <2>2 DEF CopiesAgree
<1>3. ASSUME NEW r \in Router, NEW n \in Router, handle_mospf_hello(r, n) PROVE CopiesAgree'
  <2>1. \A o \in Router : owes'[o] = {} => owes[o] = {} /\ nbrs'[o] = nbrs[o]
    BY <1>3 DEF handle_mospf_hello, TypeOK
  <2> QED
    BY <1>2, <1>3, <2>1 DEF handle_mospf_hello
<1>4. ASSUME NEW r \in Router, checking_nbr_thread(r) PROVE CopiesAgree'
  <2>1. \A o \in Router : owes'[o] = {} => owes[o] = {} /\ nbrs'[o] = nbrs[o]
    BY <1>4 DEF checking_nbr_thread, Owing, TypeOK
  <2> QED
    BY <1>2, <1>4, <2>1 DEF checking_nbr_thread
<1>5. ASSUME NEW r \in Router, PeriodicLsu(r) PROVE CopiesAgree'
  BY <1>1, <1>5 DEF PeriodicLsu
<1>6. ASSUME NEW r \in Router, NEW t \in {"loop", "nbr"}, SendOwed(r, t) PROVE CopiesAgree'
  <2>1. \A o \in Router : o # r => owes'[o] = owes[o]
    BY <1>6 DEF SendOwed, TypeOK
  <2> QED
    BY <1>1, <1>6, <2>1 DEF SendOwed
<1>7. ASSUME UNCHANGED <<sequence_num, owes, nbrs>> PROVE CopiesAgree'
  BY <1>2, <1>7
<1> QED
  BY <1>3, <1>4, <1>5, <1>6, <1>7 DEF Next, vars, ForwardLsu, DropLsu, StoreLsu,
     checking_database_thread, LinkUp, LinkDown, Lose

-----------------------------------------------------------------------------
(***************************************************************************)
(* Flooding.  What keeps an update on its way to a neighbour is the hand   *)
(* of the loop, then the message, then the entry of the neighbour.         *)
(***************************************************************************)
Owed(r, o, n) == /\ n \in nbrs[r] \ {o} /\ db[r][o] # None
                 /\ <<r, n, o>> \notin excused

LEMMA OwedIsOnItsWay ==
  ASSUME FloodingReaches, ~corrupt, NEW r \in Router, NEW o \in Router, NEW n, Owed(r, o, n)
  PROVE  OnItsWay(r, n, db[r][o])
  BY DEF FloodingReaches, Owed

LEMMA FloodingFromOwed ==
  ASSUME \A r, o \in Router : \A n : Owed(r, o, n)' => OnItsWay(r, n, db[r][o])'
  PROVE  FloodingReaches'
  BY DEF FloodingReaches, Owed

LEMMA ForwardFloods ==
  ASSUME TypeOK, RightPlace, FloodingReaches, NEW q \in Router, ForwardLsu(q)
  PROVE  FloodingReaches'
<1> SUFFICES ASSUME NEW r \in Router, NEW o \in Router, NEW n, Owed(r, o, n)'
             PROVE  OnItsWay(r, n, db[r][o])'
  BY FloodingFromOwed
<1>1. Receivers(q, hand[q]) \in SUBSET Router
  BY DEF Receivers, TypeOK
<1>2. /\ net \subseteq net' /\ excused \subseteq excused'
      /\ \A k \in Receivers(q, hand[q]) :
           \/ [from |-> q, to |-> k, lsu |-> hand[q]] \in net'
           \/ <<q, k, hand[q].rid>> \in excused'
  BY <1>1, SendFacts DEF ForwardLsu
<1>3. Owed(r, o, n) /\ db' = db /\ nbrs' = nbrs /\ ~corrupt
  BY <1>2 DEF ForwardLsu, Owed
<1>4. OnItsWay(r, n, db[r][o])
  BY <1>3, OwedIsOnItsWay
<1>5. CASE hand[r] = db[r][o] /\ r = q
  <2>1. hand[q].rid = o /\ n \in Receivers(q, hand[q])
    BY <1>3, <1>5 DEF Owed, RightPlace, Receivers
  <2>2. [from |-> r, to |-> n, lsu |-> db[r][o]] \in net'
    BY <1>2, <1>5, <2>1 DEF Owed
  <2>3. db[r][o].seq >= db[r][o].seq
    BY <1>3 DEF Owed, TypeOK, Lsu
  <2> QED
    BY <1>3, <2>2, <2>3 DEF OnItsWay
<1>6. CASE ~(hand[r] = db[r][o] /\ r = q)
  <2>1. hand[r] = db[r][o] => hand'[r] = db[r][o]
    BY <1>6 DEF ForwardLsu, TypeOK
  <2> QED
    BY <1>2, <1>3, <1>4, <2>1 DEF OnItsWay
<1> QED
  BY <1>5, <1>6

LEMMA DropFloods ==
  ASSUME TypeOK, RightPlace, FloodingReaches, NEW d \in net, DropLsu(d)
  PROVE  FloodingReaches'
<1> SUFFICES ASSUME NEW r \in Router, NEW o \in Router, NEW n, Owed(r, o, n)'
             PROVE  OnItsWay(r, n, db[r][o])'
  BY FloodingFromOwed
<1>1. Owed(r, o, n) /\ db' = db /\ nbrs' = nbrs /\ hand' = hand /\ ~corrupt
  BY DEF DropLsu, Owed, LoopIdle
<1>2. OnItsWay(r, n, db[r][o])
  BY <1>1, OwedIsOnItsWay
<1>3. db[r][o].rid = o /\ db[r][o].seq \in Nat
  BY <1>1 DEF Owed, RightPlace, TypeOK, Lsu
<1>4. CASE d.to = n /\ d.lsu.rid = o /\ d.lsu.seq >= db[r][o].seq
  <2>1. n \in Router /\ d.lsu.seq \in Nat
    BY <1>4 DEF TypeOK, Message, Lsu
  <2>2. db[n][o] # None /\ d.lsu.seq <= db[n][o].seq
    <3>1. db[n][o] # None /\ ~(d.lsu.seq > db[n][o].seq)
      BY <1>4 DEF DropLsu, Newer
    <3>2. db[n][o].seq \in Nat
      BY <2>1, <3>1 DEF TypeOK, Lsu
    <3> QED
      BY <2>1, <3>1, <3>2
  <2>3. db[n][o].seq \in Nat
    BY <2>1, <2>2 DEF TypeOK, Lsu
  <2>4. db[n][o].seq >= db[r][o].seq
    BY <1>3, <1>4, <2>1, <2>2, <2>3
  <2> QED
    BY <1>1, <1>3, <2>2, <2>4 DEF OnItsWay
<1>5. CASE ~(d.to = n /\ d.lsu.rid = o /\ d.lsu.seq >= db[r][o].seq)
  <2>1. net' = net \ {d}
    BY DEF DropLsu
  <2> QED
    BY <1>1, <1>2, <1>3, <1>5, <2>1 DEF OnItsWay
<1> QED
  BY <1>4, <1>5

LEMMA StoreFloods ==
  ASSUME TypeOK, RightPlace, FloodingReaches, NEW d \in net, StoreLsu(d)
  PROVE  FloodingReaches'
<1> SUFFICES ASSUME NEW r \in Router, NEW o \in Router, NEW n, Owed(r, o, n)'
             PROVE  OnItsWay(r, n, db[r][o])'
  BY FloodingFromOwed
<1>1. /\ d.to \in Router /\ d.lsu \in Lsu /\ d.lsu.rid \in Router
      /\ d.lsu.seq \in Nat /\ d.lsu # None
  BY MospfAssumption DEF TypeOK, Message, Lsu
<1>2. \A q, k \in Router :
        db'[q][k] = IF q = d.to /\ k = d.lsu.rid THEN d.lsu ELSE db[q][k]
  BY <1>1 DEF StoreLsu, TypeOK
<1>3. /\ hand[d.to] = None /\ hand'[d.to] = d.lsu
      /\ \A q \in Router : q # d.to => hand'[q] = hand[q]
  BY <1>1 DEF StoreLsu, LoopIdle, TypeOK
<1>4. /\ net' = net \ {d} /\ nbrs' = nbrs /\ ~corrupt
      /\ excused' = excused \ {<<d.to, k, d.lsu.rid>> : k \in Router}
  BY DEF StoreLsu, LoopIdle
<1>5. n \in Router
  BY <1>4 DEF Owed, TypeOK
<1>6. CASE r = d.to /\ o = d.lsu.rid
  BY <1>2, <1>3, <1>6 DEF OnItsWay
<1>7. CASE ~(r = d.to /\ o = d.lsu.rid)
  <2>1. db'[r][o] = db[r][o]
    BY <1>2, <1>7
  <2>2. Owed(r, o, n)
    <3>1. <<r, n, o>> \notin {<<d.to, k, d.lsu.rid>> : k \in Router}
      BY <1>7
    <3> QED
      BY <1>4, <2>1, <3>1 DEF Owed
  <2>3. OnItsWay(r, n, db[r][o])
    BY <1>4, <2>2, OwedIsOnItsWay
  <2>4. db[r][o].rid = o /\ db[r][o].seq \in Nat /\ db[r][o] # None
    BY <2>2 DEF Owed, RightPlace, TypeOK, Lsu
  <2>5. CASE n = d.to /\ o = d.lsu.rid /\ d.lsu.seq >= db[r][o].seq
    BY <1>1, <1>2, <1>5, <2>1, <2>4, <2>5 DEF OnItsWay
  <2>6. CASE db[n][o] # None /\ db[n][o].seq >= db[r][o].seq
    <3>1. CASE n = d.to /\ o = d.lsu.rid
      <4>1. db[n][o].seq \in Nat
        BY <1>5, <2>6 DEF TypeOK, Lsu
      <4>2. d.lsu.seq > db[n][o].seq
        BY <2>6, <3>1 DEF StoreLsu, Newer
      <4> QED
        BY <1>1, <2>4, <2>5, <2>6, <3>1, <4>1, <4>2
    <3>2. CASE ~(n = d.to /\ o = d.lsu.rid)
      <4>1. db'[n][o] = db[n][o]
        BY <1>2, <1>5, <3>2
      <4> QED
        BY <2>1, <2>4, <2>6, <4>1 DEF OnItsWay
    <3> QED
      BY <3>1, <3>2
  <2>7. CASE hand[r] = db[r][o]
    <3>1. hand'[r] = db[r][o]
      BY <1>3, <2>4, <2>7
    <3> QED
      BY <2>1, <3>1 DEF OnItsWay
  <2>8. CASE \E m \in net : /\ m.from = r /\ m.to = n
                            /\ m.lsu.rid = o /\ m.lsu.seq >= db[r][o].seq
    <3>1. PICK m \in net : /\ m.from = r /\ m.to = n
                           /\ m.lsu.rid = o /\ m.lsu.seq >= db[r][o].seq
      BY <2>8
    <3>2. CASE m = d
      BY <2>5, <3>1, <3>2
    <3>3. CASE m # d
      <4>1. m \in net'
        BY <1>4, <3>3
      <4> QED
        BY <2>1, <2>4, <3>1, <4>1 DEF OnItsWay
    <3> QED
      BY <3>2, <3>3
  <2> QED
    BY <2>3, <2>4, <2>6, <2>7, <2>8 DEF OnItsWay
<1> QED
  BY <1>6, <1>7

LEMMA LossFloods ==
  ASSUME TypeOK, RightPlace, FloodingReaches, NEW lost \in SUBSET net,
         net' = net \ lost, excused' = Excuse(lost), ~corrupt,
         db' = db, nbrs' = nbrs, hand' = hand
  PROVE  FloodingReaches'
<1> SUFFICES ASSUME NEW r \in Router, NEW o \in Router, NEW n, Owed(r, o, n)'
             PROVE  OnItsWay(r, n, db[r][o])'
  BY FloodingFromOwed
<1>1. excused \subseteq excused' /\ \A m \in lost : <<m.from, m.to, m.lsu.rid>> \in excused'
  BY DEF Excuse
<1>2. Owed(r, o, n)
  BY <1>1 DEF Owed
<1>3. OnItsWay(r, n, db[r][o]) /\ db[r][o].rid = o
  BY <1>2, OwedIsOnItsWay DEF Owed, RightPlace
<1>4. ASSUME NEW m \in net, m.from = r, m.to = n, m.lsu.rid = o PROVE m \in net'
  BY <1>1, <1>4 DEF Owed
<1> QED
  BY <1>3, <1>4 DEF OnItsWay

LEMMA FloodingStep ==
  ASSUME TypeOK, RightPlace, FloodingReaches, [Next]_vars
  PROVE  FloodingReaches'
<1>1. ASSUME net \subseteq net', excused \subseteq excused', ~corrupt,
             db' = db, hand' = hand, \A r \in Router : nbrs'[r] \subseteq nbrs[r]
      PROVE  FloodingReaches'
  <2> SUFFICES ASSUME NEW r \in Router, NEW o \in Router, NEW n, Owed(r, o, n)'
               PROVE  OnItsWay(r, n, db[r][o])'
    BY FloodingFromOwed
  <2>1. Owed(r, o, n)
    BY <1>1 DEF Owed
  <2>2. OnItsWay(r, n, db[r][o])
    BY <1>1, <2>1, OwedIsOnItsWay
  <2> QED
    BY <1>1, <2>2 DEF OnItsWay
<1>2. ASSUME NEW r \in Router, send_mospf_lsu(r), ~corrupt, UNCHANGED <<db, hand, nbrs>>
      PROVE  FloodingReaches'
  <2>1. net \subseteq net' /\ excused \subseteq excused'
    BY <1>2, SendFacts DEF send_mospf_lsu, TypeOK
  <2> QED
    BY <1>1, <1>2, <2>1
<1>3. ASSUME NEW q \in Router, checking_nbr_thread(q) PROVE FloodingReaches'
  <2>1. \A r \in Router : nbrs'[r] \subseteq nbrs[r]
    BY <1>3 DEF checking_nbr_thread, TypeOK
  <2> QED
    BY <1>1, <1>3, <2>1 DEF checking_nbr_thread
<1>4. ASSUME NEW q \in Router, NEW k \in Router, handle_mospf_hello(q, k) PROVE FloodingReaches'
  <2> SUFFICES ASSUME NEW r \in Router, NEW o \in Router, NEW n, Owed(r, o, n)'
               PROVE  OnItsWay(r, n, db[r][o])'
    BY FloodingFromOwed
  <2>1. ~corrupt /\ UNCHANGED <<db, hand, net>>
    BY <1>4 DEF handle_mospf_hello, LoopIdle
  <2>2. ~(r = q /\ n = k)
    <3>1. <<q, k, o>> \in excused'
      BY <1>4 DEF handle_mospf_hello
    <3> QED
      BY <3>1 DEF Owed
  <2>3. n \in nbrs[r]
    BY <1>4, <2>2 DEF handle_mospf_hello, Owed, TypeOK
  <2>4. excused \subseteq excused'
    BY <1>4 DEF handle_mospf_hello
  <2>5. Owed(r, o, n)
    BY <2>1, <2>3, <2>4 DEF Owed
  <2>6. OnItsWay(r, n, db[r][o])
    BY <2>1, <2>5, OwedIsOnItsWay
  <2> QED
    BY <2>1, <2>6 DEF OnItsWay
<1>5. ASSUME NEW q \in Router, NEW k \in Router, checking_database_thread(q, k)
      PROVE  FloodingReaches'
  <2> SUFFICES ASSUME NEW r \in Router, NEW o \in Router, NEW n, Owed(r, o, n)'
               PROVE  OnItsWay(r, n, db[r][o])'
    BY FloodingFromOwed
  <2>1. ~corrupt /\ UNCHANGED <<hand, net, nbrs>>
    BY <1>5 DEF checking_database_thread, Fault
  <2>2. \A r1, o1 \in Router :
          db'[r1][o1] = IF r1 = q /\ o1 = k THEN None ELSE db[r1][o1]
    BY <1>5 DEF checking_database_thread, TypeOK
  <2>3. excused \subseteq excused' /\ \A r1 \in Router : <<r1, q, k>> \in excused'
    BY <1>5 DEF checking_database_thread
  <2>4. ~(r = q /\ o = k) /\ ~(n = q /\ o = k) /\ db'[r][o] = db[r][o]
    BY <2>2, <2>3 DEF Owed
  <2>5. Owed(r, o, n)
    BY <2>1, <2>3, <2>4 DEF Owed
  <2>6. OnItsWay(r, n, db[r][o]) /\ db[r][o].rid = o /\ n \in Router
    BY <2>1, <2>5, OwedIsOnItsWay DEF Owed, RightPlace, TypeOK
  <2>7. db'[n][o] = db[n][o]
    BY <2>2, <2>4, <2>6
  <2> QED
    BY <2>1, <2>4, <2>6, <2>7 DEF OnItsWay
<1>6. ASSUME LinkDown \/ Lose PROVE FloodingReaches'
  <2>1. PICK lost \in SUBSET net : net' = net \ lost /\ excused' = Excuse(lost)
    BY <1>6 DEF LinkDown, Lose
  <2> QED
    BY <1>6, <2>1, LossFloods DEF LinkDown, Lose, Fault
<1>7. ASSUME LinkUp PROVE FloodingReaches'
  BY <1>1, <1>7 DEF LinkUp
<1>8. ASSUME UNCHANGED vars PROVE FloodingReaches'
  BY <1>8 DEF vars, FloodingReaches, OnItsWay
<1>9. ASSUME NEW r \in Router, PeriodicLsu(r) \/ \E t \in {"loop", "nbr"} : SendOwed(r, t)
      PROVE  FloodingReaches'
  BY <1>2, <1>9 DEF PeriodicLsu, SendOwed
<1> QED
  BY <1>3, <1>4, <1>5, <1>6, <1>7, <1>8, <1>9, ForwardFloods, DropFloods, StoreFloods DEF Next

-----------------------------------------------------------------------------
LEMMA NextIInv == IInv /\ [Next]_vars => IInv'
  BY TypeStep, NeighbourStep, EntryStep, CopiesStep, FloodingStep DEF IInv

LEMMA Invariance == Spec => []IInv
<1> QED
  BY InitIInv, NextIInv, PTL DEF Spec

LEMMA CopiesAreEntries == IInv => EntriesAgree
<1> SUFFICES ASSUME IInv, NEW r \in Router, NEW q \in Router, NEW o \in Router, db[r][o] # None
             PROVE  /\ db[q][o] # None /\ db[q][o].seq = db[r][o].seq => db[q][o] = db[r][o]
                    /\ db[r][o].seq = sequence_num[o] /\ owes[o] = {} => db[r][o].nbrs = nbrs[o]
  BY DEF EntriesAgree
<1>1. \A k \in Router : db[k][o] # None => Copy(db[k][o]) /\ db[k][o].rid = o /\ db[k][o] \in Lsu
  BY DEF IInv, Copy, RightPlace, TypeOK
<1> QED
  BY <1>1 DEF IInv, CopiesAgree

(***************************************************************************)
(* The state of the daemons stays within its types, for every area.        *)
(***************************************************************************)
THEOREM TypeCorrect == Spec => []TypeOK
<1>1. IInv => TypeOK
  BY DEF IInv
<1> QED
  BY <1>1, Invariance, PTL

(***************************************************************************)
(* No router ever holds an entry of its own, or is sent one: there is no   *)
(* room for it in router_list (init_graph).                                *)
(***************************************************************************)
THEOREM NeverOwnEntry == Spec => []NoOwnEntry
<1>1. IInv => NoOwnEntry
  BY DEF IInv
<1> QED
  BY <1>1, Invariance, PTL

(***************************************************************************)
(* Databases agree on every update, and with its originator on the last    *)
(* one, whatever is lost, reordered or expires (send_mospf_lsu,            *)
(* handle_mospf_lsu).                                                      *)
(***************************************************************************)
THEOREM DatabasesAgree == Spec => []EntriesAgree
<1> QED
  BY Invariance, CopiesAreEntries, PTL

(***************************************************************************)
(* Flooding leaves out no neighbour, in every area, for every number of    *)
(* updates and of losses (handle_mospf_lsu).                               *)
(***************************************************************************)
THEOREM FloodingIsComplete == Spec => []FloodingReaches
<1>1. IInv => FloodingReaches
  BY DEF IInv
<1> QED
  BY <1>1, Invariance, PTL

-----------------------------------------------------------------------------
(***************************************************************************)
(* A set of naturals has a least element.                                  *)
(***************************************************************************)
LEMMA LeastNatural ==
  ASSUME NEW T, T \subseteq Nat, T # {}
  PROVE  \E m \in T : \A n \in T : m <= n
<1>1. PICK m \in T : \A n \in T : ~(<<n, m>> \in OpToRel(<, Nat))
  BY NatLessThanWellFounded, WFMin
<1>2. \A n \in T : ~(n < m)
  BY <1>1 DEF OpToRel
<1> QED
  BY <1>2

(***************************************************************************)
(* The balls around a router exist, one after the other.                   *)
(***************************************************************************)
Widened(nodes, edges, near) ==
  near \cup {v \in nodes : \E u \in near : Adjacent(edges, u, v)}

Balls(b, nodes, edges, source, last) ==
  b = [n \in 0..last |-> IF n = 0 THEN {source} ELSE Widened(nodes, edges, b[n - 1])]

LEMMA BallsExist ==
  ASSUME NEW nodes, NEW edges, NEW source, NEW last \in Nat
  PROVE  \E b : Balls(b, nodes, edges, source, last)
<1> DEFINE T == {m \in Nat : ~\E b : Balls(b, nodes, edges, source, m)}
<1>1. SUFFICES ASSUME last \in T
               PROVE  FALSE
  OBVIOUS
<1>2. PICK m \in T : \A k \in T : m <= k
  <2>1. T \subseteq Nat /\ T # {}
    BY <1>1
  <2> HIDE DEF T
  <2> QED
    BY <2>1, LeastNatural
<1>3. CASE m = 0
  <2> DEFINE b == [n \in 0..0 |-> {source}]
  <2>1. Balls(b, nodes, edges, source, 0)
    BY DEF Balls
  <2> QED
    BY <1>2, <1>3, <2>1
<1>4. CASE m # 0
  <2>1. m - 1 \in Nat /\ m - 1 \notin T
    BY <1>2, <1>4
  <2>2. PICK b : Balls(b, nodes, edges, source, m - 1)
    BY <2>1
  <2> DEFINE g == [n \in 0..m |-> IF n = m THEN Widened(nodes, edges, b[m - 1]) ELSE b[n]]
             h == [n \in 0..m |-> IF n = 0 THEN {source} ELSE Widened(nodes, edges, g[n - 1])]
  <2>3. ASSUME NEW n \in 0..m
        PROVE  g[n] = h[n]
    <3>1. CASE n = 0
      BY <1>4, <2>1, <2>2, <3>1 DEF Balls
    <3>2. CASE n # 0 /\ n = m
      <4>1. m - 1 \in 0..m /\ m - 1 # m
        BY <2>1
      <4> QED
        BY <3>2, <4>1
    <3>3. CASE n # 0 /\ n # m
      <4>1. n \in 0..(m - 1) /\ n - 1 \in 0..m /\ n - 1 # m
        BY <2>1, <3>3
      <4>2. b[n] = Widened(nodes, edges, b[n - 1])
        BY <2>2, <3>3, <4>1 DEF Balls
      <4> QED
        BY <3>3, <4>1, <4>2
    <3> QED
      BY <3>1, <3>2, <3>3
  <2>4. Balls(g, nodes, edges, source, m)
    <3>1. g = h
      BY <2>3
    <3> QED
      BY <3>1 DEF Balls
  <2> QED
    BY <1>2, <2>4
<1> QED
  BY <1>3, <1>4

LEMMA BallFacts ==
  ASSUME NEW nodes, IsFiniteSet(nodes), NEW edges, NEW source
  PROVE  /\ Cardinality(nodes) \in Nat
         /\ Ball(nodes, edges, source)[0] = {source}
         /\ \A n \in 1..Cardinality(nodes) :
              Ball(nodes, edges, source)[n] =
                Widened(nodes, edges, Ball(nodes, edges, source)[n - 1])
<1>1. PICK last : last = Cardinality(nodes)
  OBVIOUS
<1>2. last \in Nat
  BY <1>1, FS_CardinalityType
<1>3. PICK a : Balls(a, nodes, edges, source, last)
  BY <1>2, BallsExist
<1>4. PICK b : b = CHOOSE x : Balls(x, nodes, edges, source, last)
  OBVIOUS
<1>5. Balls(b, nodes, edges, source, last)
  BY <1>3, <1>4
<1>6. Ball(nodes, edges, source) = b
  BY <1>1, <1>4 DEF Ball, Balls, Widened
<1>7. b[0] = {source}
  BY <1>2, <1>5 DEF Balls
<1>8. ASSUME NEW n \in 1..last
      PROVE  b[n] = Widened(nodes, edges, b[n - 1])
  <2>1. n \in 0..last /\ n # 0
    BY <1>2
  <2> QED
    BY ONLY <1>5, <2>1 DEF Balls
<1> QED
  BY <1>1, <1>2, <1>6, <1>7, <1>8

LEMMA BallGrows ==
  ASSUME NEW nodes, IsFiniteSet(nodes), NEW edges, NEW source,
         NEW m \in 0..Cardinality(nodes), NEW n \in m..Cardinality(nodes)
  PROVE  Ball(nodes, edges, source)[m] \subseteq Ball(nodes, edges, source)[n]
<1>1. PICK b, last : b = Ball(nodes, edges, source) /\ last = Cardinality(nodes)
  OBVIOUS
<1>2. last \in Nat /\ \A k \in 1..last : b[k - 1] \subseteq b[k]
  BY <1>1, BallFacts DEF Widened
<1> DEFINE T == {k \in m..last : ~(b[m] \subseteq b[k])}
<1>3. SUFFICES ASSUME T # {}
               PROVE  FALSE
  BY <1>1
<1>4. PICK k \in T : \A i \in T : k <= i
  <2>1. T \subseteq Nat
    BY <1>1, <1>2
  <2> HIDE DEF T
  <2> QED
    BY <1>3, <2>1, LeastNatural
<1>5. k # m /\ k \in 1..last /\ k - 1 \in m..last
  BY <1>1, <1>2, <1>4
<1>6. k - 1 \notin T
  BY <1>2, <1>4, <1>5
<1> QED
  BY <1>2, <1>4, <1>5, <1>6

LEMMA BallInNodes ==
  ASSUME NEW nodes, IsFiniteSet(nodes), NEW edges, NEW source \in nodes,
         NEW n \in 0..Cardinality(nodes)
  PROVE  Ball(nodes, edges, source)[n] \subseteq nodes
<1>1. PICK b, last : b = Ball(nodes, edges, source) /\ last = Cardinality(nodes)
  OBVIOUS
<1>2. /\ last \in Nat /\ b[0] = {source}
      /\ \A k \in 1..last : b[k] \subseteq b[k - 1] \cup nodes
  BY <1>1, BallFacts DEF Widened
<1> DEFINE T == {k \in 0..last : ~(b[k] \subseteq nodes)}
<1>3. SUFFICES ASSUME T # {}
               PROVE  FALSE
  BY <1>1
<1>4. PICK k \in T : \A i \in T : k <= i
  <2>1. T \subseteq Nat
    BY <1>2
  <2> HIDE DEF T
  <2> QED
    BY <1>3, <2>1, LeastNatural
<1>5. k \in 1..last /\ k - 1 \in 0..last
  BY <1>2, <1>4
<1>6. k - 1 \notin T
  BY <1>2, <1>4, <1>5
<1> QED
  BY <1>2, <1>4, <1>5, <1>6

(***************************************************************************)
(* The distance of a router that is reached is the number of the first     *)
(* ball it is in.                                                          *)
(***************************************************************************)
LEMMA DistanceFacts ==
  ASSUME NEW nodes, IsFiniteSet(nodes), NEW edges, NEW source,
         NEW n \in 0..Cardinality(nodes), NEW v \in Ball(nodes, edges, source)[n]
  PROVE  /\ v \in Reached(nodes, edges, source)
         /\ Distance(nodes, edges, source, v) \in 0..n
         /\ v \in Ball(nodes, edges, source)[Distance(nodes, edges, source, v)]
         /\ \A m \in 0..(Distance(nodes, edges, source, v) - 1) :
              v \notin Ball(nodes, edges, source)[m]
<1>1. PICK b, last, d : /\ b = Ball(nodes, edges, source) /\ last = Cardinality(nodes)
                        /\ d = Distance(nodes, edges, source, v)
  OBVIOUS
<1>2. last \in Nat
  BY <1>1, BallFacts
<1>3. \A m \in 0..last : \A k \in m..last : b[m] \subseteq b[k]
  BY <1>1, BallGrows
<1>4. v \in b[last]
  BY <1>1, <1>2, <1>3
<1> DEFINE T == {k \in 0..last : v \in b[k]}
<1>5. PICK k \in T : \A i \in T : k <= i
  <2>1. T \subseteq Nat /\ T # {}
    BY <1>1, <1>2
  <2> HIDE DEF T
  <2> QED
    BY <2>1, LeastNatural
<1>6. k \in 0..last /\ v \in b[k] /\ (k > 0 => v \notin b[k - 1])
  BY <1>2, <1>5
<1>7. d = CHOOSE i \in 0..last : v \in b[i] /\ (i > 0 => v \notin b[i - 1])
  BY <1>1 DEF Distance
<1>8. d \in 0..last /\ v \in b[d] /\ (d > 0 => v \notin b[d - 1])
  BY <1>6, <1>7
<1>9. \A m \in 0..(d - 1) : v \notin b[m]
  <2>1. \A m \in 0..(d - 1) : m \in 0..last /\ d - 1 \in m..last /\ d > 0
    BY <1>2, <1>8
  <2> QED
    BY <1>3, <1>8, <2>1
<1>10. d \in 0..n
  BY <1>1, <1>2, <1>8, <1>9
<1> QED
  BY <1>1, <1>4, <1>8, <1>9, <1>10 DEF Reached

LEMMA ReachedDistance ==
  ASSUME NEW nodes, IsFiniteSet(nodes), NEW edges, NEW source,
         NEW v \in Reached(nodes, edges, source)
  PROVE  /\ Distance(nodes, edges, source, v) \in 0..Cardinality(nodes)
         /\ v \in Ball(nodes, edges, source)[Distance(nodes, edges, source, v)]
         /\ \A m \in 0..(Distance(nodes, edges, source, v) - 1) :
              v \notin Ball(nodes, edges, source)[m]
<1>1. Cardinality(nodes) \in 0..Cardinality(nodes)
  BY BallFacts
<1>2. v \in Ball(nodes, edges, source)[Cardinality(nodes)]
  BY DEF Reached
<1> QED
  BY <1>1, <1>2, DistanceFacts

(***************************************************************************)
(* Paths are taken apart at their first hop too, though Ball adds to them  *)
(* at their end.                                                           *)
(***************************************************************************)
LEMMA HopReaches ==
  ASSUME NEW nodes, IsFiniteSet(nodes), NEW edges, NEW source, NEW h \in nodes,
         Adjacent(edges, source, h), NEW n \in 1..Cardinality(nodes)
  PROVE  Ball(nodes, edges, h)[n - 1] \subseteq Ball(nodes, edges, source)[n]
<1>1. PICK b, c, last : /\ b = Ball(nodes, edges, source) /\ c = Ball(nodes, edges, h)
                        /\ last = Cardinality(nodes)
  OBVIOUS
<1>2. /\ last \in Nat /\ b[0] = {source} /\ c[0] = {h}
      /\ \A k \in 1..last : /\ b[k] = Widened(nodes, edges, b[k - 1])
                            /\ c[k] = Widened(nodes, edges, c[k - 1])
  BY <1>1, BallFacts
<1> DEFINE T == {k \in 1..last : ~(c[k - 1] \subseteq b[k])}
<1>3. SUFFICES ASSUME T # {}
               PROVE  FALSE
  BY <1>1
<1>4. PICK k \in T : \A i \in T : k <= i
  <2>1. T \subseteq Nat
    BY <1>2
  <2> HIDE DEF T
  <2> QED
    BY <1>3, <2>1, LeastNatural
<1>5. k \in 1..last /\ ~(c[k - 1] \subseteq b[k])
  BY <1>4
<1>6. CASE k = 1
  <2>1. b[1] = Widened(nodes, edges, {source})
    BY <1>2, <1>5, <1>6
  <2> QED
    BY <1>2, <1>5, <1>6, <2>1 DEF Widened
<1>7. CASE k # 1
  <2>1. PICK j : j = k - 1
    OBVIOUS
  <2>2. j \in 1..last /\ j < k
    BY <1>2, <1>5, <1>7, <2>1
  <2>3. c[j - 1] \subseteq b[j]
    BY <1>4, <1>5, <2>2
  <2>4. c[j] = Widened(nodes, edges, c[j - 1]) /\ b[k] = Widened(nodes, edges, b[j])
    BY <1>2, <1>5, <2>1, <2>2
  <2>5. c[j] \subseteq b[k]
    BY <2>3, <2>4 DEF Widened
  <2> QED
    BY <1>5, <2>1, <2>5
<1> QED
  BY <1>6, <1>7

LEMMA ReachedByHop ==
  ASSUME NEW nodes, IsFiniteSet(nodes), NEW edges, NEW source,
         NEW n \in 1..Cardinality(nodes), NEW v \in Ball(nodes, edges, source)[n], v # source
  PROVE  \E h \in nodes : Adjacent(edges, source, h) /\ v \in Ball(nodes, edges, h)[n - 1]
<1>1. PICK b, last : b = Ball(nodes, edges, source) /\ last = Cardinality(nodes)
  OBVIOUS
<1>2. /\ last \in Nat /\ b[0] = {source}
      /\ \A k \in 1..last : b[k] = Widened(nodes, edges, b[k - 1])
  BY <1>1, BallFacts
<1> DEFINE Through(h, u, k) == /\ Adjacent(edges, source, h)
                               /\ u \in Ball(nodes, edges, h)[k - 1]
           T == {k \in 1..last : \E u \in b[k] \ {source} : ~\E h \in nodes : Through(h, u, k)}
<1>3. SUFFICES ASSUME T # {}
               PROVE  FALSE
  BY <1>1
<1>4. PICK k \in T : \A i \in T : k <= i
  <2>1. T \subseteq Nat
    BY <1>2
  <2> HIDE DEF T
  <2> QED
    BY <1>3, <2>1, LeastNatural
<1>5. PICK u \in b[k] \ {source} : \A h \in nodes : ~Through(h, u, k)
  BY <1>4
<1>6. k \in 1..last /\ \A i \in 1..last : i < k => i \notin T
  BY <1>2, <1>4
<1>7. \A h \in nodes : h \in Ball(nodes, edges, h)[0] /\ h \in Ball(nodes, edges, h)[k - 1]
  <2>1. k - 1 \in 0..last /\ k - 1 \in 0..Cardinality(nodes) /\ 0 \in 0..Cardinality(nodes)
    BY <1>1, <1>2, <1>6
  <2> QED
    BY <2>1, BallFacts, BallGrows
<1>8. ~(u \in nodes /\ Adjacent(edges, source, u))
  BY <1>5, <1>7
<1>9. u \in Widened(nodes, edges, b[k - 1])
  BY <1>2, <1>5, <1>6
<1>10. CASE k = 1
  BY <1>2, <1>5, <1>8, <1>9, <1>10 DEF Widened
<1>11. CASE k # 1
  <2>1. PICK j : j = k - 1
    OBVIOUS
  <2>2. j \in 1..last /\ j < k /\ j \notin T
    BY <1>2, <1>6, <1>11, <2>1
  <2>3. \A w \in b[j] \ {source} : \E h \in nodes : Through(h, w, j)
    BY <2>2
  <2>4. ASSUME NEW h
        PROVE  Ball(nodes, edges, h)[j] = Widened(nodes, edges, Ball(nodes, edges, h)[j - 1])
    <3>1. j \in 1..Cardinality(nodes)
      BY <1>1, <2>2
    <3> QED
      BY <3>1, BallFacts
  <2>5. CASE u \in b[j]
    <3>1. PICK h \in nodes : Through(h, u, j)
      BY <1>5, <2>3, <2>5
    <3>2. Through(h, u, k)
      BY <2>1, <2>4, <3>1 DEF Widened
    <3> QED
      BY <1>5, <3>2
  <2>6. CASE u \notin b[j]
    <3>1. u \in nodes
      BY <1>9, <2>1, <2>6 DEF Widened
    <3>2. PICK w \in b[j] : Adjacent(edges, w, u)
      BY <1>9, <2>1, <2>6 DEF Widened
    <3>3. w # source
      BY <1>8, <3>1, <3>2
    <3>4. PICK h \in nodes : Through(h, w, j)
      BY <2>3, <3>2, <3>3
    <3>5. u \in Widened(nodes, edges, Ball(nodes, edges, h)[j - 1])
      BY <3>1, <3>2, <3>4 DEF Widened
    <3>6. Through(h, u, k)
      BY <2>1, <2>4, <3>4, <3>5
    <3> QED
      BY <1>5, <3>6
  <2> QED
    BY <2>5, <2>6
<1> QED
  BY <1>10, <1>11

(***************************************************************************)
(* A router that is reached has first hops, and each of them is one step   *)
(* nearer.                                                                 *)
(***************************************************************************)
LEMMA FirstHopsFacts ==
  ASSUME NEW nodes, IsFiniteSet(nodes), NEW edges, NEW source,
         NEW v \in Reached(nodes, edges, source), v # source
  PROVE  /\ FirstHops(nodes, edges, source, v) # {}
         /\ \A h \in FirstHops(nodes, edges, source, v) :
              /\ Adjacent(edges, source, h)
              /\ v \in Reached(nodes, edges, h)
              /\ Distance(nodes, edges, h, v) + 1 = Distance(nodes, edges, source, v)
<1>1. PICK d, last : d = Distance(nodes, edges, source, v) /\ last = Cardinality(nodes)
  OBVIOUS
<1>2. /\ last \in Nat /\ d \in 0..last
      /\ v \in Ball(nodes, edges, source)[d]
      /\ \A m \in 0..(d - 1) : v \notin Ball(nodes, edges, source)[m]
  BY <1>1, BallFacts, ReachedDistance
<1>3. d # 0
  BY <1>2, BallFacts
<1>4. d \in 1..last /\ d \in 1..Cardinality(nodes) /\ d - 1 \in 0..Cardinality(nodes)
  BY <1>1, <1>2, <1>3
<1>5. \E h \in nodes : Adjacent(edges, source, h) /\ v \in Ball(nodes, edges, h)[d - 1]
  BY <1>2, <1>4, ReachedByHop
<1>6. FirstHops(nodes, edges, source, v) =
        {h \in nodes : Adjacent(edges, source, h) /\ v \in Ball(nodes, edges, h)[d - 1]}
  BY <1>1 DEF FirstHops
<1>7. ASSUME NEW h \in nodes, Adjacent(edges, source, h), v \in Ball(nodes, edges, h)[d - 1]
      PROVE  /\ v \in Reached(nodes, edges, h)
             /\ Distance(nodes, edges, h, v) + 1 = d
  <2>1. PICK e : e = Distance(nodes, edges, h, v)
    OBVIOUS
  <2>2. e \in 0..(d - 1) /\ v \in Reached(nodes, edges, h) /\ v \in Ball(nodes, edges, h)[e]
    BY <1>4, <1>7, <2>1, DistanceFacts
  <2>3. PICK k : k = e + 1
    OBVIOUS
  <2>4. k \in 1..Cardinality(nodes) /\ k - 1 = e
    BY <1>1, <1>2, <2>2, <2>3
  <2>5. v \in Ball(nodes, edges, source)[k]
    BY <1>7, <2>2, <2>4, HopReaches
  <2>6. k \notin 0..(d - 1)
    BY <1>2, <2>5
  <2> QED
    BY <1>2, <2>1, <2>2, <2>3, <2>6
<1> QED
  BY <1>1, <1>5, <1>6, <1>7

(***************************************************************************)
(* In a settled area a router knows all others, and its graph holds the    *)
(* claims of all, its own included: every neighbour of its claims it back. *)
(***************************************************************************)
LEMMA SettledGraph ==
  ASSUME TypeOK, NotOwnNeighbour, Settled, NEW r \in Router
  PROVE  /\ Known(r) = Router /\ ~Misindexed(r)
         /\ init_graph(r) = Claims
         /\ \A h \in Router : Adjacent(Claims, r, h) => h \in nbrs[r]
<1>1. /\ \A q \in Router : nbrs[q] \subseteq Router /\ q \notin nbrs[q]
      /\ \A q \in Router : \A n \in nbrs[q] : q \in nbrs[n]
      /\ \A o \in Router \ {r} : db[r][o] # None /\ db[r][o].nbrs = nbrs[o]
  BY DEF TypeOK, NotOwnNeighbour, Settled
<1>2. Known(r) = Router
  BY <1>1 DEF Known
<1>3. ~Misindexed(r)
  BY <1>1, <1>2 DEF Misindexed
<1>4. ASSUME NEW x \in init_graph(r)
      PROVE  x \in Claims
  <2>1. PICK o \in Router \ {r} : \E n \in nbrs[o] : x = {o, n}
    BY <1>1, <1>2, <1>4 DEF init_graph
  <2> QED
    BY <2>1 DEF Claims
<1>5. ASSUME NEW x \in Claims
      PROVE  x \in init_graph(r)
  <2>1. PICK q \in Router : \E n \in nbrs[q] : x = {q, n}
    BY <1>5 DEF Claims
  <2>2. PICK n \in nbrs[q] : x = {q, n}
    BY <2>1
  <2>3. n \in Router /\ q \in nbrs[n] /\ n # q /\ x = {n, q}
    BY <1>1, <2>2
  <2>4. PICK o \in Router \ {r} : \E p \in nbrs[o] : x = {o, p}
    BY <2>2, <2>3
  <2>5. PICK p \in nbrs[o] : x = {o, p}
    BY <2>4
  <2>6. p \in db[r][o].nbrs \cap Known(r) /\ o \in Known(r) \ {r}
    BY <1>1, <1>2, <2>5
  <2> QED
    BY <2>5, <2>6 DEF init_graph
<1>6. ASSUME NEW h \in Router, Adjacent(Claims, r, h)
      PROVE  h \in nbrs[r]
  <2>1. PICK q \in Router : \E n \in nbrs[q] : {r, h} = {q, n}
    BY <1>6 DEF Claims, Adjacent
  <2>2. PICK n \in nbrs[q] : {r, h} = {q, n}
    BY <2>1
  <2>3. q # n /\ q \in nbrs[n]
    BY <1>1, <2>2
  <2> QED
    BY <2>2, <2>3
<1> QED
  BY <1>2, <1>3, <1>4, <1>5, <1>6

LEMMA SettledReach ==
  ASSUME IInv
  PROVE  SettledRoutesReach
<1> SUFFICES ASSUME Settled, NEW r \in Router, NEW o \in Router, r # o,
                    o \in Reached(Router, Claims, r)
             PROVE  /\ rtable[r][o] \in nbrs[r]
                    /\ Distance(Router, Claims, rtable[r][o], o) + 1
                         = Distance(Router, Claims, r, o)
  BY DEF SettledRoutesReach
<1>1. /\ Known(r) = Router /\ ~Misindexed(r)
      /\ Hops(r, o) = FirstHops(Router, Claims, r, o)
      /\ \A h \in Router : Adjacent(Claims, r, h) => h \in nbrs[r]
  BY SettledGraph DEF IInv, Hops
<1>2. /\ Hops(r, o) # {}
      /\ \A h \in Hops(r, o) :
           /\ Adjacent(Claims, r, h)
           /\ Distance(Router, Claims, h, o) + 1 = Distance(Router, Claims, r, o)
  BY <1>1, MospfAssumption, FirstHopsFacts
<1>3. Hops(r, o) \subseteq nbrs[r]
  <2>1. Hops(r, o) \subseteq Router
    BY <1>1 DEF FirstHops
  <2> QED
    BY <1>1, <1>2, <2>1
<1>4. rtable[r][o] \in NextHops(r, o)
  BY DEF Settled
<1>5. NextHops(r, o) = {IF h \in nbrs[r] THEN h ELSE None : h \in Hops(r, o)}
  BY <1>1, <1>2 DEF NextHops
<1>6. rtable[r][o] \in Hops(r, o)
  BY <1>3, <1>4, <1>5
<1> QED
  BY <1>2, <1>3, <1>6

(***************************************************************************)
(* In a settled area every packet is routed to a neighbour that is one     *)
(* step nearer to its destination (update_rtable), whatever the area and   *)
(* whatever has happened to it before.                                     *)
(***************************************************************************)
THEOREM SettledRoutesReachAlways == Spec => []SettledRoutesReach
<1>1. Spec => []IInv
  BY Invariance
<1>2. IInv => SettledRoutesReach
  BY SettledReach
<1> QED
  BY <1>1, <1>2, PTL

-----------------------------------------------------------------------------
(***************************************************************************)
(* Dijkstra.  Its steps exist, one after the other.                        *)
(***************************************************************************)
Started(list) == [dist |-> [v \in DOMAIN list |-> IF v = 1 THEN 0 ELSE Far],
                  prev |-> [v \in DOMAIN list |-> Unset], visited |-> {}]

Nearer(list, edges, s, u) == {v \in DOMAIN list \ (s.visited \cup {u}) :
                                /\ Adjacent(edges, list[u], list[v])
                                /\ s.dist[u] + 1 < s.dist[v]}

VisitedNext(list, edges, s, u) ==
  [dist |-> [v \in DOMAIN list |->
               IF v \in Nearer(list, edges, s, u) THEN s.dist[u] + 1 ELSE s.dist[v]],
   prev |-> [v \in DOMAIN list |-> IF v \in Nearer(list, edges, s, u) THEN u ELSE s.prev[v]],
   visited |-> s.visited \cup {u}]

Stepped(f, list, edges, last) ==
  f = [i \in 0..last |->
         IF i = 0 THEN Started(list)
         ELSE VisitedNext(list, edges, f[i - 1], min_dist(f[i - 1].dist, f[i - 1].visited))]

LEMMA StepsExist ==
  ASSUME NEW list, NEW edges, NEW last \in Nat
  PROVE  \E f : Stepped(f, list, edges, last)
<1> DEFINE T == {m \in Nat : ~\E f : Stepped(f, list, edges, m)}
           next(s) == VisitedNext(list, edges, s, min_dist(s.dist, s.visited))
<1>1. SUFFICES ASSUME last \in T
               PROVE  FALSE
  OBVIOUS
<1>2. PICK m \in T : \A k \in T : m <= k
  <2>1. T \subseteq Nat /\ T # {}
    BY <1>1
  <2> HIDE DEF T
  <2> QED
    BY <2>1, LeastNatural
<1>3. \A f, k : Stepped(f, list, edges, k)
                  <=> f = [i \in 0..k |-> IF i = 0 THEN Started(list) ELSE next(f[i - 1])]
  BY DEF Stepped
<1> HIDE DEF next
<1>4. CASE m = 0
  <2> DEFINE f == [i \in 0..0 |-> Started(list)]
  <2>1. f = [i \in 0..0 |-> IF i = 0 THEN Started(list) ELSE next(f[i - 1])]
    OBVIOUS
  <2>2. Stepped(f, list, edges, 0)
    BY <1>3, <2>1
  <2> QED
    BY <1>2, <1>4, <2>2
<1>5. CASE m # 0
  <2>1. m - 1 \in Nat /\ m - 1 \notin T
    BY <1>2, <1>5
  <2>2. PICK f : f = [i \in 0..(m - 1) |-> IF i = 0 THEN Started(list) ELSE next(f[i - 1])]
    BY <1>3, <2>1
  <2> DEFINE g == [i \in 0..m |-> IF i = m THEN next(f[m - 1]) ELSE f[i]]
             h == [i \in 0..m |-> IF i = 0 THEN Started(list) ELSE next(g[i - 1])]
  <2>3. ASSUME NEW i \in 0..m
        PROVE  g[i] = h[i]
    <3>1. CASE i = 0
      BY <1>5, <2>1, <2>2, <3>1
    <3>2. CASE i # 0 /\ i = m
      <4>1. m - 1 \in 0..m /\ m - 1 # m
        BY <2>1
      <4> QED
        BY <3>2, <4>1
    <3>3. CASE i # 0 /\ i # m
      <4>1. i \in 0..(m - 1) /\ i - 1 \in 0..m /\ i - 1 # m
        BY <2>1, <3>3
      <4>2. f[i] = next(f[i - 1])
        BY <2>2, <3>3, <4>1
      <4> QED
        BY <3>3, <4>1, <4>2
    <3> QED
      BY <3>1, <3>2, <3>3
  <2>4. Stepped(g, list, edges, m)
    <3>1. g = h
      BY <2>3
    <3> QED
      BY <1>3, <3>1
  <2> QED
    BY <1>2, <2>4
<1> QED
  BY <1>4, <1>5

(***************************************************************************)
(* What min_dist picks is unvisited, and comes first by distance and, at   *)
(* the same distance, by index.                                            *)
(***************************************************************************)
Ahead(dist, u, v) == dist[u] < dist[v] \/ (dist[u] = dist[v] /\ u <= v)

LEMMA MinDistFacts ==
  ASSUME NEW n \in Nat, NEW dist \in [1..n -> Nat], NEW visited, ~(1..n \subseteq visited)
  PROVE  /\ min_dist(dist, visited) \in 1..n \ visited
         /\ \A v \in 1..n \ visited : Ahead(dist, min_dist(dist, visited), v)
<1> DEFINE U == 1..n \ visited
           values == {dist[v] : v \in U}
<1>1. PICK m \in values : \A k \in values : m <= k
  <2>1. values \subseteq Nat /\ values # {}
    OBVIOUS
  <2> HIDE DEF values
  <2> QED
    BY <2>1, LeastNatural
<1> DEFINE least == {v \in U : dist[v] = m}
<1>2. PICK u \in least : \A v \in least : u <= v
  <2>1. least \subseteq Nat /\ least # {}
    BY <1>1
  <2> HIDE DEF least
  <2> QED
    BY <2>1, LeastNatural
<1>3. u \in U /\ \A v \in U : Ahead(dist, u, v)
  <2>1. u \in U /\ dist[u] = m
    BY <1>2
  <2>2. ASSUME NEW v \in U
        PROVE  Ahead(dist, u, v)
    <3>1. m <= dist[v] /\ dist[v] \in Nat /\ m \in Nat
      BY <1>1
    <3>2. dist[v] = m => u <= v
      BY <1>2
    <3> QED
      BY <2>1, <3>1, <3>2 DEF Ahead
  <2> QED
    BY <2>1, <2>2
<1>4. min_dist(dist, visited) = CHOOSE x \in U : \A v \in U : Ahead(dist, x, v)
  BY DEF min_dist, Ahead
<1> HIDE DEF U
<1>5. min_dist(dist, visited) \in U /\ \A v \in U : Ahead(dist, min_dist(dist, visited), v)
  BY <1>3, <1>4
<1> QED
  BY <1>5 DEF U

(***************************************************************************)
(* The invariant of the loop.  Distances are those of paths that go back   *)
(* along prev; every edge of a visited router is taken into account; the   *)
(* visited ones come before the others, and prev is the first by index of  *)
(* those that are one step nearer.                                         *)
(***************************************************************************)
Measured(list, s, n, i) ==
  /\ s.dist \in [1..n -> 0..Far] /\ s.prev \in [1..n -> 0..n]
  /\ s.visited \subseteq 1..n /\ IsFiniteSet(s.visited) /\ Cardinality(s.visited) = i
  /\ s.dist[1] = 0
  /\ \A v \in 1..n : s.dist[v] # Far => s.dist[v] <= i

Relaxed(list, edges, s, n) ==
  \A v \in s.visited : s.dist[v] # Far =>
    \A w \in 1..n : Adjacent(edges, list[v], list[w]) => s.dist[w] <= s.dist[v] + 1

InOrder(s, n) == \A v \in s.visited : \A w \in 1..n \ s.visited : Ahead(s.dist, v, w)

BackAlongPrev(list, edges, s, n) ==
  \A v \in 2..n : s.dist[v] # Far =>
    /\ s.prev[v] \in s.visited /\ s.dist[s.prev[v]] + 1 = s.dist[v]
    /\ Adjacent(edges, list[s.prev[v]], list[v])

FirstOfNearer(list, edges, s, n) ==
  \A v \in 2..n : s.dist[v] # Far =>
    \A w \in s.visited : Adjacent(edges, list[w], list[v]) /\ s.dist[w] + 1 = s.dist[v]
                           => s.prev[v] <= w

DijkstraInv(list, edges, s, n, i) ==
  /\ Measured(list, s, n, i) /\ Relaxed(list, edges, s, n) /\ InOrder(s, n)
  /\ BackAlongPrev(list, edges, s, n) /\ FirstOfNearer(list, edges, s, n)

LEMMA StartedInv ==
  ASSUME NEW n \in Nat \ {0}, NEW list, DOMAIN list = 1..n, NEW edges
  PROVE  DijkstraInv(list, edges, Started(list), n, 0)
<1>1. PICK s : s = Started(list)
  OBVIOUS
<1>2. /\ s.dist = [v \in 1..n |-> IF v = 1 THEN 0 ELSE Far]
      /\ s.prev = [v \in 1..n |-> Unset] /\ s.visited = {}
  BY <1>1 DEF Started
<1>3. Measured(list, s, n, 0)
  BY <1>2, FS_EmptySet DEF Measured, Far, Unset
<1>4. \A v \in 2..n : s.dist[v] = Far
  BY <1>2
<1> QED
  BY <1>1, <1>2, <1>3, <1>4
     DEF DijkstraInv, Relaxed, InOrder, BackAlongPrev, FirstOfNearer

LEMMA VisitedInv ==
  ASSUME NEW n \in Nat \ {0}, n < Far, NEW list, DOMAIN list = 1..n, NEW edges,
         NEW s, NEW i \in 0..(n - 1), DijkstraInv(list, edges, s, n, i)
  PROVE  DijkstraInv(list, edges,
           VisitedNext(list, edges, s, min_dist(s.dist, s.visited)), n, i + 1)
<1>1. PICK u, t, near : /\ u = min_dist(s.dist, s.visited)
                        /\ t = VisitedNext(list, edges, s, u)
                        /\ near = Nearer(list, edges, s, u)
  OBVIOUS
<1>2. PICK D, P, V : D = s.dist /\ P = s.prev /\ V = s.visited
  OBVIOUS
<1>3. /\ D \in [1..n -> 0..Far] /\ P \in [1..n -> 0..n] /\ V \subseteq 1..n
      /\ IsFiniteSet(V) /\ Cardinality(V) = i
      /\ D[1] = 0 /\ \A v \in 1..n : D[v] # Far => D[v] <= i
  BY <1>2 DEF DijkstraInv, Measured
<1>4. u \in 1..n \ V /\ \A v \in 1..n \ V : Ahead(D, u, v)
  <2>1. ~(1..n \subseteq V)
    <3>1. Cardinality(1..n) = n
      BY FS_Interval
    <3>2. V # 1..n
      BY <1>3, <3>1
    <3> QED
      BY <1>3, <3>2
  <2>2. D \in [1..n -> Nat]
    <3>1. 0..Far \subseteq Nat
      BY DEF Far
    <3> QED
      BY <1>3, <3>1
  <2> QED
    BY <1>1, <1>2, <2>1, <2>2, MinDistFacts
<1>5. near = {v \in 1..n \ (V \cup {u}) : /\ Adjacent(edges, list[u], list[v])
                                          /\ D[u] + 1 < D[v]}
  BY <1>1, <1>2 DEF Nearer
<1>6. PICK E, Q : /\ E = [v \in 1..n |-> IF v \in near THEN D[u] + 1 ELSE D[v]]
                  /\ Q = [v \in 1..n |-> IF v \in near THEN u ELSE P[v]]
  OBVIOUS
<1>7. t.dist = E /\ t.prev = Q /\ t.visited = V \cup {u}
  BY <1>1, <1>2, <1>6 DEF VisitedNext
<1>8. /\ Far \in Nat /\ n \in Nat /\ i \in Nat /\ i + 1 < Far + 1
      /\ \A v \in 1..n : D[v] \in Nat /\ D[v] <= Far
  <2>1. Far \in Nat
    BY DEF Far
  <2> QED
    BY <1>3, <2>1
<1>9. \A v \in near : /\ v \in 1..n \ (V \cup {u}) /\ E[v] = D[u] + 1 /\ Q[v] = u
                      /\ E[v] < D[v] /\ D[u] # Far /\ E[v] \in Nat /\ E[v] < Far
                      /\ Adjacent(edges, list[u], list[v])
  <2> SUFFICES ASSUME NEW v \in near
               PROVE  /\ v \in 1..n \ (V \cup {u}) /\ E[v] = D[u] + 1 /\ Q[v] = u
                      /\ E[v] < D[v] /\ D[u] # Far /\ E[v] \in Nat /\ E[v] < Far
                      /\ Adjacent(edges, list[u], list[v])
    OBVIOUS
  <2>1. /\ v \in 1..n \ (V \cup {u}) /\ E[v] = D[u] + 1 /\ Q[v] = u /\ D[u] + 1 < D[v]
        /\ Adjacent(edges, list[u], list[v])
    BY <1>5, <1>6
  <2>2. D[u] \in Nat /\ D[v] \in Nat /\ D[v] <= Far /\ D[u] <= Far
    BY <1>4, <1>8, <2>1
  <2> QED
    BY <1>8, <2>1, <2>2
<1>10. \A v \in 1..n \ near : E[v] = D[v] /\ Q[v] = P[v]
  BY <1>6
<1>11. \A v \in V \cup {u} : v \notin near /\ E[v] = D[v] /\ v \in 1..n
  BY <1>3, <1>4, <1>9, <1>10
<1>12. \A v \in 1..n : /\ E[v] \in 0..Far /\ E[v] \in Nat /\ E[v] <= Far
                    /\ E[v] <= D[v] /\ Q[v] \in 0..n
  BY <1>3, <1>4, <1>8, <1>9, <1>10
<1>13. \A v \in V : \A w \in 1..n \ V : Ahead(D, v, w)
  BY <1>2 DEF DijkstraInv, InOrder
<1>14. Measured(list, t, n, i + 1)
  <2>1. E \in [1..n -> 0..Far] /\ Q \in [1..n -> 0..n]
    BY <1>6, <1>12
  <2>2. /\ V \cup {u} \subseteq 1..n /\ IsFiniteSet(V \cup {u})
        /\ Cardinality(V \cup {u}) = i + 1
    BY <1>3, <1>4, FS_AddElement
  <2>3. E[1] = 0
    BY <1>3, <1>12
  <2>4. ASSUME NEW v \in 1..n, E[v] # Far
        PROVE  E[v] <= i + 1
    BY <1>3, <1>4, <1>8, <1>9, <1>10, <2>4
  <2> QED
    BY <1>7, <2>1, <2>2, <2>3, <2>4 DEF Measured
<1>15. Relaxed(list, edges, t, n)
  <2> SUFFICES ASSUME NEW v \in V \cup {u}, E[v] # Far, NEW w \in 1..n,
                      Adjacent(edges, list[v], list[w])
               PROVE  E[w] <= E[v] + 1
    BY <1>7 DEF Relaxed
  <2>1. E[v] = D[v] /\ E[w] <= D[w] /\ E[w] \in Nat /\ D[v] \in Nat /\ D[w] \in Nat
        /\ D[w] <= Far /\ D[v] <= Far /\ E[w] <= Far
    BY <1>8, <1>11, <1>12
  <2>2. CASE v \in V
    <3>1. D[w] <= D[v] + 1
      BY <1>2, <2>1, <2>2 DEF DijkstraInv, Relaxed
    <3> QED
      BY <1>8, <2>1, <3>1
  <2>3. CASE v = u /\ w \in V \cup {u}
    <3>1. D[w] <= D[u]
      BY <1>4, <1>8, <1>11, <1>13, <2>1, <2>3 DEF Ahead
    <3> QED
      BY <1>8, <2>1, <2>3, <3>1
  <2>4. CASE v = u /\ w \notin V \cup {u}
    <3>1. w \in near \/ ~(D[u] + 1 < D[w])
      BY <1>5, <2>4
    <3> QED
      BY <1>8, <1>9, <2>1, <2>4, <3>1
  <2> QED
    BY <2>2, <2>3, <2>4
<1>16. InOrder(t, n)
  <2> SUFFICES ASSUME NEW v \in V \cup {u}, NEW w \in 1..n \ (V \cup {u})
               PROVE  Ahead(E, v, w)
    BY <1>7 DEF InOrder
  <2>1. E[v] = D[v] /\ D[v] \in Nat /\ D[w] \in Nat /\ D[u] \in Nat
    BY <1>4, <1>8, <1>11
  <2>2. Ahead(D, v, w) /\ (v = u \/ Ahead(D, v, u))
    BY <1>4, <1>13
  <2>3. CASE w \in near
    <3>1. E[w] = D[u] + 1 /\ D[v] <= D[u]
      BY <1>8, <1>9, <2>1, <2>2, <2>3 DEF Ahead
    <3> QED
      BY <1>8, <2>1, <3>1 DEF Ahead
  <2>4. CASE w \notin near
    <3>1. E[w] = D[w]
      BY <1>10, <2>4
    <3> QED
      BY <2>1, <2>2, <3>1 DEF Ahead
  <2> QED
    BY <2>3, <2>4
<1>17. BackAlongPrev(list, edges, t, n)
  <2> SUFFICES ASSUME NEW v \in 2..n, E[v] # Far
               PROVE  /\ Q[v] \in V \cup {u} /\ E[Q[v]] + 1 = E[v]
                      /\ Adjacent(edges, list[Q[v]], list[v])
    BY <1>7 DEF BackAlongPrev
  <2>1. CASE v \in near
    BY <1>9, <1>11, <2>1
  <2>2. CASE v \notin near
    <3>1. E[v] = D[v] /\ Q[v] = P[v]
      BY <1>10, <2>2
    <3>2. P[v] \in V /\ D[P[v]] + 1 = D[v] /\ Adjacent(edges, list[P[v]], list[v])
      BY <1>2, <3>1 DEF DijkstraInv, BackAlongPrev
    <3> QED
      BY <1>11, <3>1, <3>2
  <2> QED
    BY <2>1, <2>2
<1>18. FirstOfNearer(list, edges, t, n)
  <2> SUFFICES ASSUME NEW v \in 2..n, E[v] # Far, NEW w \in V \cup {u},
                      Adjacent(edges, list[w], list[v]), E[w] + 1 = E[v]
               PROVE  Q[v] <= w
    BY <1>7 DEF FirstOfNearer
  <2>1. /\ E[w] = D[w] /\ D[w] \in Nat /\ D[v] \in Nat /\ D[u] \in Nat /\ D[v] <= Far /\ D[u] <= Far
        /\ v \in 1..n /\ w \in Nat /\ u \in Nat
    BY <1>4, <1>8, <1>11
  <2>2. CASE v \in near
    <3>1. w = u
      <4>1. SUFFICES ASSUME w \in V
                     PROVE  FALSE
        OBVIOUS
      <4>2. D[w] = D[u] /\ D[u] # Far /\ D[u] + 1 < D[v]
        BY <1>9, <2>1, <2>2
      <4>3. D[v] <= D[w] + 1
        BY <1>2, <2>1, <4>1, <4>2 DEF DijkstraInv, Relaxed
      <4> QED
        BY <1>8, <2>1, <4>2, <4>3
    <3> QED
      BY <1>9, <2>1, <2>2, <3>1
  <2>3. CASE v \notin near
    <3>1. E[v] = D[v] /\ Q[v] = P[v] /\ D[v] # Far
      BY <1>10, <2>1, <2>3
    <3>2. P[v] \in V /\ D[P[v]] + 1 = D[v]
      BY <1>2, <3>1 DEF DijkstraInv, BackAlongPrev
    <3>3. CASE w \in V
      BY <1>2, <2>1, <3>1, <3>3 DEF DijkstraInv, FirstOfNearer
    <3>4. CASE w = u
      <4>1. Ahead(D, P[v], u)
        BY <1>4, <1>13, <3>2
      <4>2. D[P[v]] \in Nat
        BY <1>3, <1>8, <3>2
      <4>3. D[P[v]] = D[u]
        BY <1>8, <2>1, <3>1, <3>2, <3>4, <4>2
      <4> QED
        BY <1>8, <2>1, <3>1, <3>4, <4>1, <4>3 DEF Ahead
    <3> QED
      BY <3>3, <3>4
  <2> QED
    BY <2>2, <2>3
<1> QED
  BY <1>1, <1>14, <1>15, <1>16, <1>17, <1>18 DEF DijkstraInv

LEMMA DijkstraFacts ==
  ASSUME NEW n \in Nat \ {0}, n < Far, NEW list, DOMAIN list = 1..n, Len(list) = n, NEW edges
  PROVE  /\ DijkstraInv(list, edges, Dijkstra(list, edges), n, n)
         /\ Dijkstra(list, edges).visited = 1..n
<1>1. PICK g : Stepped(g, list, edges, n)
  BY StepsExist
<1>2. PICK f : f = CHOOSE x : Stepped(x, list, edges, n)
  OBVIOUS
<1>3. Stepped(f, list, edges, n)
  BY <1>1, <1>2
<1>4. Dijkstra(list, edges) = f[n]
  BY <1>2 DEF Dijkstra, Stepped, Started, VisitedNext, Nearer
<1>5. /\ f[0] = Started(list)
      /\ \A i \in 1..n : f[i] = VisitedNext(list, edges, f[i - 1],
                                  min_dist(f[i - 1].dist, f[i - 1].visited))
  BY <1>3 DEF Stepped
<1> DEFINE T == {i \in 0..n : ~DijkstraInv(list, edges, f[i], n, i)}
<1>6. T = {}
  <2>1. SUFFICES ASSUME T # {}
                 PROVE  FALSE
    OBVIOUS
  <2>2. PICK k \in T : \A i \in T : k <= i
    <3>1. T \subseteq Nat
      OBVIOUS
    <3> HIDE DEF T
    <3> QED
      BY <2>1, <3>1, LeastNatural
  <2>3. k \in 0..n /\ ~DijkstraInv(list, edges, f[k], n, k)
    BY <2>2
  <2>4. CASE k = 0
    BY <1>5, <2>3, <2>4, StartedInv
  <2>5. CASE k # 0
    <3>1. PICK j : j = k - 1
      OBVIOUS
    <3>2. j \in 0..(n - 1) /\ j \in 0..n /\ j < k /\ k = j + 1 /\ k \in 1..n
      BY <2>3, <2>5, <3>1
    <3>3. DijkstraInv(list, edges, f[j], n, j)
      BY <2>2, <3>2
    <3>4. f[k] = VisitedNext(list, edges, f[j], min_dist(f[j].dist, f[j].visited))
      BY <1>5, <3>1, <3>2
    <3> QED
      BY <2>3, <3>2, <3>3, <3>4, VisitedInv
  <2> QED
    BY <2>4, <2>5
<1>7. DijkstraInv(list, edges, f[n], n, n)
  BY <1>6
<1>8. f[n].visited = 1..n
  <2>1. f[n].visited \subseteq 1..n /\ Cardinality(f[n].visited) = n
    BY <1>7 DEF DijkstraInv, Measured
  <2>2. IsFiniteSet(1..n) /\ Cardinality(1..n) = n
    BY FS_Interval
  <2> QED
    BY <2>1, <2>2, FS_Subset
<1> QED
  BY <1>4, <1>7, <1>8

(***************************************************************************)
(* Every order of the database is a list of all routers, the router itself *)
(* first, and every router has one place.                                  *)
(***************************************************************************)
LEMMA ListFacts ==
  ASSUME NEW nodes, IsFiniteSet(nodes), NEW r \in nodes,
         NEW list \in RouterLists(r, nodes \ {r}), NEW n, n = Cardinality(nodes)
  PROVE  /\ n \in Nat \ {0} /\ list \in [1..n -> nodes] /\ Len(list) = n /\ list[1] = r
         /\ \A i, j \in 1..n : list[i] = list[j] => i = j
         /\ \A v \in nodes : \E i \in 1..n : list[i] = v
<1>1. n \in Nat \ {0}
  BY FS_CardinalityType, FS_EmptySet
<1>2. Cardinality(nodes \ {r}) + 1 = n
  <2>1. Cardinality(nodes \ {r}) = Cardinality(nodes) - 1
    BY FS_RemoveElement
  <2>2. PICK m : m = Cardinality(nodes \ {r})
    OBVIOUS
  <2>3. m = n - 1
    BY <2>1, <2>2
  <2> QED
    BY <1>1, <2>2, <2>3
<1>3. /\ list \in [1..n -> nodes] /\ list[1] = r
      /\ \A i, j \in 1..n : list[i] = list[j] => i = j
  <2>1. (nodes \ {r}) \cup {r} = nodes
    OBVIOUS
  <2> QED
    BY <1>2, <2>1 DEF RouterLists
<1>4. Len(list) = n
  BY <1>1, <1>3
<1>5. list \in Surjection(1..n, nodes)
  <2>1. list \in Injection(1..n, nodes)
    BY <1>3, Fun_IsInj
  <2>2. Cardinality(1..n) = Cardinality(nodes)
    BY <1>1, FS_Interval
  <2> QED
    BY <2>1, <2>2, FS_Injection
<1>6. \A v \in nodes : \E i \in 1..n : list[i] = v
  BY <1>5 DEF Surjection
<1> QED
  BY <1>1, <1>3, <1>4, <1>6

(***************************************************************************)
(* The distances found are those of the graph.                             *)
(***************************************************************************)
LEMMA DistancesFound ==
  ASSUME NEW nodes, IsFiniteSet(nodes), Cardinality(nodes) < Far, NEW r \in nodes,
         NEW list \in RouterLists(r, nodes \ {r}), NEW edges,
         NEW n, n = Cardinality(nodes), NEW v \in 1..n, NEW k \in 0..n
  PROVE  /\ Dijkstra(list, edges).dist[v] = k => list[v] \in Ball(nodes, edges, r)[k]
         /\ list[v] \in Ball(nodes, edges, r)[k] => Dijkstra(list, edges).dist[v] <= k
<1>1. /\ n \in Nat \ {0} /\ list \in [1..n -> nodes] /\ Len(list) = n /\ list[1] = r
      /\ \A i, j \in 1..n : list[i] = list[j] => i = j
      /\ \A x \in nodes : \E i \in 1..n : list[i] = x
  BY ListFacts
<1>2. PICK s, D, P, b : /\ s = Dijkstra(list, edges) /\ D = s.dist /\ P = s.prev
                        /\ b = Ball(nodes, edges, r)
  OBVIOUS
<1>3. DijkstraInv(list, edges, s, n, n) /\ s.visited = 1..n
  BY <1>1, <1>2, DijkstraFacts
<1>4. /\ D[1] = 0 /\ \A i \in 1..n : D[i] \in Nat /\ D[i] <= Far
      /\ Far \in Nat /\ n < Far
      /\ \A i, j \in 1..n : D[i] # Far /\ Adjacent(edges, list[i], list[j]) => D[j] <= D[i] + 1
      /\ \A i \in 2..n : D[i] # Far =>
           P[i] \in 1..n /\ D[P[i]] + 1 = D[i] /\ Adjacent(edges, list[P[i]], list[i])
  <2>1. D \in [1..n -> 0..Far] /\ D[1] = 0
    BY <1>2, <1>3 DEF DijkstraInv, Measured
  <2>2. 0..Far \subseteq Nat /\ Far \in Nat /\ \A x \in 0..Far : x <= Far
    BY DEF Far
  <2> QED
    BY <1>2, <1>3, <2>1, <2>2 DEF DijkstraInv, Relaxed, BackAlongPrev
<1>5. b[0] = {r} /\ \A i \in 1..n : b[i] = Widened(nodes, edges, b[i - 1])
  BY <1>2, BallFacts
<1> DEFINE Found(i) == \A x \in 1..n : /\ D[x] = i => list[x] \in b[i]
                                       /\ list[x] \in b[i] => D[x] <= i
           T == {i \in 0..n : ~Found(i)}
<1>6. SUFFICES T = {}
  BY <1>2
<1>7. SUFFICES ASSUME T # {}
               PROVE  FALSE
  OBVIOUS
<1>8. PICK i \in T : \A j \in T : i <= j
  <2>1. T \subseteq Nat
    BY <1>1
  <2> HIDE DEF T
  <2> QED
    BY <1>7, <2>1, LeastNatural
<1>9. CASE i = 0
  <2>1. \A x \in 1..n : list[x] \in b[0] => x = 1
    BY <1>1, <1>5
  <2>2. \A x \in 1..n : D[x] = 0 => x = 1
    <3>1. ASSUME NEW x \in 1..n, D[x] = 0, x # 1
          PROVE  FALSE
      <4>1. x \in 2..n /\ D[x] # Far
        BY <1>1, <1>4, <3>1
      <4>2. D[P[x]] \in Nat /\ D[P[x]] + 1 = 0
        BY <1>4, <3>1, <4>1
      <4> QED
        BY <4>2
    <3> QED
      BY <3>1
  <2>3. Found(0)
    BY <1>1, <1>4, <1>5, <2>1, <2>2
  <2> QED
    BY <1>8, <1>9, <2>3
<1>10. CASE i # 0
  <2>1. PICK j : j = i - 1
    OBVIOUS
  <2>2. i \in 1..n /\ j \in 0..n /\ j < i /\ i = j + 1 /\ j < Far /\ i < Far
    BY <1>1, <1>4, <1>8, <1>10, <2>1
  <2>3. Found(j)
    BY <1>8, <2>2
  <2>4. b[i] = Widened(nodes, edges, b[j])
    BY <1>5, <2>1, <2>2
  <2>5. ASSUME NEW x \in 1..n, D[x] = i
        PROVE  list[x] \in b[i]
    <3>1. x \in 2..n /\ D[x] # Far
      BY <1>1, <1>4, <2>2, <2>5
    <3>2. PICK p \in 1..n : D[p] + 1 = D[x] /\ Adjacent(edges, list[p], list[x])
      BY <1>4, <3>1
    <3>3. D[p] = j
      BY <1>4, <2>2, <2>5, <3>2
    <3>4. list[p] \in b[j] /\ list[x] \in nodes
      BY <1>1, <2>3, <3>3
    <3> QED
      BY <2>4, <3>2, <3>4 DEF Widened
  <2>6. ASSUME NEW x \in 1..n, list[x] \in b[i]
        PROVE  D[x] <= i
    <3>1. CASE list[x] \in b[j]
      BY <1>4, <2>2, <2>3, <3>1
    <3>2. CASE list[x] \notin b[j]
      <4>1. PICK u \in b[j] : Adjacent(edges, u, list[x])
        BY <2>4, <2>6, <3>2 DEF Widened
      <4>2. PICK p \in 1..n : list[p] = u
        <5>1. u \in nodes
          BY <1>2, <2>2, <4>1, BallInNodes
        <5> QED
          BY <1>1, <5>1
      <4>3. D[p] <= j /\ D[p] \in Nat
        BY <1>4, <2>3, <4>1, <4>2
      <4>4. D[p] # Far
        BY <1>4, <2>2, <4>3
      <4>5. D[x] <= D[p] + 1 /\ D[x] \in Nat
        BY <1>4, <4>1, <4>2, <4>4
      <4> QED
        BY <2>2, <4>3, <4>5
    <3> QED
      BY <3>1, <3>2
  <2>7. Found(i)
    BY <2>5, <2>6
  <2> QED
    BY <1>8, <2>7
<1> QED
  BY <1>9, <1>10

(***************************************************************************)
(* The walk back exists, one router after the other.                       *)
(***************************************************************************)
Back(prev, x) == IF prev[x] \in {1, Unset} THEN x ELSE prev[x]

WalkedBack(f, prev, t, last) ==
  f = [i \in 0..last |-> IF i = 0 THEN t ELSE Back(prev, f[i - 1])]

LEMMA WalkBackExists ==
  ASSUME NEW prev, NEW t, NEW last \in Nat
  PROVE  \E f : WalkedBack(f, prev, t, last)
<1> DEFINE T == {m \in Nat : ~\E f : WalkedBack(f, prev, t, m)}
<1>1. SUFFICES ASSUME last \in T
               PROVE  FALSE
  OBVIOUS
<1>2. PICK m \in T : \A k \in T : m <= k
  <2>1. T \subseteq Nat /\ T # {}
    BY <1>1
  <2> HIDE DEF T
  <2> QED
    BY <2>1, LeastNatural
<1>3. CASE m = 0
  <2> DEFINE f == [i \in 0..0 |-> t]
  <2>1. WalkedBack(f, prev, t, 0)
    BY DEF WalkedBack
  <2> QED
    BY <1>2, <1>3, <2>1
<1>4. CASE m # 0
  <2>1. m - 1 \in Nat /\ m - 1 \notin T
    BY <1>2, <1>4
  <2>2. PICK f : WalkedBack(f, prev, t, m - 1)
    BY <2>1
  <2> DEFINE g == [i \in 0..m |-> IF i = m THEN Back(prev, f[m - 1]) ELSE f[i]]
             h == [i \in 0..m |-> IF i = 0 THEN t ELSE Back(prev, g[i - 1])]
  <2>3. ASSUME NEW i \in 0..m
        PROVE  g[i] = h[i]
    <3>1. CASE i = 0
      BY <1>4, <2>1, <2>2, <3>1 DEF WalkedBack
    <3>2. CASE i # 0 /\ i = m
      <4>1. m - 1 \in 0..m /\ m - 1 # m
        BY <2>1
      <4> QED
        BY <3>2, <4>1
    <3>3. CASE i # 0 /\ i # m
      <4>1. i \in 0..(m - 1) /\ i - 1 \in 0..m /\ i - 1 # m
        BY <2>1, <3>3
      <4>2. f[i] = Back(prev, f[i - 1])
        BY <2>2, <3>3, <4>1 DEF WalkedBack
      <4> QED
        BY <3>3, <4>1, <4>2
    <3> QED
      BY <3>1, <3>2, <3>3
  <2>4. WalkedBack(g, prev, t, m)
    <3>1. g = h
      BY <2>3
    <3> QED
      BY <3>1 DEF WalkedBack
  <2> QED
    BY <1>2, <2>4
<1> QED
  BY <1>3, <1>4

(***************************************************************************)
(* What holds along the walk from t: each router it comes to is on a       *)
(* shortest path to t, one step nearer to the source than the one before,  *)
(* until the router itself is next.  Among is a set of routers that it     *)
(* does not leave, if the walk goes back from it only into it.             *)
(***************************************************************************)
OnThePath(nodes, edges, list, D, t, i, x) ==
  /\ x \in 2..Len(list) /\ D[x] \in 1..D[t] /\ (D[x] = 1 \/ D[x] + i <= D[t])
  /\ list[t] \in Ball(nodes, edges, list[x])[D[t] - D[x]]

LEMMA WalkFollowsPath ==
  ASSUME NEW nodes, IsFiniteSet(nodes), Cardinality(nodes) < Far, NEW r \in nodes,
         NEW list \in RouterLists(r, nodes \ {r}), NEW edges,
         NEW n, n = Cardinality(nodes), NEW s, s = Dijkstra(list, edges),
         NEW t \in 2..n, s.dist[t] # Far, NEW among, t \in among,
         \A x \in 2..n : x \in among /\ s.dist[x] # Far /\ s.prev[x] # 1 => s.prev[x] \in among
  PROVE  \E x \in among : /\ WalkBack(list, edges, t) = list[x]
                          /\ x \in 2..n /\ s.dist[x] = 1 /\ s.dist[t] \in 1..n
                          /\ Adjacent(edges, r, list[x])
                          /\ list[t] \in Ball(nodes, edges, list[x])[s.dist[t] - 1]
<1>1. /\ n \in Nat \ {0} /\ list \in [1..n -> nodes] /\ Len(list) = n /\ list[1] = r
      /\ \A i, j \in 1..n : list[i] = list[j] => i = j
  BY ListFacts
<1>2. PICK D, P : D = s.dist /\ P = s.prev
  OBVIOUS
<1>3. DijkstraInv(list, edges, s, n, n) /\ s.visited = 1..n
  BY <1>1, DijkstraFacts
<1>4. /\ D[1] = 0 /\ \A i \in 1..n : D[i] \in Nat /\ D[i] <= Far /\ (D[i] # Far => D[i] <= n)
      /\ Far \in Nat /\ n < Far
      /\ \A i \in 2..n : D[i] # Far =>
           P[i] \in 1..n /\ D[P[i]] + 1 = D[i] /\ Adjacent(edges, list[P[i]], list[i])
  <2>1. D \in [1..n -> 0..Far] /\ D[1] = 0 /\ \A i \in 1..n : D[i] # Far => D[i] <= n
    BY <1>2, <1>3 DEF DijkstraInv, Measured
  <2>2. 0..Far \subseteq Nat /\ Far \in Nat /\ \A x \in 0..Far : x <= Far
    BY DEF Far
  <2> QED
    BY <1>2, <1>3, <2>1, <2>2 DEF DijkstraInv, BackAlongPrev
<1>5. \A i \in 2..n : D[i] # Far => D[i] \in 1..n
  <2> SUFFICES ASSUME NEW i \in 2..n, D[i] # Far
               PROVE  D[i] \in 1..n
    OBVIOUS
  <2>1. P[i] \in 1..n /\ D[P[i]] + 1 = D[i] /\ i \in 1..n
    BY <1>1, <1>4
  <2>2. D[P[i]] \in Nat /\ D[i] \in Nat /\ D[i] <= n
    BY <1>4, <2>1
  <2> QED
    BY <1>1, <2>1, <2>2
<1>6. PICK dt : dt = D[t]
  OBVIOUS
<1>7. dt \in 1..n
  BY <1>2, <1>5, <1>6
<1>8. PICK g : WalkedBack(g, P, t, n)
  BY <1>1, WalkBackExists
<1>9. PICK f : f = CHOOSE x : WalkedBack(x, P, t, n)
  OBVIOUS
<1>10. WalkedBack(f, P, t, n)
  BY <1>8, <1>9
<1>11. WalkBack(list, edges, t) = list[f[n]]
  BY <1>1, <1>2, <1>9 DEF WalkBack, WalkedBack, Back
<1>12. f[0] = t /\ \A i \in 1..n : f[i] = Back(P, f[i - 1])
  BY <1>1, <1>10 DEF WalkedBack
<1> DEFINE Kept(i) == f[i] \in among /\ OnThePath(nodes, edges, list, D, t, i, f[i])
           T == {i \in 0..n : ~Kept(i)}
<1>13. T = {}
  <2>1. SUFFICES ASSUME T # {}
                 PROVE  FALSE
    OBVIOUS
  <2>2. PICK i \in T : \A j \in T : i <= j
    <3>1. T \subseteq Nat
      BY <1>1
    <3> HIDE DEF T
    <3> QED
      BY <2>1, <3>1, LeastNatural
  <2>3. CASE i = 0
    <3>1. list[t] \in Ball(nodes, edges, list[t])[0]
      BY BallFacts
    <3>2. D[t] - D[t] = 0 /\ D[t] \in 1..D[t] /\ D[t] + 0 <= D[t]
      BY <1>6, <1>7
    <3>3. Kept(0)
      BY <1>1, <1>12, <3>1, <3>2 DEF OnThePath
    <3> QED
      BY <2>2, <2>3, <3>3
  <2>4. CASE i # 0
    <3>1. PICK j, x, dx : j = i - 1 /\ x = f[j] /\ dx = D[x]
      OBVIOUS
    <3>2. i \in 1..n /\ j \in 0..n /\ j < i /\ i = j + 1 /\ j \in Nat
      BY <1>1, <2>2, <2>4, <3>1
    <3>3. Kept(j)
      BY <2>2, <3>2
    <3>4. /\ x \in among /\ x \in 2..n /\ dx \in 1..dt /\ (dx = 1 \/ dx + j <= dt)
          /\ list[t] \in Ball(nodes, edges, list[x])[dt - dx]
      BY <1>1, <1>6, <3>1, <3>3 DEF OnThePath
    <3>5. f[i] = Back(P, x)
      BY <1>12, <3>1, <3>2
    <3>6. x \in 1..n /\ dx # Far
      BY <1>1, <1>4, <1>7, <3>4
    <3>7. PICK y : y = P[x]
      OBVIOUS
    <3>8. y \in 1..n /\ D[y] + 1 = dx /\ Adjacent(edges, list[y], list[x]) /\ y # Unset
      BY <1>4, <3>1, <3>4, <3>6, <3>7 DEF Unset
    <3>9. CASE y = 1
      <4>1. f[i] = x /\ dx = 1
        BY <1>4, <3>4, <3>5, <3>7, <3>8, <3>9 DEF Back
      <4> QED
        BY <1>1, <1>6, <2>2, <3>1, <3>4, <4>1 DEF OnThePath
    <3>10. CASE y # 1
      <4>1. f[i] = y /\ y \in 2..n
        BY <1>1, <3>5, <3>7, <3>8, <3>10 DEF Back
      <4>2. PICK dy : dy = D[y]
        OBVIOUS
      <4>3. dy \in Nat /\ dy + 1 = dx
        BY <1>4, <3>8, <4>2
      <4>4. dy # Far
        BY <1>1, <1>4, <1>7, <3>4, <4>3
      <4>5. dy \in 1..n
        BY <1>5, <4>1, <4>2, <4>4
      <4>6. dy \in 1..dt /\ (dy = 1 \/ dy + i <= dt)
        BY <1>7, <3>2, <3>4, <4>3, <4>5
      <4>7. PICK k : k = dt - dy
        OBVIOUS
      <4>8. k \in 1..n /\ k - 1 = dt - dx
        BY <1>1, <1>7, <3>4, <4>3, <4>5, <4>7
      <4>9. list[t] \in Ball(nodes, edges, list[y])[k]
        <5>1. list[x] \in nodes /\ k \in 1..Cardinality(nodes)
          BY <1>1, <3>6, <4>8
        <5> QED
          BY <3>4, <3>8, <4>8, <5>1, HopReaches
      <4>10. y \in among
        BY <1>2, <3>1, <3>4, <3>6, <3>7, <3>10
      <4>11. Kept(i)
        BY <1>1, <1>6, <4>1, <4>2, <4>6, <4>7, <4>9, <4>10 DEF OnThePath
      <4> QED
        BY <2>2, <4>11
    <3> QED
      BY <3>9, <3>10
  <2> QED
    BY <2>3, <2>4
<1>14. Kept(n)
  BY <1>1, <1>13
<1>15. PICK x : x = f[n]
  OBVIOUS
<1>16. /\ x \in among /\ x \in 2..n /\ D[x] \in 1..dt /\ (D[x] = 1 \/ D[x] + n <= dt)
       /\ list[t] \in Ball(nodes, edges, list[x])[dt - D[x]]
  BY <1>1, <1>6, <1>14, <1>15 DEF OnThePath
<1>17. D[x] = 1
  BY <1>1, <1>7, <1>16
<1>18. Adjacent(edges, r, list[x])
  <2>1. D[x] # Far
    BY <1>1, <1>4, <1>7, <1>16
  <2>2. P[x] \in 1..n /\ D[P[x]] + 1 = D[x] /\ Adjacent(edges, list[P[x]], list[x])
    BY <1>4, <1>16, <2>1
  <2>3. PICK y : y = P[x]
    OBVIOUS
  <2>4. y \in 1..n /\ D[y] = 0
    BY <1>4, <1>17, <2>2, <2>3
  <2>5. D[y] # Far /\ y \notin 2..n
    BY <1>1, <1>4, <1>5, <2>4
  <2>6. y = 1
    BY <1>1, <2>4, <2>5
  <2> QED
    BY <1>1, <2>2, <2>3, <2>6
<1> QED
  BY <1>2, <1>6, <1>7, <1>11, <1>15, <1>16, <1>17, <1>18

LEMMA DistanceFound ==
  ASSUME NEW nodes, IsFiniteSet(nodes), Cardinality(nodes) < Far, NEW r \in nodes,
         NEW list \in RouterLists(r, nodes \ {r}), NEW edges,
         NEW n, n = Cardinality(nodes), NEW v \in 1..n,
         NEW k, k = Dijkstra(list, edges).dist[v]
  PROVE  /\ list[v] \in Reached(nodes, edges, r) <=> k # Far
         /\ k # Far => k = Distance(nodes, edges, r, list[v])
         /\ k # Far => k \in 0..n
<1>1. /\ n \in Nat \ {0} /\ list \in [1..n -> nodes] /\ Len(list) = n
      /\ n \in 0..n
  BY ListFacts
<1>2. /\ k \in Nat /\ (k # Far => k <= n)
      /\ Far \in Nat /\ n < Far
  <2>1. DijkstraInv(list, edges, Dijkstra(list, edges), n, n)
    BY <1>1, DijkstraFacts
  <2>2. k \in 0..Far /\ (k # Far => k <= n)
    BY <2>1 DEF DijkstraInv, Measured
  <2>3. 0..Far \subseteq Nat /\ Far \in Nat
    BY DEF Far
  <2> QED
    BY <2>2, <2>3
<1>3. PICK o : o = list[v]
  OBVIOUS
<1>4. ASSUME k # Far
      PROVE  o \in Reached(nodes, edges, r) /\ Distance(nodes, edges, r, o) \in 0..k
  <2>1. k \in 0..n
    BY <1>1, <1>2, <1>4
  <2>2. o \in Ball(nodes, edges, r)[k]
    BY <1>3, <2>1, DistancesFound
  <2> QED
    BY <2>1, <2>2, DistanceFacts
<1>5. ASSUME o \in Reached(nodes, edges, r)
      PROVE  k # Far /\ k <= Distance(nodes, edges, r, o)
  <2>1. PICK d : d = Distance(nodes, edges, r, o)
    OBVIOUS
  <2>2. d \in 0..n /\ o \in Ball(nodes, edges, r)[d]
    BY <1>5, <2>1, ReachedDistance
  <2>3. k <= d
    BY <1>3, <2>2, DistancesFound
  <2> QED
    BY <1>1, <1>2, <2>1, <2>2, <2>3
<1>6. ASSUME k # Far
      PROVE  k = Distance(nodes, edges, r, o) /\ k \in 0..n
  <2>1. PICK d : d = Distance(nodes, edges, r, o)
    OBVIOUS
  <2>2. d \in 0..k /\ k <= d
    BY <1>4, <1>5, <1>6, <2>1
  <2>3. k \in 0..n
    BY <1>1, <1>2, <1>6
  <2> QED
    BY <2>1, <2>2, <2>3
<1> QED
  BY <1>3, <1>4, <1>5, <1>6

(***************************************************************************)
(* The walk back along prev finds a first hop, whatever the order of the   *)
(* database.                                                               *)
(***************************************************************************)
LEMMA WalkFindsFirstHop ==
  ASSUME NEW nodes, IsFiniteSet(nodes), Cardinality(nodes) < Far, NEW r \in nodes,
         NEW list \in RouterLists(r, nodes \ {r}), NEW edges,
         NEW n, n = Cardinality(nodes), NEW t \in 1..n, list[t] # r,
         list[t] \in Reached(nodes, edges, r)
  PROVE  WalkBack(list, edges, t) \in FirstHops(nodes, edges, r, list[t])
<1>1. n \in Nat \ {0} /\ list \in [1..n -> nodes] /\ Len(list) = n /\ list[1] = r
  BY ListFacts
<1>2. PICK s, k : s = Dijkstra(list, edges) /\ k = s.dist[t]
  OBVIOUS
<1>3. k # Far /\ k = Distance(nodes, edges, r, list[t])
  BY <1>2, DistanceFound
<1>4. t \in 2..n
  BY <1>1
<1> DEFINE among == Int
<1>5. \A x \in 2..n : x \in among /\ s.dist[x] # Far /\ s.prev[x] # 1 => s.prev[x] \in among
  <2>1. DijkstraInv(list, edges, s, n, n)
    BY <1>1, <1>2, DijkstraFacts
  <2>2. s.prev \in [1..n -> 0..n]
    BY <2>1 DEF DijkstraInv, Measured
  <2>3. \A x \in 2..n : x \in 1..n
    BY <1>1
  <2> QED
    BY <1>1, <2>2, <2>3
<1>6. t \in among
  BY <1>4
<1> HIDE DEF among
<1>7. PICK x \in among : /\ WalkBack(list, edges, t) = list[x] /\ x \in 2..n
                         /\ Adjacent(edges, r, list[x])
                         /\ list[t] \in Ball(nodes, edges, list[x])[s.dist[t] - 1]
  BY <1>2, <1>3, <1>4, <1>5, <1>6, WalkFollowsPath
<1>8. list[x] \in nodes
  BY <1>1, <1>7
<1> QED
  BY <1>2, <1>3, <1>7, <1>8 DEF FirstHops

(***************************************************************************)
(* There is an order of the database in which given routers come first.    *)
(***************************************************************************)
LEMMA ListWithFirst ==
  ASSUME NEW nodes, IsFiniteSet(nodes), NEW r \in nodes, NEW first, first \subseteq nodes \ {r},
         NEW n, n = Cardinality(nodes)
  PROVE  \E list \in RouterLists(r, nodes \ {r}) :
           \A i, j \in 2..n : list[i] \in first /\ list[j] \notin first => i < j
<1> DEFINE rest == (nodes \ {r}) \ first
<1>1. PICK p, q : p = Cardinality(first) /\ q = Cardinality(rest)
  OBVIOUS
<1>2. /\ IsFiniteSet(first) /\ IsFiniteSet(rest) /\ IsFiniteSet(nodes \ {r})
      /\ n \in Nat /\ Cardinality(nodes \ {r}) = n - 1
  <2>1. IsFiniteSet(nodes \ {r}) /\ Cardinality(nodes \ {r}) = Cardinality(nodes) - 1
    BY FS_RemoveElement
  <2> QED
    BY <2>1, FS_Subset, FS_CardinalityType
<1>3. p \in Nat /\ q \in Nat /\ ExistsBijection(1..p, first) /\ ExistsBijection(1..q, rest)
  BY <1>1, <1>2, FS_CardinalityType
<1>4. n = p + q + 1
  <2>1. first \cup rest = nodes \ {r} /\ first \cap rest = {}
    OBVIOUS
  <2>2. Cardinality(first \cup rest) = p + q - 0
    <3>1. Cardinality({}) = 0
      BY FS_EmptySet
    <3> HIDE DEF rest
    <3> QED
      BY <1>1, <1>2, <2>1, <3>1, FS_Union
  <2>3. PICK m : m = Cardinality(nodes \ {r})
    OBVIOUS
  <2>4. m = p + q - 0 /\ m = n - 1
    BY <1>2, <2>1, <2>2, <2>3
  <2> QED
    BY <1>2, <1>3, <2>4
<1>5. PICK a : /\ a \in [1..p -> first] /\ \A i, j \in 1..p : a[i] = a[j] => i = j
  <2>1. PICK a : a \in Bijection(1..p, first)
    BY <1>3 DEF ExistsBijection
  <2> QED
    BY <2>1 DEF Bijection, Injection, IsInjective
<1>6. PICK b : /\ b \in [1..q -> rest] /\ \A i, j \in 1..q : b[i] = b[j] => i = j
  <2>1. PICK b : b \in Bijection(1..q, rest)
    BY <1>3 DEF ExistsBijection
  <2> QED
    BY <2>1 DEF Bijection, Injection, IsInjective
<1>7. PICK list : list = [i \in 1..n |-> IF i = 1 THEN r
                                         ELSE IF i <= p + 1 THEN a[i - 1] ELSE b[i - p - 1]]
  OBVIOUS
<1>8. \A i \in 2..n : \/ i <= p + 1 /\ i - 1 \in 1..p /\ list[i] = a[i - 1]
                      \/ i > p + 1 /\ i - p - 1 \in 1..q /\ list[i] = b[i - p - 1]
  BY <1>3, <1>4, <1>7
<1>9. /\ list[1] = r
      /\ \A i \in 2..n : \/ i <= p + 1 /\ list[i] \in first
                         \/ i > p + 1 /\ list[i] \in rest
  BY <1>3, <1>4, <1>5, <1>6, <1>7, <1>8
<1>10. \A i \in 1..n : i = 1 \/ i \in 2..n
  BY <1>2
<1>11. list \in [1..n -> (nodes \ {r}) \cup {r}]
  <2>1. \A i \in 1..n : list[i] \in (nodes \ {r}) \cup {r}
    BY <1>9, <1>10
  <2> QED
    BY <1>7, <2>1
<1>12. ASSUME NEW i \in 1..n, NEW j \in 1..n, list[i] = list[j]
       PROVE  i = j
  <2>1. CASE i = 1 \/ j = 1
    <3>1. \A x \in 2..n : list[x] # r
      BY <1>9
    <3> QED
      BY <1>9, <1>10, <1>12, <2>1, <3>1
  <2>2. CASE i # 1 /\ j # 1
    <3>1. i \in 2..n /\ j \in 2..n
      BY <1>10, <2>2
    <3>2. CASE i <= p + 1 /\ j <= p + 1
      <4>1. i - 1 \in 1..p /\ j - 1 \in 1..p /\ a[i - 1] = a[j - 1]
        BY <1>3, <1>8, <1>12, <3>1, <3>2
      <4>2. i - 1 = j - 1
        BY <1>5, <4>1
      <4> QED
        BY <3>1, <4>2
    <3>3. CASE i > p + 1 /\ j > p + 1
      <4>1. i - p - 1 \in 1..q /\ j - p - 1 \in 1..q /\ b[i - p - 1] = b[j - p - 1]
        BY <1>3, <1>8, <1>12, <3>1, <3>3
      <4>2. i - p - 1 = j - p - 1
        BY <1>6, <4>1
      <4> QED
        BY <1>3, <3>1, <4>2
    <3>4. CASE i <= p + 1 /\ j > p + 1
      BY <1>3, <1>9, <1>12, <3>1, <3>4
    <3>5. CASE i > p + 1 /\ j <= p + 1
      BY <1>3, <1>9, <1>12, <3>1, <3>5
    <3> QED
      BY <1>3, <3>1, <3>2, <3>3, <3>4, <3>5
  <2> QED
    BY <2>1, <2>2
<1>13. list \in RouterLists(r, nodes \ {r})
  <2>1. Cardinality(nodes \ {r}) + 1 = n
    BY <1>2
  <2> QED
    BY <1>9, <1>11, <1>12, <2>1 DEF RouterLists
<1>14. \A i, j \in 2..n : list[i] \in first /\ list[j] \notin first => i < j
  BY <1>3, <1>9
<1> QED
  BY <1>13, <1>14

(***************************************************************************)
(* Every first hop of a shortest path is found in some order: the one in   *)
(* which the routers come first that it is a first hop for.                *)
(***************************************************************************)
LEMMA EveryFirstHopFound ==
  ASSUME NEW nodes, IsFiniteSet(nodes), Cardinality(nodes) < Far, NEW r \in nodes,
         NEW edges, NEW o \in nodes \ {r}, NEW h \in FirstHops(nodes, edges, r, o)
  PROVE  \E list \in RouterLists(r, nodes \ {r}) : \E t \in DOMAIN list :
           list[t] = o /\ WalkBack(list, edges, t) = h
<1>1. PICK n, first : /\ n = Cardinality(nodes)
                      /\ first = {v \in nodes : h \in FirstHops(nodes, edges, r, v)}
  OBVIOUS
<1>2. first \subseteq nodes \ {r} /\ o \in first
  BY <1>1 DEF FirstHops
<1>3. PICK list \in RouterLists(r, nodes \ {r}) :
             \A i, j \in 2..n : list[i] \in first /\ list[j] \notin first => i < j
  BY <1>1, <1>2, ListWithFirst
<1>4. /\ n \in Nat \ {0} /\ list \in [1..n -> nodes] /\ Len(list) = n /\ list[1] = r
      /\ \A i, j \in 1..n : list[i] = list[j] => i = j
      /\ \A v \in nodes : \E i \in 1..n : list[i] = v
  BY <1>1, ListFacts
<1>5. PICK s : s = Dijkstra(list, edges)
  OBVIOUS
<1>6. \A i \in 1..n : /\ list[i] \in Reached(nodes, edges, r) <=> s.dist[i] # Far
                      /\ s.dist[i] # Far => /\ s.dist[i] = Distance(nodes, edges, r, list[i])
                                            /\ s.dist[i] \in 0..n
  BY <1>1, <1>5, DistanceFound
<1>7. \A i \in 1..n : list[i] \in first =>
        /\ i \in 2..n /\ s.dist[i] # Far /\ s.dist[i] \in 0..n
        /\ Adjacent(edges, r, h) /\ h \in nodes
        /\ list[i] \in Ball(nodes, edges, h)[s.dist[i] - 1]
  BY <1>1, <1>2, <1>4, <1>6 DEF FirstHops
<1>8. DijkstraInv(list, edges, s, n, n) /\ s.visited = 1..n
  BY <1>1, <1>4, <1>5, DijkstraFacts
<1>9. PICK t \in 1..n : list[t] = o
  BY <1>4
<1> DEFINE among == {i \in 2..n : list[i] \in first}
<1>10. t \in among /\ t \in 2..n /\ s.dist[t] # Far
  BY <1>2, <1>7, <1>9
<1>11. ASSUME NEW x \in 2..n, x \in among, s.dist[x] # Far, s.prev[x] # 1
       PROVE  s.prev[x] \in among
  <2>1. PICK e, y : e = s.dist[x] /\ y = s.prev[x]
    OBVIOUS
  <2>2. /\ x \in 1..n /\ list[x] \in first /\ e \in 0..n /\ e # Far
        /\ Adjacent(edges, r, h) /\ h \in nodes /\ list[x] \in Ball(nodes, edges, h)[e - 1]
        /\ e = Distance(nodes, edges, r, list[x]) /\ list[x] \in Reached(nodes, edges, r)
    BY <1>4, <1>6, <1>7, <1>11, <2>1
  <2>3. y \in 1..n /\ y \in 2..n /\ s.dist[y] + 1 = e
    BY <1>4, <1>8, <1>11, <2>1 DEF DijkstraInv, BackAlongPrev
  <2>4. PICK f : f = s.dist[y]
    OBVIOUS
  <2>5. f # Far /\ f \in Nat /\ f \in 1..n /\ f + 1 = e /\ Far \in Nat /\ n < Far
    <3>1. s.dist \in [1..n -> 0..Far]
      BY <1>8 DEF DijkstraInv, Measured
    <3>2. 0..Far \subseteq Nat /\ Far \in Nat /\ n < Far
      BY <1>1 DEF Far
    <3>3. f \in Nat /\ f + 1 = e /\ e \in Nat /\ e <= n
      BY <1>4, <2>2, <2>3, <2>4, <3>1, <3>2
    <3>4. f # Far
      BY <1>4, <3>2, <3>3
    <3>5. s.prev[y] \in 1..n /\ s.dist[s.prev[y]] + 1 = f
      BY <1>8, <2>3, <2>4, <3>4 DEF DijkstraInv, BackAlongPrev
    <3>6. s.dist[s.prev[y]] \in Nat
      BY <3>1, <3>2, <3>5
    <3>7. f # 0
      BY <3>5, <3>6
    <3> QED
      BY <1>4, <3>2, <3>3, <3>4, <3>7
  <2>6. /\ f \in 1..Cardinality(nodes) /\ e \in 1..Cardinality(nodes)
        /\ e - 1 = f /\ f \in 0..(e - 1) /\ f - 1 \in 0..Cardinality(nodes) /\ f \in 0..n
    BY <1>1, <1>4, <2>2, <2>5
  <2>7. list[x] \notin Ball(nodes, edges, h)[f - 1]
    <3>1. list[x] \notin Ball(nodes, edges, r)[f]
      BY <2>2, <2>6, ReachedDistance
    <3> QED
      BY <2>2, <2>6, <3>1, HopReaches
  <2>8. PICK u \in Ball(nodes, edges, h)[f - 1] : Adjacent(edges, u, list[x])
    <3>1. Ball(nodes, edges, h)[f] = Widened(nodes, edges, Ball(nodes, edges, h)[f - 1])
      BY <2>6, BallFacts
    <3>2. list[x] \in Ball(nodes, edges, h)[f]
      BY <2>2, <2>6
    <3> QED
      BY <2>7, <3>1, <3>2 DEF Widened
  <2>9. u \in Ball(nodes, edges, r)[f] /\ u \in nodes
    BY <2>2, <2>6, <2>8, HopReaches, BallInNodes
  <2>10. PICK w \in 1..n : list[w] = u
    BY <1>4, <2>9
  <2>11. PICK k : k = s.dist[w]
    OBVIOUS
  <2>12. k = f
    <3>1. k \in Nat /\ k <= Far
      <4>1. s.dist \in [1..n -> 0..Far]
        BY <1>8 DEF DijkstraInv, Measured
      <4>2. \A a \in 0..Far : a \in Nat /\ a <= Far
        BY DEF Far
      <4> QED
        BY <2>10, <2>11, <4>1, <4>2
    <3>2. k <= f
      BY <1>1, <1>5, <2>6, <2>9, <2>10, <2>11, DistancesFound
    <3>3. k # Far
      BY ONLY <1>4, <2>5, <3>1, <3>2
    <3>4. e <= k + 1
      BY <1>8, <2>1, <2>2, <2>8, <2>10, <2>11, <3>3 DEF DijkstraInv, Relaxed
    <3> QED
      BY <2>5, <3>1, <3>2, <3>4
  <2>13. w \in 2..n
    <3>1. s.dist[1] = 0
      BY <1>8 DEF DijkstraInv, Measured
    <3>2. w # 1
      <4>1. s.dist[w] # 0
        BY <1>4, <2>5, <2>11, <2>12
      <4> QED
        BY ONLY <3>1, <4>1
    <3> QED
      BY <1>4, <2>10, <3>2
  <2>14. u \in first
    <3>1. u \in Reached(nodes, edges, r) /\ f = Distance(nodes, edges, r, u)
      BY <1>6, <2>5, <2>10, <2>11, <2>12
    <3>2. u # r
      BY <1>4, <2>10, <2>13
    <3>3. h \in FirstHops(nodes, edges, r, u)
      BY <2>2, <2>8, <3>1, <3>2 DEF FirstHops
    <3> QED
      BY <1>1, <2>9, <3>3
  <2>15. y <= w
    BY <1>8, <1>11, <2>1, <2>5, <2>8, <2>10, <2>11, <2>12 DEF DijkstraInv, FirstOfNearer
  <2>16. list[y] \in first
    BY <1>3, <1>4, <2>3, <2>10, <2>13, <2>14, <2>15
  <2> QED
    BY <2>1, <2>3, <2>16
<1> HIDE DEF among
<1>12. PICK x \in among : /\ WalkBack(list, edges, t) = list[x] /\ x \in 2..n
                          /\ s.dist[x] = 1
  BY <1>1, <1>5, <1>10, <1>11, WalkFollowsPath
<1>13. list[x] \in Ball(nodes, edges, h)[0]
  <2>1. list[x] \in first /\ x \in 1..n
    BY <1>4, <1>12 DEF among
  <2> QED
    BY <1>7, <1>12, <2>1
<1>14. list[x] = h
  BY <1>13, BallFacts
<1> QED
  BY <1>4, <1>9, <1>12, <1>14

(***************************************************************************)
(* Dijkstra and the walk back along prev find exactly the first hops of    *)
(* shortest paths in every graph and for every order of the database, if   *)
(* there are fewer routers than the distance that stands for none.         *)
(***************************************************************************)
LEMMA HopsFoundAreFirstHops ==
  ASSUME NEW nodes, IsFiniteSet(nodes), Cardinality(nodes) < Far, NEW r \in nodes,
         NEW edges, NEW o \in nodes \ {r}, FirstHops(nodes, edges, r, o) # {}
  PROVE  HopsFound(r, nodes \ {r}, edges, o) = FirstHops(nodes, edges, r, o)
<1> DEFINE place(list) == CHOOSE t \in DOMAIN list : list[t] = o
<1>1. PICK n : n = Cardinality(nodes)
  OBVIOUS
<1>2. o \in Reached(nodes, edges, r)
  BY DEF FirstHops
<1>3. ASSUME NEW list \in RouterLists(r, nodes \ {r})
      PROVE  /\ place(list) \in 1..n /\ DOMAIN list = 1..n /\ list[place(list)] = o
             /\ \A t \in DOMAIN list : list[t] = o => t = place(list)
  <2>1. /\ DOMAIN list = 1..n /\ \A i, j \in 1..n : list[i] = list[j] => i = j
        /\ \E t \in 1..n : list[t] = o
    BY <1>1, ListFacts
  <2>2. place(list) \in DOMAIN list /\ list[place(list)] = o
    BY <2>1
  <2> QED
    BY <2>1, <2>2
<1>4. HopsFound(r, nodes \ {r}, edges, o) =
        {WalkBack(list, edges, place(list)) : list \in RouterLists(r, nodes \ {r})}
  BY DEF HopsFound
<1> HIDE DEF place
<1>5. ASSUME NEW list \in RouterLists(r, nodes \ {r})
      PROVE  WalkBack(list, edges, place(list)) \in FirstHops(nodes, edges, r, o)
  <2>1. PICK t : t = place(list)
    OBVIOUS
  <2>2. t \in 1..n /\ list[t] = o
    BY <1>3, <2>1
  <2> QED
    BY <1>1, <1>2, <2>1, <2>2, WalkFindsFirstHop
<1>6. ASSUME NEW h \in FirstHops(nodes, edges, r, o)
      PROVE  \E list \in RouterLists(r, nodes \ {r}) : WalkBack(list, edges, place(list)) = h
  <2>1. PICK list \in RouterLists(r, nodes \ {r}) : \E t \in DOMAIN list :
               list[t] = o /\ WalkBack(list, edges, t) = h
    BY EveryFirstHopFound
  <2> QED
    BY <1>3, <2>1
<1> QED
  BY <1>4, <1>5, <1>6

LEMMA RoutersFewerThanFar ==
  ASSUME TypeOK, NEW r \in Router
  PROVE  IsFiniteSet(Known(r)) /\ Cardinality(Known(r)) < Far /\ r \in Known(r)
<1>1. Known(r) \subseteq Router /\ r \in Known(r)
  BY DEF Known
<1>2. IsFiniteSet(Known(r)) /\ Cardinality(Known(r)) <= Cardinality(Router)
  BY <1>1, MospfAssumption, FS_Subset
<1>3. Cardinality(Known(r)) \in Nat /\ Cardinality(Router) \in Nat
  BY <1>2, MospfAssumption, FS_CardinalityType
<1>4. PICK k, l : k = Cardinality(Known(r)) /\ l = Cardinality(Router)
  OBVIOUS
<1>5. k \in Nat /\ l \in Nat /\ k <= l /\ l < Far /\ Far \in Nat
  BY <1>2, <1>3, <1>4, MospfAssumption DEF Far
<1> QED
  BY <1>1, <1>2, <1>4, <1>5

(***************************************************************************)
(* Routes are over shortest paths in the graph of the database: what       *)
(* Dijkstra, min_dist and update_router compute is FirstHops, in every     *)
(* state, for every area and every order of the database.                  *)
(***************************************************************************)
THEOREM DijkstraIsRight == Spec => []DijkstraFindsFirstHops
<1>1. TypeOK => DijkstraFindsFirstHops
  <2> SUFFICES ASSUME TypeOK, NEW r \in Router, NEW o \in Known(r) \ {r}, Hops(r, o) # {}
               PROVE  HopsFound(r, Known(r) \ {r}, init_graph(r), o) = Hops(r, o)
    BY DEF DijkstraFindsFirstHops
  <2> QED
    BY RoutersFewerThanFar, HopsFoundAreFirstHops DEF Hops
<1> QED
  BY <1>1, TypeCorrect, PTL
=============================================================================
