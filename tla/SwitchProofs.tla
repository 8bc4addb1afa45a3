--------------------------- MODULE SwitchProofs ----------------------------
(***************************************************************************)
(* Proofs about Switch, for any network without loops: its types, and that *)
(* until a switch sends a frame back, entries lead to their hosts and a    *)
(* frame has one copy that arrives or has arrived.                         *)
(*                                                                         *)
(* What makes the second inductive is a fact about frames: one that waits  *)
(* at a port comes from a host behind that port.  A switch passes it on by *)
(* other ports only, and the network has no loop, so it holds at the next  *)
(* switch as well.                                                         *)
(***************************************************************************)
EXTENDS Switch, FiniteSetTheorems, TLAPS

FramesComeFromHome ==
  ~sentBack => \A s \in Switch : \A p \in Port[s] : \A i \in 1..Len(queue[s][p]) :
                 Toward[s][queue[s][p][i].src] = p

\* The frame f goes from the queue at port p of switch s to the ports out.
Passed(s, p, f, out) ==
  [t \in Switch |-> [q \in Port[t] |->
     LET taken == [queue EXCEPT ![s][p] = Tail(@)]
     IN IF t \in out /\ q = s THEN Append(taken[t][q], f) ELSE taken[t][q]]]

(***************************************************************************)
(* A frame leaves by ports of its switch, and by the one it came from only *)
(* when the switch sends it back.                                          *)
(***************************************************************************)
LEMMA OutPortsLemma ==
  ASSUME TypeOK, NEW s \in Switch, NEW p \in Port[s], NEW h \in Host
  PROVE  /\ OutPorts(s, p, h) \subseteq Port[s]
         /\ lookup_port(s, h) # p => p \notin OutPorts(s, p, h)
  BY DEF TypeOK, OutPorts, lookup_port, broadcast_packet

(***************************************************************************)
(* What the queues hold after a step: what they held, or the new frame.    *)
(***************************************************************************)
LEMMA PassedLemma ==
  ASSUME TypeOK, NEW s \in Switch, NEW p \in Port[s], queue[s][p] # <<>>,
         NEW f \in Frame, NEW out,
         NEW t \in Switch, NEW q \in Port[t]
  PROVE  /\ Passed(s, p, f, out)[t][q] \in Seq(Frame)
         /\ \A i \in 1..Len(Passed(s, p, f, out)[t][q]) :
              \/ \E j \in 1..Len(queue[t][q]) : Passed(s, p, f, out)[t][q][i] = queue[t][q][j]
              \/ t \in out /\ q = s /\ Passed(s, p, f, out)[t][q][i] = f
<1> DEFINE taken == [queue EXCEPT ![s][p] = Tail(@)]
           new == Passed(s, p, f, out)[t][q]
<1>1. queue[t][q] \in Seq(Frame) /\ queue[s][p] \in Seq(Frame)
  BY DEF TypeOK
<1>2. taken[t][q] = IF t = s /\ q = p THEN Tail(queue[s][p]) ELSE queue[t][q]
  BY DEF TypeOK
<1>3. new = IF t \in out /\ q = s THEN Append(taken[t][q], f) ELSE taken[t][q]
  BY DEF Passed
<1>4. taken[t][q] \in Seq(Frame)
  BY <1>1, <1>2
<1>5. \A i \in 1..Len(taken[t][q]) : \E j \in 1..Len(queue[t][q]) : taken[t][q][i] = queue[t][q][j]
  <2>1. CASE t = s /\ q = p
    <3>1. Len(Tail(queue[s][p])) = Len(queue[s][p]) - 1
      BY <1>1
    <3>2. \A i \in 1..Len(Tail(queue[s][p])) : /\ Tail(queue[s][p])[i] = queue[s][p][i + 1]
                                              /\ i + 1 \in 1..Len(queue[s][p])
      BY <1>1, <3>1
    <3> HIDE DEF taken
    <3> QED BY <1>2, <2>1, <3>2
  <2>2. CASE ~(t = s /\ q = p)
    <3> HIDE DEF taken
    <3> QED BY <1>2, <2>2
  <2> QED BY <2>1, <2>2
<1> HIDE DEF taken
<1>6. new \in Seq(Frame)
  BY <1>3, <1>4
<1>7. ASSUME NEW i \in 1..Len(new)
      PROVE  \/ \E j \in 1..Len(queue[t][q]) : new[i] = queue[t][q][j]
             \/ t \in out /\ q = s /\ new[i] = f
  <2> HIDE DEF new
  <2>1. CASE t \in out /\ q = s
    <3>1. Len(new) = Len(taken[t][q]) + 1
      BY <1>3, <1>4, <2>1
    <3>2. CASE i = Len(new)
      BY <1>3, <1>4, <2>1, <3>1, <3>2
    <3>3. CASE i # Len(new)
      <4>1. i \in 1..Len(taken[t][q]) /\ new[i] = taken[t][q][i]
        BY <1>3, <1>4, <2>1, <3>1, <3>3
      <4> QED BY <4>1, <1>5
    <3> QED BY <3>2, <3>3
  <2>2. CASE ~(t \in out /\ q = s)
    BY <1>3, <1>5, <2>2
  <2> QED BY <2>1, <2>2
<1> QED BY <1>6, <1>7

-----------------------------------------------------------------------------
(***************************************************************************)
(* Types, through each action.                                             *)
(***************************************************************************)
LEMMA InitTypeOK == Init => TypeOK
<1> SUFFICES ASSUME Init PROVE TypeOK
  OBVIOUS
<1>1. /\ table \in [Switch -> [Host -> Element \cup {None}]]
      /\ \A s \in Switch : \A h \in Host : table[s][h] \in Port[s] \cup {None}
  BY DEF Init
<1>2. DOMAIN queue = Switch /\ \A s \in Switch : DOMAIN queue[s] = Port[s]
  BY DEF Init
<1>3. \A s \in Switch : \A p \in Port[s] : queue[s][p] \in Seq(Frame)
  <2>1. \A s \in Switch : \A p \in Port[s] : queue[s][p] = <<>>
    BY DEF Init
  <2>2. <<>> \in Seq(Frame)
    OBVIOUS
  <2> QED BY <2>1, <2>2
<1>4. /\ age \in [Switch -> [Host -> (0..Timeout + 1) \cup {None}]]
      /\ \A s \in Switch : \A h \in Host : table[s][h] = None <=> age[s][h] = None
  BY NetworkAssumption DEF Init
<1>5. sent \in 0..Frames /\ received \in [1..Frames -> Nat]
  BY NetworkAssumption DEF Init
<1>6. sentBack \in BOOLEAN
  BY Zenon DEF Init
<1> QED BY <1>1, <1>2, <1>3, <1>4, <1>5, <1>6 DEF TypeOK

LEMMA SendFrameTypeOK ==
  ASSUME TypeOK, NEW s \in Switch, NEW src \in Host, NEW dst \in Host, SendFrame(s, src, dst)
  PROVE  TypeOK'
<1> DEFINE f == [id |-> sent + 1, src |-> src, dst |-> dst]
<1>1. f \in Frame /\ sent' \in 0..Frames
  BY NetworkAssumption DEF SendFrame, TypeOK, Frame
<1>2. \A t \in Switch : \A q \in Port[t] :
        queue'[t][q] = IF t = s /\ q = src THEN Append(queue[t][q], f) ELSE queue[t][q]
  BY DEF SendFrame, TypeOK
<1>3. \A t \in Switch : \A q \in Port[t] : queue'[t][q] \in Seq(Frame)
  <2> SUFFICES ASSUME NEW t \in Switch, NEW q \in Port[t] PROVE queue'[t][q] \in Seq(Frame)
    OBVIOUS
  <2>1. queue[t][q] \in Seq(Frame)
    BY DEF TypeOK
  <2> HIDE DEF f
  <2>2. Append(queue[t][q], f) \in Seq(Frame)
    BY <1>1, <2>1
  <2>3. queue'[t][q] = IF t = s /\ q = src THEN Append(queue[t][q], f) ELSE queue[t][q]
    BY <1>2
  <2> QED BY ONLY <2>1, <2>2, <2>3
<1>4. DOMAIN queue' = Switch /\ \A t \in Switch : DOMAIN queue'[t] = Port[t]
  BY DEF SendFrame, TypeOK
<1> QED BY <1>1, <1>3, <1>4 DEF SendFrame, TypeOK

LEMMA HandlePacketStep ==
  ASSUME TypeOK, NEW s \in Switch, NEW p \in Port[s], handle_packet(s, p)
  PROVE  /\ Head(queue[s][p]) \in Frame /\ queue[s][p] # <<>>
         /\ \E i \in 1..Len(queue[s][p]) : Head(queue[s][p]) = queue[s][p][i]
         /\ queue' = Passed(s, p, Head(queue[s][p]), OutPorts(s, p, Head(queue[s][p]).dst))
<1>1. queue[s][p] \in Seq(Frame) /\ queue[s][p] # <<>>
  BY DEF TypeOK, handle_packet
<1>2. 1 \in 1..Len(queue[s][p]) /\ Head(queue[s][p]) = queue[s][p][1]
  BY <1>1
<1>3. queue' = Passed(s, p, Head(queue[s][p]), OutPorts(s, p, Head(queue[s][p]).dst))
  BY DEF handle_packet, Passed
<1> QED BY <1>1, <1>2, <1>3

LEMMA HandlePacketTypeOK ==
  ASSUME TypeOK, NEW s \in Switch, NEW p \in Port[s], handle_packet(s, p)
  PROVE  TypeOK'
<1> DEFINE f == Head(queue[s][p])
           out == OutPorts(s, p, f.dst)
<1>1. f \in Frame /\ queue[s][p] # <<>> /\ queue' = Passed(s, p, f, out)
  BY HandlePacketStep
<1>2. \A t \in Switch : \A q \in Port[t] : queue'[t][q] \in Seq(Frame)
  <2> HIDE DEF f, out
  <2> QED BY <1>1, PassedLemma
<1>3. DOMAIN queue' = Switch /\ \A t \in Switch : DOMAIN queue'[t] = Port[t]
  BY <1>1 DEF Passed
<1>4. f.src \in Host /\ p \in Element /\ p # None
  BY <1>1, NetworkAssumption DEF Frame
<1>5. table' = [table EXCEPT ![s][f.src] = p] /\ age' = [age EXCEPT ![s][f.src] = 0]
  BY DEF handle_packet, insert_mac_port
<1>6. /\ table' \in [Switch -> [Host -> Element \cup {None}]]
      /\ \A t \in Switch : \A h \in Host : table'[t][h] \in Port[t] \cup {None}
  <2> HIDE DEF f
  <2> QED BY <1>4, <1>5 DEF TypeOK
<1>7. /\ age' \in [Switch -> [Host -> (0..Timeout + 1) \cup {None}]]
      /\ \A t \in Switch : \A h \in Host : table'[t][h] = None <=> age'[t][h] = None
  <2> HIDE DEF f
  <2> QED BY <1>4, <1>5, NetworkAssumption DEF TypeOK
<1>8. received' \in [1..Frames -> Nat] /\ sent' \in 0..Frames
  <2>1. received' = received \/ received' = [received EXCEPT ![f.id] = @ + 1]
    BY DEF handle_packet
  <2>2. f.id \in 1..Frames
    BY <1>1 DEF Frame
  <2> QED BY <2>1, <2>2 DEF TypeOK, handle_packet
<1>9. sentBack' \in BOOLEAN
  BY DEF handle_packet, TypeOK
<1> QED BY <1>2, <1>3, <1>6, <1>7, <1>8, <1>9 DEF TypeOK

LEMMA TimeTypeOK ==
  ASSUME TypeOK, Tick \/ \E s \in Switch : sweep_aged_mac_port_entry(s)
  PROVE  TypeOK'
<1>1. CASE Tick
  <2>1. age' \in [Switch -> [Host -> (0..Timeout + 1) \cup {None}]]
    BY <1>1, NetworkAssumption DEF TypeOK, Tick, Older
  <2>2. \A s \in Switch : \A h \in Host : table[s][h] = None <=> age'[s][h] = None
    <3> SUFFICES ASSUME NEW s \in Switch, NEW h \in Host
                 PROVE  table[s][h] = None <=> age'[s][h] = None
      OBVIOUS
    <3>1. age'[s][h] = IF table[s][h] = None THEN age[s][h] ELSE Older(age[s][h])
      BY <1>1 DEF Tick
    <3>2. age[s][h] \in (0..Timeout + 1) \cup {None} /\ (table[s][h] = None <=> age[s][h] = None)
      BY DEF TypeOK
    <3>3. age[s][h] # None => Older(age[s][h]) \in Nat
      BY <3>2, NetworkAssumption DEF Older
    <3> QED BY <3>1, <3>2, <3>3, NetworkAssumption
  <2>3. UNCHANGED <<table, queue, sent, received, sentBack>>
    BY <1>1 DEF Tick
  <2> QED BY <2>1, <2>2, <2>3 DEF TypeOK
<1>2. CASE \E s \in Switch : sweep_aged_mac_port_entry(s)
  <2>1. PICK s \in Switch : sweep_aged_mac_port_entry(s)
    BY <1>2
  <2>2. /\ table' = [table EXCEPT ![s] = [h \in Host |-> IF Aged(s, h) THEN None ELSE @[h]]]
        /\ age' = [age EXCEPT ![s] = [h \in Host |-> IF Aged(s, h) THEN None ELSE @[h]]]
    BY <2>1 DEF sweep_aged_mac_port_entry
  <2>3. /\ table' \in [Switch -> [Host -> Element \cup {None}]]
        /\ \A t \in Switch : \A h \in Host : table'[t][h] \in Port[t] \cup {None}
    BY <2>2 DEF TypeOK
  <2>4. /\ age' \in [Switch -> [Host -> (0..Timeout + 1) \cup {None}]]
        /\ \A t \in Switch : \A h \in Host : table'[t][h] = None <=> age'[t][h] = None
    BY <2>2, NetworkAssumption DEF TypeOK
  <2> QED BY <2>1, <2>3, <2>4 DEF TypeOK, sweep_aged_mac_port_entry
<1> QED BY <1>1, <1>2

LEMMA NextTypeOK == TypeOK /\ [Next]_vars => TypeOK'
<1> SUFFICES ASSUME TypeOK, [Next]_vars PROVE TypeOK'
  OBVIOUS
<1>1. ASSUME NEW s \in Switch, NEW src \in Host, NEW dst \in Host, SendFrame(s, src, dst)
      PROVE  TypeOK'
  BY <1>1, SendFrameTypeOK
<1>2. ASSUME NEW s \in Switch, NEW p \in Port[s], handle_packet(s, p) PROVE TypeOK'
  BY <1>2, HandlePacketTypeOK
<1>3. ASSUME Tick \/ \E s \in Switch : sweep_aged_mac_port_entry(s) PROVE TypeOK'
  BY <1>3, TimeTypeOK
<1>4. CASE UNCHANGED vars
  BY <1>4 DEF vars, TypeOK
<1> QED BY <1>1, <1>2, <1>3, <1>4 DEF Next

(***************************************************************************)
(* In every network without loops, tables name ports of their switch, and  *)
(* an entry has both an iface and the time it was last visited.            *)
(***************************************************************************)
THEOREM TypeCorrect == Spec => []TypeOK
  BY InitTypeOK, NextTypeOK, PTL DEF Spec

-----------------------------------------------------------------------------
IInv == TypeOK /\ FramesComeFromHome /\ EntriesLeadHome

LEMMA InitIInv == Init => IInv
  BY InitTypeOK DEF IInv, Init, FramesComeFromHome, EntriesLeadHome

LEMMA SendFrameLeadsHome ==
  ASSUME IInv, NEW s \in Switch, NEW src \in Host, NEW dst \in Host, SendFrame(s, src, dst)
  PROVE  FramesComeFromHome' /\ EntriesLeadHome'
<1> DEFINE f == [id |-> sent + 1, src |-> src, dst |-> dst]
<1>1. EntriesLeadHome'
  BY DEF IInv, SendFrame, EntriesLeadHome
<1>2. \A t \in Switch : \A q \in Port[t] :
        queue'[t][q] = IF t = s /\ q = src THEN Append(queue[t][q], f) ELSE queue[t][q]
  BY DEF IInv, SendFrame, TypeOK
<1>3. ASSUME ~sentBack, NEW t \in Switch, NEW q \in Port[t], NEW i \in 1..Len(queue'[t][q])
      PROVE  Toward[t][queue'[t][q][i].src] = q
  <2>1. queue[t][q] \in Seq(Frame) /\ f.src = src
    BY DEF IInv, TypeOK
  <2>2. \A j \in 1..Len(queue[t][q]) : Toward[t][queue[t][q][j].src] = q
    BY <1>3 DEF IInv, FramesComeFromHome
  <2>3. src \in Port[s] /\ Toward[s][src] = src
    BY NetworkAssumption DEF SendFrame
  <2> HIDE DEF f
  <2>4. CASE t = s /\ q = src
    <3>1. queue'[t][q] = Append(queue[t][q], f)
      BY <1>2, <2>4
    <3>2. i \in 1..Len(queue[t][q]) + 1
      BY <2>1, <3>1
    <3>3. CASE i \in 1..Len(queue[t][q])
      <4>1. queue'[t][q][i] = queue[t][q][i]
        BY <2>1, <3>1, <3>3
      <4> QED BY <4>1, <2>2, <3>3
    <3>4. CASE i = Len(queue[t][q]) + 1
      <4>1. queue'[t][q][i] = f
        BY <2>1, <3>1, <3>4
      <4> QED BY <4>1, <2>1, <2>3, <2>4
    <3> QED BY <2>1, <3>2, <3>3, <3>4
  <2>5. CASE ~(t = s /\ q = src)
    BY <1>2, <2>2, <2>5
  <2> QED BY <2>4, <2>5
<1>4. sentBack' = sentBack
  BY DEF SendFrame
<1> QED BY <1>1, <1>3, <1>4 DEF FramesComeFromHome

LEMMA HandlePacketLeadsHome ==
  ASSUME IInv, NEW s \in Switch, NEW p \in Port[s], handle_packet(s, p)
  PROVE  FramesComeFromHome' /\ EntriesLeadHome'
<1> DEFINE f == Head(queue[s][p])
           out == OutPorts(s, p, f.dst)
<1> SUFFICES ASSUME ~sentBack' PROVE FramesComeFromHome' /\ EntriesLeadHome'
  BY DEF FramesComeFromHome, EntriesLeadHome
<1>1. TypeOK
  BY DEF IInv
<1>2. ~sentBack /\ lookup_port(s, f.dst) # p
  BY DEF handle_packet
<1>3. f \in Frame /\ queue[s][p] # <<>> /\ queue' = Passed(s, p, f, out)
  BY <1>1, HandlePacketStep
<1>4. Toward[s][f.src] = p
  <2>1. PICK i \in 1..Len(queue[s][p]) : f = queue[s][p][i]
    BY <1>1, HandlePacketStep
  <2> QED BY <2>1, <1>2 DEF IInv, FramesComeFromHome
<1>5. f.src \in Host /\ f.dst \in Host
  BY <1>3 DEF Frame
<1>6. out \subseteq Port[s] /\ p \notin out
  BY <1>1, <1>2, <1>5, OutPortsLemma
<1>7. EntriesLeadHome'
  <2>1. table' = [table EXCEPT ![s][f.src] = p]
    BY DEF handle_packet, insert_mac_port
  <2> HIDE DEF f
  <2> QED BY <1>1, <1>2, <1>4, <1>5, <2>1 DEF IInv, TypeOK, EntriesLeadHome
<1>8. ASSUME NEW t \in Switch, NEW q \in Port[t], NEW i \in 1..Len(queue'[t][q])
      PROVE  Toward[t][queue'[t][q][i].src] = q
  <2> HIDE DEF f, out
  <2>1. CASE \E j \in 1..Len(queue[t][q]) : queue'[t][q][i] = queue[t][q][j]
    BY <1>2, <2>1 DEF IInv, FramesComeFromHome
  <2>2. CASE t \in out /\ q = s /\ queue'[t][q][i] = f
    <3>1. t \in Port[s] /\ Toward[s][f.src] # t
      BY <1>4, <1>6, <2>2
    <3>2. Toward[t][f.src] = s
      BY <3>1, <1>5, NetworkAssumption
    <3> QED BY <2>2, <3>2
  <2>3. \/ \E j \in 1..Len(queue[t][q]) : queue'[t][q][i] = queue[t][q][j]
        \/ t \in out /\ q = s /\ queue'[t][q][i] = f
    BY <1>1, <1>3, <1>8, PassedLemma
  <2> QED BY <2>1, <2>2, <2>3
<1> QED BY <1>7, <1>8 DEF FramesComeFromHome

LEMMA TimeLeadsHome ==
  ASSUME IInv, Tick \/ \E s \in Switch : sweep_aged_mac_port_entry(s)
  PROVE  FramesComeFromHome' /\ EntriesLeadHome'
<1>1. CASE Tick
  BY <1>1 DEF IInv, Tick, FramesComeFromHome, EntriesLeadHome
<1>2. CASE \E s \in Switch : sweep_aged_mac_port_entry(s)
  <2>1. PICK s \in Switch : sweep_aged_mac_port_entry(s)
    BY <1>2
  <2>2. FramesComeFromHome'
    BY <2>1 DEF IInv, sweep_aged_mac_port_entry, FramesComeFromHome
  <2>3. \A t \in Switch : \A h \in Host : table'[t][h] \in {None, table[t][h]}
    BY <2>1 DEF IInv, TypeOK, sweep_aged_mac_port_entry
  <2> QED BY <2>1, <2>2, <2>3 DEF IInv, EntriesLeadHome, sweep_aged_mac_port_entry
<1> QED BY <1>1, <1>2

LEMMA NextIInv == IInv /\ [Next]_vars => IInv'
<1> SUFFICES ASSUME IInv, [Next]_vars PROVE FramesComeFromHome' /\ EntriesLeadHome'
  BY NextTypeOK DEF IInv
<1>1. ASSUME NEW s \in Switch, NEW src \in Host, NEW dst \in Host, SendFrame(s, src, dst)
      PROVE  FramesComeFromHome' /\ EntriesLeadHome'
  BY <1>1, SendFrameLeadsHome
<1>2. ASSUME NEW s \in Switch, NEW p \in Port[s], handle_packet(s, p)
      PROVE  FramesComeFromHome' /\ EntriesLeadHome'
  BY <1>2, HandlePacketLeadsHome
<1>3. ASSUME Tick \/ \E s \in Switch : sweep_aged_mac_port_entry(s)
      PROVE  FramesComeFromHome' /\ EntriesLeadHome'
  BY <1>3, TimeLeadsHome
<1>4. CASE UNCHANGED vars
  BY <1>4 DEF IInv, vars, FramesComeFromHome, EntriesLeadHome
<1> QED BY <1>1, <1>2, <1>3, <1>4 DEF Next

(***************************************************************************)
(* In every network without loops, whatever is learnt and swept when, the  *)
(* entries lead to their hosts until a switch sends a frame back.          *)
(***************************************************************************)
THEOREM EntriesAlwaysLeadHome == Spec => []EntriesLeadHome
<1>1. Init => IInv
  BY InitIInv
<1>2. IInv /\ [Next]_vars => IInv'
  BY NextIInv
<1>3. IInv => EntriesLeadHome
  BY DEF IInv
<1> QED BY <1>1, <1>2, <1>3, PTL DEF Spec

-----------------------------------------------------------------------------
(***************************************************************************)
(* The one copy of a frame.  A place is where a copy waits that still goes *)
(* towards the destination.  A frame has one such place until it is        *)
(* received, and none from then on; frames have numbers of their own.      *)
(***************************************************************************)
Place(t, q, i, id) ==
  /\ t \in Switch /\ q \in Port[t] /\ i \in 1..Len(queue[t][q])
  /\ queue[t][q][i].id = id /\ Toward[t][queue[t][q][i].dst] # q

NumbersUsed ==
  /\ \A t \in Switch : \A q \in Port[t] : \A i \in 1..Len(queue[t][q]) : queue[t][q][i].id <= sent
  /\ \A id \in 1..Frames : id > sent => received[id] = 0

NoneTwice(id) ==
  \A t, q, i, u, r, j : Place(t, q, i, id) /\ Place(u, r, j, id) => t = u /\ q = r /\ i = j

OnceOrReceived(id) == received[id] = IF \E t, q, i : Place(t, q, i, id) THEN 0 ELSE 1

EachOnce == ~sentBack => \A id \in 1..sent : NoneTwice(id) /\ OnceOrReceived(id)

CopyInv == IInv /\ NumbersUsed /\ EachOnce

LEMMA OneCopyFrom ==
  ASSUME TypeOK, NEW id, NoneTwice(id), OnceOrReceived(id)
  PROVE  Cardinality(OnTheWay(id)) + received[id] = 1
<1> DEFINE S == OnTheWay(id)
<1>1. \A t \in Switch : \A q \in Port[t] : DOMAIN queue[t][q] = 1..Len(queue[t][q])
  BY DEF TypeOK
<1>2. ASSUME NEW c \in S
      PROVE  \E t, q, i : c = <<t, <<q, i>>>> /\ Place(t, q, i, id)
  <2>1. PICK t \in Switch : c \in {t} \X Waiting(t)
    BY DEF OnTheWay
  <2>2. PICK q \in Port[t] : c[2] \in {q} \X DOMAIN queue[t][q]
    BY <2>1 DEF Waiting
  <2>3. PICK i \in DOMAIN queue[t][q] : c = <<t, <<q, i>>>>
    BY <2>1, <2>2
  <2>4. queue[t][q][i].id = id /\ Toward[t][queue[t][q][i].dst] # q
    BY <2>3 DEF OnTheWay
  <2> QED BY <1>1, <2>3, <2>4 DEF Place
<1>3. ASSUME NEW t, NEW q, NEW i, Place(t, q, i, id)
      PROVE  <<t, <<q, i>>>> \in S
  <2>1. t \in Switch /\ q \in Port[t] /\ i \in DOMAIN queue[t][q]
    BY <1>1, <1>3 DEF Place
  <2>2. <<q, i>> \in Waiting(t)
    BY <2>1 DEF Waiting
  <2>3. queue[t][q][i].id = id /\ Toward[t][queue[t][q][i].dst] # q
    BY <1>3 DEF Place
  <2> QED BY <2>1, <2>2, <2>3 DEF OnTheWay
<1> HIDE DEF S
<1>4. CASE \E t, q, i : Place(t, q, i, id)
  <2>1. PICK t, q, i : Place(t, q, i, id)
    BY <1>4
  <2>2. ASSUME NEW c \in S PROVE c = <<t, <<q, i>>>>
    <3>1. PICK u, r, j : c = <<u, <<r, j>>>> /\ Place(u, r, j, id)
      BY <1>2
    <3>2. t = u /\ q = r /\ i = j
      BY <2>1, <3>1 DEF NoneTwice
    <3> QED BY <3>1, <3>2
  <2>3. S = {<<t, <<q, i>>>>}
    BY <1>3, <2>1, <2>2
  <2>4. Cardinality(S) = 1
    BY <2>3, FS_Singleton
  <2>5. received[id] = 0
    BY <1>4 DEF OnceOrReceived
  <2> QED BY <2>4, <2>5 DEF S
<1>5. CASE ~\E t, q, i : Place(t, q, i, id)
  <2>1. S = {}
    BY <1>2, <1>5
  <2>2. Cardinality(S) = 0
    BY <2>1, FS_EmptySet
  <2>3. received[id] = 1
    BY <1>5 DEF OnceOrReceived
  <2> QED BY <2>2, <2>3 DEF S
<1> QED BY <1>4, <1>5

LEMMA SendFrameCopies ==
  ASSUME CopyInv, NEW s \in Switch, NEW src \in Host, NEW dst \in Host, SendFrame(s, src, dst)
  PROVE  NumbersUsed' /\ EachOnce'
<1> DEFINE f == [id |-> sent + 1, src |-> src, dst |-> dst]
           n == Len(queue[s][src])
<1>1. /\ \A t \in Switch : \A q \in Port[t] : queue[t][q] \in Seq(Frame)
      /\ src \in Port[s] /\ src # dst /\ sent \in Nat /\ sent < Frames /\ Frames \in Nat
      /\ sent' = sent + 1 /\ received' = received /\ sentBack' = sentBack
  BY NetworkAssumption DEF CopyInv, IInv, TypeOK, SendFrame
<1>2. \A t \in Switch : \A q \in Port[t] :
        queue'[t][q] = IF t = s /\ q = src THEN Append(queue[t][q], f) ELSE queue[t][q]
  BY DEF CopyInv, IInv, SendFrame, TypeOK
<1>3. f.id = sent + 1 /\ f.dst = dst
  OBVIOUS
<1> HIDE DEF f
<1>4. n \in Nat
  BY <1>1
<1>5. queue'[s][src] = Append(queue[s][src], f) /\ queue[s][src] \in Seq(Frame)
  BY <1>1, <1>2
<1>6. /\ Len(queue'[s][src]) = n + 1 /\ queue'[s][src][n + 1] = f
      /\ \A i \in 1..n : queue'[s][src][i] = queue[s][src][i]
  BY <1>5
<1> HIDE DEF n
<1>7. ASSUME NEW t \in Switch, NEW q \in Port[t], NEW i \in 1..Len(queue'[t][q])
      PROVE  \/ i \in 1..Len(queue[t][q]) /\ queue'[t][q][i] = queue[t][q][i]
             \/ t = s /\ q = src /\ i = n + 1 /\ queue'[t][q][i] = f
  <2>1. CASE t = s /\ q = src
    <3>1. i \in 1..(n + 1) /\ Len(queue[t][q]) = n
      BY <1>6, <1>7, <2>1 DEF n
    <3>2. CASE i = n + 1
      BY <1>6, <2>1, <3>2
    <3>3. CASE i # n + 1
      <4>1. i \in 1..n
        BY <1>4, <3>1, <3>3
      <4> QED BY <1>6, <2>1, <3>1, <4>1
    <3> QED BY <3>2, <3>3
  <2>2. CASE ~(t = s /\ q = src)
    BY <1>2, <1>7, <2>2
  <2> QED BY <2>1, <2>2
<1>8. ASSUME NEW t \in Switch, NEW q \in Port[t], NEW i \in 1..Len(queue[t][q])
      PROVE  i \in 1..Len(queue'[t][q]) /\ queue'[t][q][i] = queue[t][q][i]
  <2>1. CASE t = s /\ q = src
    <3>1. i \in 1..n /\ Len(queue'[t][q]) = n + 1
      BY <1>6, <2>1 DEF n
    <3> QED BY <1>4, <1>6, <2>1, <3>1
  <2>2. CASE ~(t = s /\ q = src)
    BY <1>2, <2>2
  <2> QED BY <2>1, <2>2
<1>9. \A t \in Switch : \A q \in Port[t] : \A i \in 1..Len(queue[t][q]) :
        queue[t][q][i].id <= sent /\ queue[t][q][i].id \in Nat
  <2> SUFFICES ASSUME NEW t \in Switch, NEW q \in Port[t], NEW i \in 1..Len(queue[t][q])
               PROVE  queue[t][q][i].id <= sent /\ queue[t][q][i].id \in Nat
    OBVIOUS
  <2>1. queue[t][q] \in Seq(Frame)
    BY <1>1
  <2>2. queue[t][q][i] \in Frame
    BY <2>1
  <2> QED BY <2>2 DEF CopyInv, NumbersUsed, Frame
<1>10. NumbersUsed'
  <2>1. ASSUME NEW t \in Switch, NEW q \in Port[t], NEW i \in 1..Len(queue'[t][q])
        PROVE  queue'[t][q][i].id <= sent'
    <3>1. CASE i \in 1..Len(queue[t][q]) /\ queue'[t][q][i] = queue[t][q][i]
      <4>1. queue'[t][q][i].id <= sent /\ queue'[t][q][i].id \in Nat
        BY <1>9, <3>1
      <4> QED BY <1>1, <4>1
    <3>2. CASE queue'[t][q][i] = f
      <4>1. queue'[t][q][i].id = sent + 1
        BY <1>3, <3>2
      <4> QED BY <1>1, <4>1
    <3> QED BY <1>7, <3>1, <3>2
  <2>2. \A id \in 1..Frames : id > sent' => received'[id] = 0
    BY <1>1 DEF CopyInv, NumbersUsed
  <2> QED BY <2>1, <2>2 DEF NumbersUsed
<1>11. ASSUME NEW id \in 1..sent, NEW t, NEW q, NEW i
       PROVE  Place(t, q, i, id)' <=> Place(t, q, i, id)
  <2>1. ASSUME Place(t, q, i, id)' PROVE Place(t, q, i, id)
    <3>1. /\ t \in Switch /\ q \in Port[t] /\ i \in 1..Len(queue'[t][q])
          /\ queue'[t][q][i].id = id /\ Toward[t][queue'[t][q][i].dst] # q
      BY <2>1 DEF Place
    <3>2. queue'[t][q][i] # f
      BY <1>1, <1>3, <3>1
    <3> QED BY <1>7, <3>1, <3>2 DEF Place
  <2>2. ASSUME Place(t, q, i, id) PROVE Place(t, q, i, id)'
    BY <1>8, <2>2 DEF Place
  <2> QED BY <2>1, <2>2
<1>0. PICK x, k : x = sent + 1 /\ k = n + 1
  OBVIOUS
<1>12. ASSUME NEW t, NEW q, NEW i
       PROVE  Place(t, q, i, x)' <=> t = s /\ q = src /\ i = k
  <2>1. ASSUME Place(t, q, i, x)' PROVE t = s /\ q = src /\ i = k
    <3>1. /\ t \in Switch /\ q \in Port[t] /\ i \in 1..Len(queue'[t][q])
          /\ queue'[t][q][i].id = x
      BY <2>1 DEF Place
    <3>2. ~(i \in 1..Len(queue[t][q]) /\ queue'[t][q][i] = queue[t][q][i])
      BY <1>0, <1>1, <1>9, <3>1
    <3> QED BY <1>0, <1>7, <3>1, <3>2
  <2>2. Place(s, src, k, x)'
    <3>1. k \in 1..Len(queue'[s][src])
      BY <1>0, <1>4, <1>6
    <3>2. Toward[s][dst] # src
      BY <1>1, NetworkAssumption
    <3> QED BY <1>0, <1>1, <1>3, <1>6, <3>1, <3>2 DEF Place
  <2> QED BY <2>1, <2>2
<1>13. EachOnce'
  <2> SUFFICES ASSUME ~sentBack, NEW id \in 1..(sent + 1)
               PROVE  NoneTwice(id)' /\ OnceOrReceived(id)'
    BY <1>1 DEF EachOnce
  <2>1. CASE id \in 1..sent
    <3>1. NoneTwice(id) /\ OnceOrReceived(id)
      BY <2>1 DEF CopyInv, EachOnce
    <3> QED BY <1>1, <1>11, <2>1, <3>1 DEF NoneTwice, OnceOrReceived
  <2>2. CASE id = x
    <3>1. received[id] = 0
      BY <1>0, <1>1, <2>2 DEF CopyInv, NumbersUsed
    <3>2. NoneTwice(id)'
      BY <1>12, <2>2 DEF NoneTwice
    <3>3. \E t, q, i : Place(t, q, i, id)'
      BY <1>12, <2>2
    <3> QED BY <1>1, <3>1, <3>2, <3>3 DEF OnceOrReceived
  <2> QED BY <1>0, <1>1, <2>1, <2>2
<1> QED BY <1>10, <1>13

(***************************************************************************)
(* Where the copies are after a switch has passed on the frame at the head *)
(* of a queue: those behind it one place nearer, new ones at the ends.     *)
(***************************************************************************)
Up(s, p, t, q, i) == IF t = s /\ q = p THEN i + 1 ELSE i

Taken(s, p, t, q, i) == t = s /\ q = p /\ i = 1

\* The queues, before and after.
Dealt(s, p, f, out, old, new) ==
  /\ \A t \in Switch : \A q \in Port[t] : \A i \in 1..Len(new[t][q]) :
       \/ /\ Up(s, p, t, q, i) \in 1..Len(old[t][q]) /\ ~Taken(s, p, t, q, Up(s, p, t, q, i))
          /\ new[t][q][i] = old[t][q][Up(s, p, t, q, i)]
       \/ t \in out /\ q = s /\ i = Len(old[t][q]) + 1 /\ new[t][q][i] = f
  /\ \A t \in Switch : \A q \in Port[t] : \A i \in 1..Len(old[t][q]) :
       Taken(s, p, t, q, i) \/ \E j \in 1..Len(new[t][q]) :
                                 Up(s, p, t, q, j) = i /\ new[t][q][j] = old[t][q][i]
  /\ \A t \in Switch \cap out : /\ Len(old[t][s]) + 1 \in 1..Len(new[t][s])
                                /\ new[t][s][Len(old[t][s]) + 1] = f

LEMMA PassedDealt ==
  ASSUME TypeOK, NEW s \in Switch, NEW p \in Port[s], queue[s][p] # <<>>,
         NEW f \in Frame, NEW out, out \subseteq Port[s]
  PROVE  Dealt(s, p, f, out, queue, Passed(s, p, f, out))
<1> DEFINE new == Passed(s, p, f, out)
<1>1. /\ \A t \in Switch : \A q \in Port[t] : queue[t][q] \in Seq(Frame)
      /\ \A t \in Switch : t \in out => s # t /\ s \in Port[t]
  BY NetworkAssumption DEF TypeOK
<1>2. \A t \in Switch : \A q \in Port[t] :
        [queue EXCEPT ![s][p] = Tail(@)][t][q]
          = IF t = s /\ q = p THEN Tail(queue[s][p]) ELSE queue[t][q]
  BY DEF TypeOK
<1>3. \A t \in Switch : \A q \in Port[t] :
        new[t][q] = IF t = s /\ q = p THEN Tail(queue[s][p])
                    ELSE IF t \in out /\ q = s THEN Append(queue[t][q], f) ELSE queue[t][q]
  BY <1>1, <1>2 DEF Passed
<1> HIDE DEF new
<1>4. /\ Len(new[s][p]) = Len(queue[s][p]) - 1 /\ Len(queue[s][p]) \in Nat
      /\ \A i \in 1..(Len(queue[s][p]) - 1) : new[s][p][i] = queue[s][p][i + 1]
  <2>1. PICK a, b : a = queue[s][p] /\ b = new[s][p]
    OBVIOUS
  <2>2. a \in Seq(Frame) /\ a # <<>> /\ b = Tail(a)
    BY <1>1, <1>3, <2>1
  <2>3. Len(b) = Len(a) - 1 /\ Len(a) \in Nat /\ \A i \in 1..(Len(a) - 1) : b[i] = a[i + 1]
    BY ONLY <2>2
  <2> QED BY ONLY <2>1, <2>3
<1>5. ASSUME NEW t \in Switch, t \in out
      PROVE  /\ s \in Port[t] /\ s # t /\ Len(queue[t][s]) \in Nat
             /\ Len(new[t][s]) = Len(queue[t][s]) + 1 /\ new[t][s][Len(queue[t][s]) + 1] = f
             /\ \A i \in 1..Len(queue[t][s]) : new[t][s][i] = queue[t][s][i]
  <2>1. s \in Port[t] /\ s # t
    BY <1>1, <1>5
  <2>2. PICK a, b : a = queue[t][s] /\ b = new[t][s]
    OBVIOUS
  <2>3. a \in Seq(Frame) /\ b = Append(a, f)
    BY <1>1, <1>3, <1>5, <2>1, <2>2
  <2>4. /\ Len(a) \in Nat /\ Len(b) = Len(a) + 1 /\ b[Len(a) + 1] = f
        /\ \A i \in 1..Len(a) : b[i] = a[i]
    BY ONLY <2>3, f \in Frame
  <2> QED BY ONLY <2>1, <2>2, <2>4
<1>6. ASSUME NEW t \in Switch, NEW q \in Port[t], ~(t = s /\ q = p), ~(t \in out /\ q = s)
      PROVE  new[t][q] = queue[t][q]
  BY <1>3, <1>6
<1>7. ASSUME NEW t \in Switch, NEW q \in Port[t], NEW i \in 1..Len(new[t][q])
      PROVE  \/ /\ Up(s, p, t, q, i) \in 1..Len(queue[t][q])
                /\ ~Taken(s, p, t, q, Up(s, p, t, q, i))
                /\ new[t][q][i] = queue[t][q][Up(s, p, t, q, i)]
             \/ t \in out /\ q = s /\ i = Len(queue[t][q]) + 1 /\ new[t][q][i] = f
  <2>1. CASE t = s /\ q = p
    <3>1. i \in 1..(Len(queue[s][p]) - 1)
      BY <1>4, <1>7, <2>1
    <3>2. i + 1 \in 1..Len(queue[s][p]) /\ i + 1 # 1
      BY <1>4, <3>1
    <3>3. new[s][p][i] = queue[s][p][i + 1]
      BY <1>4, <3>1
    <3> QED BY <2>1, <3>2, <3>3 DEF Up, Taken
  <2>2. CASE ~(t = s /\ q = p) /\ t \in out /\ q = s
    <3>1. i \in 1..(Len(queue[t][s]) + 1)
      BY <1>5, <1>7, <2>2
    <3>2. CASE i = Len(queue[t][s]) + 1
      BY <1>5, <2>2, <3>2
    <3>3. CASE i # Len(queue[t][s]) + 1
      <4>1. i \in 1..Len(queue[t][s])
        BY <1>5, <2>2, <3>1, <3>3
      <4> QED BY <1>5, <2>2, <4>1 DEF Up, Taken
    <3> QED BY <3>2, <3>3
  <2>3. CASE ~(t = s /\ q = p) /\ ~(t \in out /\ q = s)
    BY <1>6, <1>7, <2>3 DEF Up, Taken
  <2> QED BY <2>1, <2>2, <2>3
<1>8. ASSUME NEW t \in Switch, NEW q \in Port[t], NEW i \in 1..Len(queue[t][q]),
             ~Taken(s, p, t, q, i)
      PROVE  \E j \in 1..Len(new[t][q]) : Up(s, p, t, q, j) = i /\ new[t][q][j] = queue[t][q][i]
  <2>1. CASE t = s /\ q = p
    <3>1. i # 1 /\ i \in 1..Len(queue[s][p])
      BY <1>8, <2>1 DEF Taken
    <3>2. PICK j : j = i - 1
      OBVIOUS
    <3>3. j \in 1..(Len(queue[s][p]) - 1) /\ j + 1 = i
      BY <1>4, <3>1, <3>2
    <3>4. new[s][p][j] = queue[s][p][i] /\ j \in 1..Len(new[s][p])
      BY <1>4, <3>3
    <3> QED BY <2>1, <3>3, <3>4 DEF Up
  <2>2. CASE ~(t = s /\ q = p) /\ t \in out /\ q = s
    <3>1. new[t][q][i] = queue[t][q][i]
      BY <1>5, <2>2
    <3>2. i \in 1..Len(new[t][q])
      BY <1>5, <2>2
    <3> QED BY <2>2, <3>1, <3>2 DEF Up
  <2>3. CASE ~(t = s /\ q = p) /\ ~(t \in out /\ q = s)
    BY <1>6, <2>3 DEF Up
  <2> QED BY <2>1, <2>2, <2>3
<1>9. ASSUME NEW t \in Switch \cap out
      PROVE  /\ Len(queue[t][s]) + 1 \in 1..Len(new[t][s])
             /\ new[t][s][Len(queue[t][s]) + 1] = f
  BY <1>5
<1> QED BY <1>7, <1>8, <1>9 DEF Dealt, new

\* Where the frame goes: one port nearer to its destination, and nowhere else.
LEMMA OutFacts ==
  ASSUME TypeOK, EntriesLeadHome, ~sentBack, NEW s \in Switch, NEW p \in Port[s],
         NEW h \in Host, lookup_port(s, h) # p
  PROVE  /\ Toward[s][h] # p => Toward[s][h] \in OutPorts(s, p, h)
         /\ h \in OutPorts(s, p, h) <=> Toward[s][h] = h /\ Toward[s][h] # p
         /\ \A t \in Switch \cap OutPorts(s, p, h) :
              Toward[t][h] # s <=> t = Toward[s][h] /\ Toward[s][h] # p
<1> DEFINE out == OutPorts(s, p, h)
<1>1. out \subseteq Port[s] /\ p \notin out
  BY OutPortsLemma
<1>2. out = Port[s] \ {p} \/ out = {Toward[s][h]}
  BY DEF TypeOK, EntriesLeadHome, OutPorts, lookup_port, broadcast_packet
<1> HIDE DEF out
<1>3. Toward[s][h] # p => Toward[s][h] \in out
  BY <1>2, NetworkAssumption
<1>4. h \in out <=> Toward[s][h] = h /\ Toward[s][h] # p
  BY <1>1, <1>3, NetworkAssumption
<1>5. ASSUME NEW t \in Switch \cap out
      PROVE  Toward[t][h] # s <=> t = Toward[s][h] /\ Toward[s][h] # p
  BY <1>1, <1>5, NetworkAssumption
<1> QED BY <1>3, <1>4, <1>5 DEF out

LEMMA HandlePacketCopies ==
  ASSUME CopyInv, NEW s \in Switch, NEW p \in Port[s], handle_packet(s, p)
  PROVE  NumbersUsed' /\ EachOnce'
<1>1. PICK f : f = Head(queue[s][p])
  OBVIOUS
<1>2. PICK out : out = OutPorts(s, p, f.dst)
  OBVIOUS
<1>3. /\ TypeOK /\ EntriesLeadHome /\ NumbersUsed /\ EachOnce
  BY DEF CopyInv, IInv
<1>4. /\ sent' = sent /\ sentBack' = (sentBack \/ lookup_port(s, f.dst) = p)
      /\ received' = IF f.dst \in out THEN [received EXCEPT ![f.id] = @ + 1] ELSE received
  BY <1>1, <1>2 DEF handle_packet
<1>5. f \in Frame /\ queue[s][p] # <<>> /\ queue' = Passed(s, p, f, out)
  BY <1>1, <1>2, <1>3, HandlePacketStep
<1>6. f.id \in 1..Frames /\ f.dst \in Host
  BY <1>5 DEF Frame
<1>7. out \subseteq Port[s]
  BY <1>2, <1>3, <1>6, OutPortsLemma
<1>8. Dealt(s, p, f, out, queue, queue')
  BY <1>3, <1>5, <1>7, PassedDealt
<1>9. queue[s][p] \in Seq(Frame) /\ 1 \in 1..Len(queue[s][p]) /\ queue[s][p][1] = f
  <2>1. queue[s][p] \in Seq(Frame)
    BY <1>3 DEF TypeOK
  <2> QED BY <1>1, <1>5, <2>1
<1>10. f.id <= sent
  BY <1>3, <1>9 DEF NumbersUsed
<1>11. NumbersUsed'
  <2>1. ASSUME NEW t \in Switch, NEW q \in Port[t], NEW i \in 1..Len(queue'[t][q])
        PROVE  queue'[t][q][i].id <= sent'
    <3>1. queue'[t][q][i] = f \/ \E j \in 1..Len(queue[t][q]) : queue'[t][q][i] = queue[t][q][j]
      BY <1>8, <2>1 DEF Dealt
    <3> QED BY <1>3, <1>4, <1>10, <3>1 DEF NumbersUsed
  <2>2. ASSUME NEW id \in 1..Frames, id > sent
        PROVE  received'[id] = 0
    <3>1. id # f.id /\ received[id] = 0
      BY <1>3, <1>6, <1>10, <2>2, NetworkAssumption DEF NumbersUsed, TypeOK
    <3> QED BY <1>3, <1>4, <1>6, <3>1 DEF TypeOK
  <2> QED BY <1>4, <2>1, <2>2 DEF NumbersUsed
<1>12. ASSUME NEW id, NEW t, NEW q, NEW i, Place(t, q, i, id)'
       PROVE  \/ Place(t, q, Up(s, p, t, q, i), id) /\ ~Taken(s, p, t, q, Up(s, p, t, q, i))
              \/ /\ t \in Switch \cap out /\ q = s /\ i = Len(queue[t][s]) + 1
                 /\ id = f.id /\ Toward[t][f.dst] # s
  BY <1>8, <1>12 DEF Place, Dealt
<1>13. ASSUME NEW id, NEW t, NEW q, NEW i, Place(t, q, i, id), ~Taken(s, p, t, q, i)
       PROVE  \E j : Place(t, q, j, id)'
  BY <1>8, <1>13 DEF Place, Dealt
<1>14. ASSUME NEW t \in Switch \cap out, Toward[t][f.dst] # s
       PROVE  \E j : Place(t, s, j, f.id)'
  <2>1. PICK k : k = Len(queue[t][s]) + 1
    OBVIOUS
  <2>2. t \in Switch /\ s \in Port[t] /\ k \in 1..Len(queue'[t][s]) /\ queue'[t][s][k] = f
    BY <1>7, <1>8, <2>1, NetworkAssumption DEF Dealt
  <2>3. Place(t, s, k, f.id)'
    BY <1>14, <2>2 DEF Place
  <2> QED BY <2>3
<1>15. \A t, q, i, j : Up(s, p, t, q, i) = Up(s, p, t, q, j) /\ i \in Int /\ j \in Int => i = j
  BY DEF Up
<1>16. ASSUME NEW id, NEW t, NEW q, NEW i, Place(t, q, i, id)' PROVE i \in Int
  BY <1>16 DEF Place
<1>17. EachOnce'
  <2> SUFFICES ASSUME ~sentBack', NEW id \in 1..sent
               PROVE  NoneTwice(id)' /\ OnceOrReceived(id)'
    BY <1>4 DEF EachOnce
  <2>1. ~sentBack /\ lookup_port(s, f.dst) # p
    BY <1>4
  <2>2. NoneTwice(id) /\ OnceOrReceived(id)
    BY <1>3, <2>1 DEF EachOnce
  <2>3. /\ Toward[s][f.dst] # p => Toward[s][f.dst] \in out
        /\ f.dst \in out <=> Toward[s][f.dst] = f.dst /\ Toward[s][f.dst] # p
        /\ \A t \in Switch \cap out :
             Toward[t][f.dst] # s <=> t = Toward[s][f.dst] /\ Toward[s][f.dst] # p
    BY <1>2, <1>3, <1>6, <2>1, OutFacts
  <2>4. CASE id # f.id \/ Toward[s][f.dst] = p
    <3>1. \A t, q, i : Place(t, q, i, id)' =>
            Place(t, q, Up(s, p, t, q, i), id) /\ i \in Int
      BY <1>12, <1>16, <2>3, <2>4
    <3>2. NoneTwice(id)'
      <4> SUFFICES ASSUME NEW t, NEW q, NEW i, NEW u, NEW r, NEW j,
                          Place(t, q, i, id)', Place(u, r, j, id)'
                   PROVE  t = u /\ q = r /\ i = j
        BY DEF NoneTwice
      <4>1. t = u /\ q = r /\ Up(s, p, t, q, i) = Up(s, p, u, r, j)
        BY <2>2, <3>1 DEF NoneTwice
      <4> QED BY <1>15, <3>1, <4>1
    <3>3. \A t, q, i : Place(t, q, i, id) => ~Taken(s, p, t, q, i)
      BY <1>9, <2>4 DEF Place, Taken
    <3>4. (\E t, q, i : Place(t, q, i, id)') <=> (\E t, q, i : Place(t, q, i, id))
      BY <1>13, <3>1, <3>3
    <3>5. received'[id] = received[id]
      BY <1>3, <1>4, <1>6, <2>3, <2>4 DEF TypeOK
    <3> QED BY <2>2, <3>2, <3>4, <3>5 DEF OnceOrReceived
  <2>5. CASE id = f.id /\ Toward[s][f.dst] # p
    <3>1. Place(s, p, 1, id)
      BY <1>9, <2>5 DEF Place
    <3>2. \A t, q, i : Place(t, q, i, id) => Taken(s, p, t, q, i)
      BY <2>2, <3>1 DEF NoneTwice, Taken
    <3>3. \A t, q, i : Place(t, q, i, id)' =>
            t \in Switch \cap out /\ q = s /\ i = Len(queue[t][s]) + 1 /\ t = Toward[s][f.dst]
      BY <1>12, <2>3, <3>2
    <3>4. NoneTwice(id)'
      BY <3>3 DEF NoneTwice
    <3>5. received[id] = 0
      BY <2>2, <3>1 DEF OnceOrReceived
    <3>6. CASE Toward[s][f.dst] \in Switch
      <4>1. \E t, q, i : Place(t, q, i, id)'
        BY <1>14, <2>3, <2>5, <3>6
      <4>2. f.dst \notin out
        BY <1>6, <2>3, <3>6, NetworkAssumption
      <4> QED BY <1>4, <3>4, <3>5, <4>1, <4>2 DEF OnceOrReceived
    <3>7. CASE Toward[s][f.dst] \notin Switch
      <4>1. ~\E t, q, i : Place(t, q, i, id)'
        BY <3>3, <3>7
      <4>2. f.dst \in out
        <5>1. Toward[s][f.dst] \in Host
          BY <1>6, <3>7, NetworkAssumption DEF Element
        <5> QED BY <1>6, <2>3, <2>5, <5>1, NetworkAssumption
      <4>3. received'[id] = 1
        BY <1>3, <1>4, <1>6, <2>5, <3>5, <4>2 DEF TypeOK
      <4> QED BY <3>4, <4>1, <4>3 DEF OnceOrReceived
    <3> QED BY <3>6, <3>7
  <2> QED BY <2>4, <2>5
<1> QED BY <1>11, <1>17

LEMMA SameCopies ==
  ASSUME CopyInv, UNCHANGED <<queue, sent, received, sentBack>>
  PROVE  NumbersUsed' /\ EachOnce'
<1>1. \A t, q, i, id : Place(t, q, i, id)' <=> Place(t, q, i, id)
  BY DEF Place
<1>2. NumbersUsed'
  BY DEF CopyInv, NumbersUsed
<1> QED BY <1>1, <1>2 DEF CopyInv, EachOnce, NoneTwice, OnceOrReceived

LEMMA InitCopyInv == Init => CopyInv
<1> SUFFICES ASSUME Init PROVE CopyInv
  OBVIOUS
<1>1. IInv
  BY InitIInv
<1>2. \A t \in Switch : \A q \in Port[t] : queue[t][q] = <<>>
  BY DEF Init
<1>3. NumbersUsed /\ EachOnce
  BY <1>2, NetworkAssumption DEF Init, NumbersUsed, EachOnce
<1> QED BY <1>1, <1>3 DEF CopyInv

LEMMA NextCopyInv == CopyInv /\ [Next]_vars => CopyInv'
<1> SUFFICES ASSUME CopyInv, [Next]_vars PROVE NumbersUsed' /\ EachOnce'
  BY NextIInv DEF CopyInv
<1>1. ASSUME NEW s \in Switch, NEW src \in Host, NEW dst \in Host, SendFrame(s, src, dst)
      PROVE  NumbersUsed' /\ EachOnce'
  BY <1>1, SendFrameCopies
<1>2. ASSUME NEW s \in Switch, NEW p \in Port[s], handle_packet(s, p)
      PROVE  NumbersUsed' /\ EachOnce'
  BY <1>2, HandlePacketCopies
<1>3. CASE \/ Tick \/ (\E s \in Switch : sweep_aged_mac_port_entry(s)) \/ UNCHANGED vars
  <2>1. UNCHANGED <<queue, sent, received, sentBack>>
    BY <1>3 DEF Tick, sweep_aged_mac_port_entry, vars
  <2> QED BY <2>1, SameCopies
<1> QED BY <1>1, <1>2, <1>3 DEF Next

(***************************************************************************)
(* Whatever floods and learning do in a network without loops, a frame has *)
(* exactly one copy that is received or still goes towards its             *)
(* destination, until a switch sends a frame back (handle_packet).         *)
(***************************************************************************)
THEOREM OneCopyAlways == Spec => []OneCopy
<1>1. Init => CopyInv
  BY InitCopyInv
<1>2. CopyInv /\ [Next]_vars => CopyInv'
  BY NextCopyInv
<1>3. CopyInv => OneCopy
  BY OneCopyFrom DEF CopyInv, IInv, EachOnce, OneCopy
<1> QED BY <1>1, <1>2, <1>3, PTL DEF Spec

=============================================================================
