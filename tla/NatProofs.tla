----------------------------- MODULE NatProofs ------------------------------
(***************************************************************************)
(* What Nat guarantees for every number of endpoints, ports, rules and     *)
(* seconds.                                                                *)
(***************************************************************************)
EXTENDS Nat, SequenceTheorems, TLAPS

-----------------------------------------------------------------------------
(***************************************************************************)
(* The inductive invariant.  A flow that is neither silent nor ending has  *)
(* a mapping with the same silence, and what is known of the two sides of  *)
(* the mapping is not that both have sent a FIN: this keeps the sweep from *)
(* giving it up.  That no other mapping is found for a packet to its port  *)
(* is PortsAccounted.                                                      *)
(***************************************************************************)
Carries(k, r, e) ==
  /\ list[k].remote = r /\ list[k].external = e
  /\ list[k].internal = flow[<<r, e>>].internal
  /\ list[k].age = flow[<<r, e>>].age
  /\ ~(list[k].in.fin /\ list[k].out.fin)

Alive(r, e) == /\ flow[<<r, e>>] # None
               /\ flow[<<r, e>>].age < Timeout /\ ~flow[<<r, e>>].fin

FlowsCarried ==
  \A r \in Remote, e \in Port :
    Alive(r, e) => \E k \in DOMAIN list : Carries(k, r, e)

IInv == TypeOK /\ PortsAccounted /\ FlowsCarried

LEMMA RemoveAtFacts ==
  ASSUME NEW S, NEW s \in Seq(S), NEW i \in 1..Len(s)
  PROVE  /\ RemoveAt(s, i) \in Seq(S)
         /\ Len(RemoveAt(s, i)) = Len(s) - 1
         /\ \A k \in 1..(Len(s) - 1) : RemoveAt(s, i)[k] = s[IF k < i THEN k ELSE k + 1]
<1> DEFINE p == SubSeq(s, 1, i - 1)
           q == SubSeq(s, i + 1, Len(s))
<1>1. /\ p \in Seq(S) /\ Len(p) = i - 1
      /\ \A k \in 1..(i - 1) : p[k] = s[k]
  OBVIOUS
<1>2. /\ q \in Seq(S) /\ Len(q) = Len(s) - i
      /\ \A k \in 1..(Len(s) - i) : q[k] = s[i + k]
  OBVIOUS
<1> HIDE DEF p, q
<1>3. /\ p \o q \in Seq(S) /\ Len(p \o q) = Len(s) - 1
      /\ \A k \in 1..(Len(s) - 1) :
           (p \o q)[k] = IF k <= Len(p) THEN p[k] ELSE q[k - Len(p)]
  <2>1. Len(p) + Len(q) = Len(s) - 1
    BY <1>1, <1>2
  <2>2. /\ p \o q \in Seq(S) /\ Len(p \o q) = Len(p) + Len(q)
        /\ \A k \in 1..(Len(p) + Len(q)) :
             (p \o q)[k] = IF k <= Len(p) THEN p[k] ELSE q[k - Len(p)]
    BY ONLY ConcatProperties, <1>1, <1>2, Zenon
  <2> QED
    BY ONLY <2>1, <2>2, Zenon
<1>4. RemoveAt(s, i) = p \o q
  BY DEF RemoveAt, p, q
<1>5. ASSUME NEW k \in 1..(Len(s) - 1)
      PROVE  (p \o q)[k] = s[IF k < i THEN k ELSE k + 1]
  <2>1. CASE k < i
    BY <1>1, <1>3, <2>1
  <2>2. CASE ~(k < i)
    <3>1. k - (i - 1) \in 1..(Len(s) - i) /\ i + (k - (i - 1)) = k + 1
      BY <2>2
    <3> QED
      BY <1>2, <1>3, <2>2, <3>1
  <2> QED
    BY <2>1, <2>2
<1> QED
  BY <1>3, <1>4, <1>5

LEMMA AppendFacts ==
  ASSUME NEW S, NEW s \in Seq(S), NEW e \in S
  PROVE  /\ Append(s, e) \in Seq(S)
         /\ DOMAIN Append(s, e) = 1..(Len(s) + 1)
         /\ \A i \in 1..Len(s) : Append(s, e)[i] = s[i]
         /\ Append(s, e)[Len(s) + 1] = e
  OBVIOUS

-----------------------------------------------------------------------------
(***************************************************************************)
(* The two ways in which do_translation changes the list: a mapping is     *)
(* refreshed, or one is added.                                             *)
(***************************************************************************)
LEMMA RefreshInv ==
  ASSUME IInv, NEW k \in DOMAIN list, NEW m \in Mapping, NEW f \in Flow,
         m.remote = list[k].remote, m.internal = list[k].internal,
         m.external = list[k].external, m.age = 0,
         f.age = 0, f.internal = m.internal, ~f.fin => ~(m.in.fin /\ m.out.fin),
         list' = [list EXCEPT ![k] = m],
         flow' = [flow EXCEPT ![<<m.remote, m.external>>] = f],
         UNCHANGED <<assigned_ports, lock, at>>
  PROVE  IInv'
<1>1. TypeOK'
  BY DEF IInv, TypeOK, Mapping
<1>2. DOMAIN list' = DOMAIN list /\ list'[k] = m /\ \A j \in DOMAIN list : j # k => list'[j] = list[j]
  BY DEF IInv, TypeOK
<1>3. \A j \in DOMAIN list : /\ list'[j].external = list[j].external
                             /\ list'[j].remote = list[j].remote
  BY <1>2
<1>4. PortsAccounted'
  BY <1>2, <1>3 DEF IInv, PortsAccounted
<1>5. ASSUME NEW r \in Remote, NEW e \in Port, Alive(r, e)'
      PROVE  \E j \in DOMAIN list' : Carries(j, r, e)'
  <2>1. m.remote \in Remote /\ m.external \in Port
    BY DEF Mapping
  <2>2. CASE <<r, e>> = <<m.remote, m.external>>
    <3>1. flow'[<<r, e>>] = f
      BY <2>1, <2>2 DEF IInv, TypeOK
    <3>2. Carries(k, r, e)'
      BY <1>2, <1>5, <2>2, <3>1 DEF Carries, Alive
    <3> QED
      BY <1>2, <3>2
  <2>3. CASE <<r, e>> # <<m.remote, m.external>>
    <3>1. flow'[<<r, e>>] = flow[<<r, e>>]
      BY <2>1, <2>3 DEF IInv, TypeOK
    <3>2. Alive(r, e)
      BY <1>5, <3>1 DEF Alive
    <3>3. PICK j \in DOMAIN list : Carries(j, r, e)
      BY <3>2 DEF IInv, FlowsCarried
    <3>4. j # k
      BY <2>3, <3>3 DEF Carries
    <3>5. Carries(j, r, e)'
      BY <1>2, <3>1, <3>3, <3>4 DEF Carries
    <3> QED
      BY <1>2, <3>5
  <2> QED
    BY <2>2, <2>3
<1> QED
  BY <1>1, <1>4, <1>5 DEF IInv, FlowsCarried

LEMMA AddInv ==
  ASSUME IInv, NEW m \in Mapping, NEW f \in Flow, m.age = 0,
         f.age = 0, f.internal = m.internal, ~f.fin => ~(m.in.fin /\ m.out.fin),
         \A j \in DOMAIN list : list[j].external = m.external =>
            m.external \notin Pool /\ list[j].remote # m.remote,
         list' = Append(list, m),
         assigned_ports' = assigned_ports \cup ({m.external} \cap Pool),
         flow' = [flow EXCEPT ![<<m.remote, m.external>>] = f],
         UNCHANGED <<lock, at>>
  PROVE  IInv'
<1>1. TypeOK'
  BY DEF IInv, TypeOK, Mapping
<1>2. PICK n \in Nat : n = Len(list) + 1
  BY DEF IInv, TypeOK
<1>3. /\ DOMAIN list = 1..Len(list) /\ DOMAIN list' = 1..n /\ list'[n] = m
      /\ \A j \in DOMAIN list : list'[j] = list[j]
  BY AppendFacts, <1>2 DEF IInv, TypeOK
<1>4. DOMAIN list' = DOMAIN list \cup {n} /\ n \notin DOMAIN list
  BY <1>3, <1>2 DEF IInv, TypeOK
<1>5. PortsAccounted'
  <2>1. {list'[j].external : j \in DOMAIN list'}
          = {list[j].external : j \in DOMAIN list} \cup {m.external}
    BY <1>3, <1>4
  <2>2. assigned_ports' = {list'[j].external : j \in DOMAIN list'} \cap Pool
    BY <2>1 DEF IInv, PortsAccounted
  <2>3. ASSUME NEW i \in DOMAIN list', NEW j \in DOMAIN list',
               list'[i].external = list'[j].external, i # j
        PROVE  list'[i].external \notin Pool /\ list'[i].remote # list'[j].remote
    <3>1. CASE i = n
      BY <1>3, <1>4, <2>3, <3>1
    <3>2. CASE j = n
      BY <1>3, <1>4, <2>3, <3>2
    <3>3. CASE i # n /\ j # n
      BY <1>3, <1>4, <2>3, <3>3 DEF IInv, PortsAccounted
    <3> QED
      BY <3>1, <3>2, <3>3
  <2> QED
    BY <2>2, <2>3 DEF PortsAccounted
<1>6. ASSUME NEW r \in Remote, NEW e \in Port, Alive(r, e)'
      PROVE  \E j \in DOMAIN list' : Carries(j, r, e)'
  <2>1. m.remote \in Remote /\ m.external \in Port
    BY DEF Mapping
  <2>2. CASE <<r, e>> = <<m.remote, m.external>>
    <3>1. flow'[<<r, e>>] = f
      BY <2>1, <2>2 DEF IInv, TypeOK
    <3>2. Carries(n, r, e)'
      BY <1>3, <1>6, <2>2, <3>1 DEF Carries, Alive
    <3> QED
      BY <1>4, <3>2
  <2>3. CASE <<r, e>> # <<m.remote, m.external>>
    <3>1. flow'[<<r, e>>] = flow[<<r, e>>]
      BY <2>1, <2>3 DEF IInv, TypeOK
    <3>2. Alive(r, e)
      BY <1>6, <3>1 DEF Alive
    <3>3. PICK j \in DOMAIN list : Carries(j, r, e)
      BY <3>2 DEF IInv, FlowsCarried
    <3>4. Carries(j, r, e)'
      BY <1>3, <3>1, <3>3 DEF Carries
    <3> QED
      BY <1>4, <3>4
  <2> QED
    BY <2>2, <2>3
<1> QED
  BY <1>1, <1>5, <1>6 DEF IInv, FlowsCarried

-----------------------------------------------------------------------------
(***************************************************************************)
(* What the sweep gives up carries no flow that is alive.                  *)
(***************************************************************************)
LEMMA Unique ==
  ASSUME IInv, NEW j \in DOMAIN list, NEW k \in DOMAIN list,
         list[j].remote = list[k].remote, list[j].external = list[k].external
  PROVE  j = k
  BY DEF IInv, PortsAccounted

LEMMA GiveUpInv ==
  ASSUME IInv, GiveUp
  PROVE  IInv'
<1>1. /\ at \in 1..Len(list) /\ DOMAIN list = 1..Len(list) /\ Len(list) \in Nat
      /\ list \in Seq(Mapping)
  BY DEF GiveUp, IInv, TypeOK
<1>2. /\ list' \in Seq(Mapping) /\ DOMAIN list' = 1..(Len(list) - 1)
      /\ \A k \in DOMAIN list' : list'[k] = list[IF k < at THEN k ELSE k + 1]
  BY <1>1, RemoveAtFacts DEF GiveUp
<1>3. /\ assigned_ports' = assigned_ports \ {list[at].external}
      /\ UNCHANGED <<lock, at, flow>> /\ Expired(list[at])
  BY DEF GiveUp, Released
<1>4. TypeOK'
  BY <1>2, <1>3 DEF IInv, TypeOK
<1>5. ASSUME NEW j \in DOMAIN list, j # at
      PROVE  \E k \in DOMAIN list' : list'[k] = list[j]
  <2>1. CASE j < at
    BY <1>1, <1>2, <2>1
  <2>2. CASE j > at
    <3>1. j - 1 \in DOMAIN list' /\ ~(j - 1 < at) /\ (j - 1) + 1 = j
      BY <1>1, <1>2, <2>2
    <3>2. list'[j - 1] = list[j]
      BY <1>2, <3>1
    <3> QED
      BY <3>1, <3>2
  <2> QED
    BY <1>1, <1>5, <2>1, <2>2
<1>6. ASSUME NEW k \in DOMAIN list'
      PROVE  \E j \in DOMAIN list : j # at /\ list'[k] = list[j]
                                    /\ j = IF k < at THEN k ELSE k + 1
  BY <1>1, <1>2
<1>7. PortsAccounted'
  <2>1. ASSUME NEW i \in DOMAIN list', NEW k \in DOMAIN list',
               list'[i].external = list'[k].external, i # k
        PROVE  list'[i].external \notin Pool /\ list'[i].remote # list'[k].remote
    <3>1. PICK j \in DOMAIN list : list'[i] = list[j] /\ j = IF i < at THEN i ELSE i + 1
      BY <1>6
    <3>2. PICK l \in DOMAIN list : list'[k] = list[l] /\ l = IF k < at THEN k ELSE k + 1
      BY <1>6
    <3>3. j # l
      BY <1>1, <1>2, <2>1, <3>1, <3>2
    <3> QED
      BY <2>1, <3>1, <3>2, <3>3 DEF IInv, PortsAccounted
  <2>2. \A j \in DOMAIN list : j # at /\ list[j].external \in Pool =>
                                 list[j].external # list[at].external
    BY <1>1 DEF IInv, PortsAccounted
  <2>3. assigned_ports' = {list'[k].external : k \in DOMAIN list'} \cap Pool
    <3>1. ASSUME NEW e \in assigned_ports'
          PROVE  e \in {list'[k].external : k \in DOMAIN list'} \cap Pool
      <4>1. e \in Pool /\ e # list[at].external /\ \E j \in DOMAIN list : e = list[j].external
        BY <1>3, <3>1 DEF IInv, PortsAccounted
      <4> QED
        BY <1>5, <4>1
    <3>2. ASSUME NEW e \in Pool, NEW k \in DOMAIN list', e = list'[k].external
          PROVE  e \in assigned_ports'
      <4>1. PICK j \in DOMAIN list : j # at /\ list'[k] = list[j]
        BY <1>6
      <4>2. e \in assigned_ports /\ e # list[at].external
        BY <2>2, <3>2, <4>1 DEF IInv, PortsAccounted
      <4> QED
        BY <1>3, <4>2
    <3> QED
      BY <3>1, <3>2
  <2> QED
    BY <2>1, <2>3 DEF PortsAccounted
<1>8. ASSUME NEW r \in Remote, NEW e \in Port, Alive(r, e)'
      PROVE  \E k \in DOMAIN list' : Carries(k, r, e)'
  <2>1. Alive(r, e) /\ flow[<<r, e>>] \in Flow
    BY <1>3, <1>8 DEF Alive, IInv, TypeOK
  <2>2. PICK j \in DOMAIN list : Carries(j, r, e)
    BY <2>1 DEF IInv, FlowsCarried
  <2>3. ~(list[j].age >= Timeout)
    BY <2>1, <2>2, NatAssumption DEF Carries, Alive, Flow
  <2>4. ~Expired(list[j])
    BY <2>2, <2>3 DEF Expired, is_flow_finished, Carries
  <2>5. PICK k \in DOMAIN list' : list'[k] = list[j]
    BY <1>3, <1>5, <2>4
  <2>6. Carries(k, r, e)'
    BY <1>3, <2>2, <2>5 DEF Carries
  <2> QED
    BY <2>6
<1> QED
  BY <1>4, <1>7, <1>8 DEF IInv, FlowsCarried

LEMMA OlderFacts ==
  ASSUME NEW age \in 0..Timeout
  PROVE  /\ Older(age) \in 0..Timeout
         /\ Older(age) < Timeout => age < Timeout
  BY NatAssumption DEF Older

LEMMA TickInv ==
  ASSUME IInv, Tick
  PROVE  IInv'
<1>1. /\ DOMAIN list' = DOMAIN list
      /\ \A k \in DOMAIN list :
           /\ list[k] \in Mapping
           /\ list'[k] = [list[k] EXCEPT !.age = Older(list[k].age)]
  BY DEF Tick, IInv, TypeOK
<1>2. \A k \in DOMAIN list :
        /\ list'[k] \in Mapping
        /\ list'[k].remote = list[k].remote /\ list'[k].external = list[k].external
        /\ list'[k].internal = list[k].internal /\ list'[k].age = Older(list[k].age)
        /\ list'[k].in = list[k].in /\ list'[k].out = list[k].out
  BY <1>1, OlderFacts DEF Mapping
<1>3. \A r \in Remote, e \in Port :
        flow'[<<r, e>>] = IF flow[<<r, e>>] = None THEN None
                          ELSE [flow[<<r, e>>] EXCEPT !.age = Older(flow[<<r, e>>].age)]
  BY DEF Tick
<1>4. TypeOK'
  <2>1. list' \in Seq(Mapping)
    <3>1. DOMAIN list = 1..Len(list) /\ Len(list) \in Nat
      BY DEF IInv, TypeOK
    <3>2. list' = [k \in 1..Len(list) |-> list'[k]]
      BY <3>1 DEF Tick
    <3>3. \A k \in 1..Len(list) : list'[k] \in Mapping
      BY <1>2, <3>1
    <3> QED
      BY <3>1, <3>2, <3>3, IsASeq
  <2>2. flow' \in [Remote \X Port -> Flow \cup {None}]
    BY OlderFacts DEF Tick, IInv, TypeOK, Flow
  <2> QED
    BY <2>1, <2>2 DEF Tick, IInv, TypeOK
<1>5. PortsAccounted'
  <2>1. {list'[k].external : k \in DOMAIN list'} = {list[k].external : k \in DOMAIN list}
    BY <1>1, <1>2
  <2>2. \A j, k \in DOMAIN list' :
          list'[j].external = list'[k].external /\ j # k =>
            list'[j].external \notin Pool /\ list'[j].remote # list'[k].remote
    <3>1. \A j, k \in DOMAIN list :
            list[j].external = list[k].external /\ j # k =>
              list[j].external \notin Pool /\ list[j].remote # list[k].remote
      BY DEF IInv, PortsAccounted
    <3> QED
      BY ONLY <1>1, <1>2, <3>1
  <2>3. assigned_ports' = assigned_ports
    BY DEF Tick
  <2> QED
    BY <2>1, <2>2, <2>3 DEF IInv, PortsAccounted
<1>6. ASSUME NEW r \in Remote, NEW e \in Port, Alive(r, e)'
      PROVE  \E k \in DOMAIN list' : Carries(k, r, e)'
  <2>1. flow[<<r, e>>] # None /\ flow[<<r, e>>] \in Flow
    BY <1>3, <1>6 DEF Alive, IInv, TypeOK
  <2>2. /\ flow'[<<r, e>>].age = Older(flow[<<r, e>>].age)
        /\ flow'[<<r, e>>].fin = flow[<<r, e>>].fin
        /\ flow'[<<r, e>>].internal = flow[<<r, e>>].internal
    BY <1>3, <2>1 DEF Flow
  <2>3. Alive(r, e)
    BY <1>6, <2>1, <2>2, OlderFacts DEF Alive, Flow
  <2>4. PICK k \in DOMAIN list : Carries(k, r, e)
    BY <2>3 DEF IInv, FlowsCarried
  <2>5. Carries(k, r, e)'
    BY <1>2, <2>2, <2>4 DEF Carries
  <2> QED
    BY <1>1, <2>5
<1> QED
  BY <1>4, <1>5, <1>6 DEF IInv, FlowsCarried

-----------------------------------------------------------------------------
LEMMA InitIInv == Init => IInv
  BY DEF Init, IInv, TypeOK, PortsAccounted, FlowsCarried, Alive

LEMMA NextIInv == IInv /\ [Next]_vars => IInv'
<1> SUFFICES ASSUME IInv, [Next]_vars PROVE IInv'
  OBVIOUS
<1> USE DEF Observe
<1>1. ASSUME NEW i \in Internal, NEW r \in Remote, NEW p \in Packets, TranslateOut(i, r, p)
      PROVE  IInv'
  <2>1. PICK k \in First(Outward(i, r)) :
          /\ list' = [list EXCEPT ![k] = [Refreshed(@) EXCEPT !.out = p]]
          /\ Observe(r, list[k].external, i, SeenFin(r, list[k].external, p))
    BY <1>1 DEF TranslateOut
  <2>2. /\ k \in DOMAIN list /\ list[k] \in Mapping
        /\ list[k].remote = r /\ list[k].internal = i
    BY DEF First, Outward, IInv, TypeOK
  <2> DEFINE m == [Refreshed(list[k]) EXCEPT !.out = p]
             f == [internal |-> i, age |-> 0, fin |-> SeenFin(r, list[k].external, p)]
  <2>3. /\ m \in Mapping /\ m.remote = r /\ m.external = list[k].external
        /\ m.internal = i /\ m.age = 0 /\ m.out = p
    <3>1. 0 \in 0..Timeout
      BY NatAssumption
    <3> QED
      BY <2>2, <3>1 DEF Refreshed, Mapping
  <2>4. f \in Flow /\ f.age = 0 /\ f.internal = i /\ (~f.fin => ~m.out.fin)
    <3>1. p.fin \in BOOLEAN /\ f.fin \in BOOLEAN /\ (~f.fin => ~p.fin)
      BY <2>2, NatAssumption DEF SeenFin, IInv, TypeOK, Flow, Mapping
    <3> QED
      BY <2>3, <3>1, NatAssumption DEF Flow
  <2>5. /\ list' = [list EXCEPT ![k] = m]
        /\ flow' = [flow EXCEPT ![<<m.remote, m.external>>] = f]
        /\ UNCHANGED <<assigned_ports, lock, at>>
    BY <1>1, <2>1, <2>3 DEF TranslateOut
  <2> HIDE DEF m, f
  <2> QED
    BY <2>2, <2>3, <2>4, <2>5, RefreshInv
<1>2. ASSUME NEW i \in Internal, NEW r \in Remote, NEW p \in Packets, NewOut(i, r, p)
      PROVE  IInv'
  <2>1. PICK e \in FreePort, garbage \in Packets :
          /\ list' = Append(list, [remote |-> r, internal |-> i, external |-> e,
                                   age |-> 0, in |-> garbage, out |-> p])
          /\ assigned_ports' = assigned_ports \cup {e}
          /\ Observe(r, e, i, p.fin)
    BY <1>2 DEF NewOut
  <2>2. e \in Pool /\ e \in Port /\ e \notin assigned_ports
    BY DEF FreePort, First, Port
  <2> DEFINE m == [remote |-> r, internal |-> i, external |-> e,
                   age |-> 0, in |-> garbage, out |-> p]
             f == [internal |-> i, age |-> 0, fin |-> p.fin]
  <2>3. m \in Mapping /\ f \in Flow
    BY <2>2, NatAssumption DEF Mapping, Flow
  <2>4. \A j \in DOMAIN list : list[j].external # e
    BY <2>2 DEF IInv, PortsAccounted
  <2>5. /\ list' = Append(list, m)
        /\ assigned_ports' = assigned_ports \cup ({m.external} \cap Pool)
        /\ flow' = [flow EXCEPT ![<<m.remote, m.external>>] = f]
        /\ UNCHANGED <<lock, at>>
    BY <1>2, <2>1, <2>2 DEF NewOut
  <2>6. /\ m.external = e /\ m.age = 0 /\ m.out = p /\ m.internal = i
        /\ f.age = 0 /\ f.internal = i /\ f.fin = p.fin
    OBVIOUS
  <2> HIDE DEF m, f
  <2> QED
    BY <2>3, <2>4, <2>5, <2>6, AddInv
<1>3. ASSUME NEW r \in Remote, NEW e \in Port, NEW p \in Packets, TranslateIn(r, e, p)
      PROVE  IInv'
  <2>1. PICK k \in First(Inward(r, e)) :
          /\ list' = [list EXCEPT ![k] = [Refreshed(@) EXCEPT !.in = p]]
          /\ Observe(r, e, list[k].internal, SeenFin(r, e, p))
    BY <1>3 DEF TranslateIn
  <2>2. /\ k \in DOMAIN list /\ list[k] \in Mapping
        /\ list[k].remote = r /\ list[k].external = e
    BY DEF First, Inward, IInv, TypeOK
  <2> DEFINE m == [Refreshed(list[k]) EXCEPT !.in = p]
             f == [internal |-> list[k].internal, age |-> 0, fin |-> SeenFin(r, e, p)]
  <2>3. /\ m \in Mapping /\ m.remote = r /\ m.external = e
        /\ m.internal = list[k].internal /\ m.age = 0 /\ m.in = p
    <3>1. 0 \in 0..Timeout
      BY NatAssumption
    <3> QED
      BY <2>2, <3>1 DEF Refreshed, Mapping
  <2>4. f \in Flow /\ f.age = 0 /\ f.internal = m.internal /\ (~f.fin => ~m.in.fin)
    <3>1. p.fin \in BOOLEAN /\ f.fin \in BOOLEAN /\ (~f.fin => ~p.fin)
      BY <2>2, NatAssumption DEF SeenFin, IInv, TypeOK, Flow, Mapping
    <3> QED
      BY <2>2, <2>3, <3>1, NatAssumption DEF Flow, Mapping
  <2>5. /\ list' = [list EXCEPT ![k] = m]
        /\ flow' = [flow EXCEPT ![<<m.remote, m.external>>] = f]
        /\ UNCHANGED <<assigned_ports, lock, at>>
    BY <1>3, <2>1, <2>3 DEF TranslateIn
  <2> HIDE DEF m, f
  <2> QED
    BY <2>2, <2>3, <2>4, <2>5, RefreshInv
<1>4. ASSUME NEW r \in Remote, NEW e \in Port, NEW p \in Packets, NewIn(r, e, p)
      PROVE  IInv'
  <2>1. PICK rule \in RuleOf(e), garbage \in Packets :
          /\ list' = Append(list, [remote |-> r, internal |-> rule.internal,
                                   external |-> e, age |-> 0, in |-> p, out |-> garbage])
          /\ Observe(r, e, rule.internal, p.fin)
    BY <1>4 DEF NewIn
  <2>2. /\ rule \in Rules /\ rule.external = e /\ rule.internal \in Internal
        /\ e \in Forwarded /\ e \notin Pool
    BY NatAssumption DEF RuleOf, Forwarded
  <2> DEFINE m == [remote |-> r, internal |-> rule.internal, external |-> e,
                   age |-> 0, in |-> p, out |-> garbage]
             f == [internal |-> rule.internal, age |-> 0, fin |-> p.fin]
  <2>3. m \in Mapping /\ f \in Flow
    BY <2>2, NatAssumption DEF Mapping, Flow
  <2>4. \A j \in DOMAIN list : list[j].external = e => list[j].remote # r
    BY <1>4 DEF NewIn, Inward
  <2>5. /\ list' = Append(list, m)
        /\ assigned_ports' = assigned_ports \cup ({m.external} \cap Pool)
        /\ flow' = [flow EXCEPT ![<<m.remote, m.external>>] = f]
        /\ UNCHANGED <<lock, at>>
    BY <1>4, <2>1, <2>2 DEF NewIn
  <2>6. /\ m.external = e /\ m.remote = r /\ m.age = 0 /\ m.in = p
        /\ m.internal = rule.internal
        /\ f.age = 0 /\ f.internal = rule.internal /\ f.fin = p.fin
    OBVIOUS
  <2> HIDE DEF m, f
  <2> QED
    BY <2>2, <2>3, <2>4, <2>5, <2>6, AddInv
<1>5. ASSUME UNCHANGED <<list, assigned_ports, flow>>, at' \in Nat,
             lock' \in {"free", "sweep", "kept"}
      PROVE  IInv'
  BY <1>5 DEF IInv, TypeOK, PortsAccounted, FlowsCarried, Alive, Carries
<1>6. at \in Nat
  BY DEF IInv, TypeOK
<1>7. CASE do_translation
  <2>1. CASE \E i \in Internal, r \in Remote : PoolExhausted(i, r)
    BY <1>5, <1>6, <2>1 DEF PoolExhausted
  <2>2. CASE \E r \in Remote, e \in Port : StrayIn(r, e)
    BY <1>5, <1>6, <2>2 DEF StrayIn
  <2> QED
    BY <1>1, <1>2, <1>3, <1>4, <1>7, <2>1, <2>2 DEF do_translation
<1>8. CASE nat_timeout
  <2>1. CASE StartSweep \/ Spare \/ EndSweep
    BY <1>5, <1>6, <2>1 DEF StartSweep, Spare, EndSweep
  <2> QED
    BY <1>8, <2>1, GiveUpInv DEF nat_timeout
<1>9. CASE UNCHANGED vars
  BY <1>5, <1>9 DEF vars, IInv, TypeOK
<1> QED
  BY <1>7, <1>8, <1>9, TickInv DEF Next

(***************************************************************************)
(* The list, the port pool and the ghost keep their types.                 *)
(***************************************************************************)
THEOREM TypeCorrect == Spec => []TypeOK
<1>1. IInv => TypeOK
  BY DEF IInv
<1> QED
  BY InitIInv, NextIInv, <1>1, PTL DEF Spec

(***************************************************************************)
(* For every pool and every set of rules outside it, a port of the pool is *)
(* assigned exactly as long as one mapping has it, and a packet from       *)
(* outside belongs to one mapping.                                         *)
(***************************************************************************)
THEOREM PortsStayAccounted == Spec => []PortsAccounted
<1>1. IInv => PortsAccounted
  BY DEF IInv
<1> QED
  BY InitIInv, NextIInv, <1>1, PTL DEF Spec

(***************************************************************************)
(* For every timeout, replies to a flow that is alive reach its internal   *)
(* end, whatever is translated and given up meanwhile.                     *)
(***************************************************************************)
THEOREM RepliesAlwaysReturn == Spec => []RepliesReturn
<1>1. ASSUME IInv, NEW r \in Remote, NEW e \in Port, Alive(r, e)
      PROVE  Reaches(r, e, flow[<<r, e>>].internal)
  <2>1. PICK k \in DOMAIN list : Carries(k, r, e)
    BY <1>1 DEF IInv, FlowsCarried
  <2>2. k \in Inward(r, e) /\ k \in Nat
    BY <1>1, <2>1 DEF Inward, Carries, IInv, TypeOK
  <2>3. \A j \in Inward(r, e) : j = k
    BY <1>1, <2>1, Unique DEF Inward, Carries
  <2>4. k \in First(Inward(r, e))
    BY <2>2, <2>3 DEF First
  <2> QED
    BY <2>1, <2>4 DEF Reaches, Carries
<1>2. IInv => RepliesReturn
  BY <1>1 DEF RepliesReturn, Alive
<1> QED
  BY InitIInv, NextIInv, <1>2, PTL DEF Spec
=============================================================================
