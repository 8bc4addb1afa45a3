------------------------------- MODULE Switch -------------------------------
(***************************************************************************)
(* Learning switches (03-switch-file/mac.c and main.c of the final lab)    *)
(* that join hosts.  A port of a switch is named for what it leads to, a   *)
(* host or another switch.  Cables keep the order of frames.               *)
(*                                                                         *)
(* Each switch runs the packet loop and the sweep thread.  Lookup and      *)
(* insertion are critical sections of their own, but a sweep between them  *)
(* has the effect of one before or after both: handle_packet is one step.  *)
(* lookup_port reads the iface of the entry after it has released the lock *)
(* (mac.c:48-49); that a sweep may have freed the entry by then is left    *)
(* out.                                                                    *)
(***************************************************************************)
EXTENDS Integers, Sequences, FiniteSets

CONSTANTS Switch, Host, None,
          Port,          \* the ports of each switch
          Toward,        \* the port of a switch behind which a host is
          Frames,        \* the frames that hosts send, a bound of the model
          Timeout        \* MAC_PORT_TIMEOUT

Element == Switch \cup Host

(***************************************************************************)
(* A network without loops: a host is either behind the cable from s to t  *)
(* or behind the cable from t to s.                                        *)
(***************************************************************************)
ASSUME NetworkAssumption ==
  /\ Switch \cap Host = {} /\ None \notin Element \cup Nat
  /\ Port \in [Switch -> SUBSET Element]
  /\ \A s, t \in Switch : t \in Port[s] => s \in Port[t] /\ s # t
  /\ Toward \in [Switch -> [Host -> Element]]
  /\ \A s \in Switch, h \in Host : Toward[s][h] \in Port[s]
  /\ \A s \in Switch, h \in Host :
       h \in Port[s] \/ Toward[s][h] \in Host => Toward[s][h] = h
  /\ \A s, t \in Switch, h \in Host :
       t \in Port[s] => (Toward[s][h] # t <=> Toward[t][h] = s)
  /\ Frames \in Nat /\ Timeout \in Nat

VARIABLES table,         \* mac_port_map, the iface of an address or None
          age,           \* the seconds since an entry was visited, or None
          queue,         \* what waits at the sockets of a switch, by iface
          sent,          \* the number of frames sent so far
          received,      \* how often a host has received a frame meant for it
          sentBack       \* whether a switch has sent a frame back

vars == <<table, age, queue, sent, received, sentBack>>

Frame == [id : 1..Frames, src : Host, dst : Host]

Init == /\ table = [s \in Switch |-> [h \in Host |-> None]]
        /\ age = [s \in Switch |-> [h \in Host |-> None]]
        /\ queue = [s \in Switch |-> [p \in Port[s] |-> <<>>]]
        /\ sent = 0
        /\ received = [id \in 1..Frames |-> 0]
        /\ sentBack = FALSE

(***************************************************************************)
(* A host sends a frame to another one, over the switch it hangs on.       *)
(***************************************************************************)
SendFrame(s, src, dst) ==
  /\ src \in Port[s] /\ src # dst /\ sent < Frames
  /\ sent' = sent + 1
  /\ queue' = [queue EXCEPT ![s][src] = Append(@, [id |-> sent + 1, src |-> src, dst |-> dst])]
  /\ UNCHANGED <<table, age, received, sentBack>>

-----------------------------------------------------------------------------
(***************************************************************************)
(* The ports that a frame leaves by: the one its destination was last seen *)
(* at, which may be the one it came from, or all the others.               *)
(***************************************************************************)
\* Mutated broadcast_packet: also to the interface the frame came from.
BroadcastToAll(s, p) == Port[s]

broadcast_packet(s, p) == Port[s] \ {p}

lookup_port(s, h) == table[s][h]

\* Mutated OutPorts: nothing is sent when the address is not known.
KnownOnly(s, p, h) == {lookup_port(s, h)} \cap Port[s]

OutPorts(s, p, h) ==
  IF lookup_port(s, h) = None THEN broadcast_packet(s, p) ELSE {lookup_port(s, h)}

\* Mutated insert_mac_port: only an entry that was found gets a time.
VisitedIfFound(s, h, p) ==
  /\ table' = [table EXCEPT ![s][h] = p]
  /\ age' = IF table[s][h] = None THEN age ELSE [age EXCEPT ![s][h] = 0]

insert_mac_port(s, h, p) ==
  /\ table' = [table EXCEPT ![s][h] = p]
  /\ age' = [age EXCEPT ![s][h] = 0]

handle_packet(s, p) ==
  /\ queue[s][p] # <<>>
  /\ LET f == Head(queue[s][p])
         out == OutPorts(s, p, f.dst)
         taken == [queue EXCEPT ![s][p] = Tail(@)]
     IN /\ queue' = [t \in Switch |-> [q \in Port[t] |->
                       IF t \in out /\ q = s THEN Append(taken[t][q], f) ELSE taken[t][q]]]
        /\ received' = IF f.dst \in out THEN [received EXCEPT ![f.id] = @ + 1] ELSE received
        /\ sentBack' = (sentBack \/ lookup_port(s, f.dst) = p)
        /\ insert_mac_port(s, f.src, p)
  /\ UNCHANGED sent

-----------------------------------------------------------------------------
(***************************************************************************)
(* The sweep thread removes the entries not visited for too long.  A       *)
(* second passes: ages beyond the timeout are not told apart.              *)
(***************************************************************************)
Aged(s, h) == table[s][h] # None /\ age[s][h] > Timeout

sweep_aged_mac_port_entry(s) ==
  /\ \E h \in Host : Aged(s, h)
  /\ table' = [table EXCEPT ![s] = [h \in Host |-> IF Aged(s, h) THEN None ELSE @[h]]]
  /\ age' = [age EXCEPT ![s] = [h \in Host |-> IF Aged(s, h) THEN None ELSE @[h]]]
  /\ UNCHANGED <<queue, sent, received, sentBack>>

Older(n) == IF n > Timeout THEN n ELSE n + 1

Tick ==
  /\ age' = [s \in Switch |-> [h \in Host |->
               IF table[s][h] = None THEN age[s][h] ELSE Older(age[s][h])]]
  /\ UNCHANGED <<table, queue, sent, received, sentBack>>

Next == \/ \E s \in Switch : \/ \E src, dst \in Host : SendFrame(s, src, dst)
                             \/ \E p \in Port[s] : handle_packet(s, p)
                             \/ sweep_aged_mac_port_entry(s)
        \/ Tick

Spec == Init /\ [][Next]_vars

(***************************************************************************)
(* The packet loop polls all interfaces: what waits at one is handled.     *)
(* Nothing is assumed of clocks, of the sweep thread and of the hosts.     *)
(***************************************************************************)
FairSpec == Spec /\ \A s \in Switch : \A p \in Port[s] : WF_vars(handle_packet(s, p))

-----------------------------------------------------------------------------
(***************************************************************************)
(* Tables name ports of their switch.  An entry has both an iface and the  *)
(* time it was last visited, however it was learnt, refreshed and swept:   *)
(* without the time, the sweep would drop it at once or never.             *)
(***************************************************************************)
TypeOK ==
  /\ table \in [Switch -> [Host -> Element \cup {None}]]
  /\ \A s \in Switch : \A h \in Host : table[s][h] \in Port[s] \cup {None}
  /\ age \in [Switch -> [Host -> (0..Timeout + 1) \cup {None}]]
  /\ \A s \in Switch : \A h \in Host : table[s][h] = None <=> age[s][h] = None
  /\ DOMAIN queue = Switch /\ \A s \in Switch : DOMAIN queue[s] = Port[s]
  /\ \A s \in Switch : \A p \in Port[s] : queue[s][p] \in Seq(Frame)
  /\ sent \in 0..Frames
  /\ received \in [1..Frames -> Nat]
  /\ sentBack \in BOOLEAN

(***************************************************************************)
(* As long as no switch has sent a frame back where it came from, whatever *)
(* was learnt and swept in whatever order, an entry is a port that leads   *)
(* to its host.  Once one has, the other switch sees the source of that    *)
(* frame on the wrong side and learns it there.                            *)
(***************************************************************************)
EntriesLeadHome ==
  ~sentBack => \A s \in Switch : \A h \in Host : table[s][h] \in {None, Toward[s][h]}

(***************************************************************************)
(* Until then there is exactly one copy of a frame that is received or     *)
(* still on its way to its destination: floods neither lose a frame nor    *)
(* bring it twice, though switches may know different hosts.               *)
(***************************************************************************)
Waiting(s) == UNION {{p} \X DOMAIN queue[s][p] : p \in Port[s]}

OnTheWay(id) ==
  {c \in UNION {{s} \X Waiting(s) : s \in Switch} :
     LET f == queue[c[1]][c[2][1]][c[2][2]]
     IN f.id = id /\ Toward[c[1]][f.dst] # c[2][1]}

OneCopy == ~sentBack => \A id \in 1..sent : Cardinality(OnTheWay(id)) + received[id] = 1

(***************************************************************************)
(* Every frame is received in the end, or some frame was sent back.        *)
(***************************************************************************)
FramesArrive == \A id \in 1..Frames : sent >= id ~> received[id] >= 1 \/ sentBack
=============================================================================
