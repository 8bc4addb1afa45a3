-------------------------------- MODULE Nat ---------------------------------
(***************************************************************************)
(* The address translator (08-nat/nat.c): the packet loop, which rewrites  *)
(* the addresses of TCP packets (do_translation), and the sweep, which     *)
(* gives up finished and silent flows (nat_timeout).  Both hold nat.lock   *)
(* for what they do; two paths of do_translation return with it.           *)
(*                                                                         *)
(* An endpoint is an address with a port.  The translator has one external *)
(* address, so an external endpoint is its port.  All lookups compare the  *)
(* remote address, by which the table is hashed: one list in the order of  *)
(* creation finds the entries that the table finds.  Packets that          *)
(* get_packet_direction refuses change nothing.                            *)
(***************************************************************************)
EXTENDS Integers, Sequences, SequencesExt

CONSTANTS Internal, Remote,  \* endpoints inside and outside
          NAT_PORT_MIN, NAT_PORT_MAX,
          Rules,             \* the DNAT rules of the config file
          Packets,           \* what the conn of a mapping takes from a packet
          Timeout            \* TCP_ESTABLISHED_TIMEOUT, 60 seconds

Pool == NAT_PORT_MIN..(NAT_PORT_MAX - 1)
Forwarded == {rule.external : rule \in Rules}
Port == Pool \cup Forwarded

(***************************************************************************)
(* The ports of the rules lie outside the pool, as those of the config     *)
(* files do, and no two rules have the same: the first one would count.    *)
(***************************************************************************)
ASSUME NatAssumption ==
  /\ NAT_PORT_MIN \in Nat /\ NAT_PORT_MAX \in Nat /\ Timeout \in Nat \ {0}
  /\ Rules \subseteq [external : Nat, internal : Internal]
  /\ \A r, q \in Rules : r.external = q.external => r = q
  /\ Forwarded \cap Pool = {}
  /\ Packets \subseteq [fin : BOOLEAN, ack : {0, 16}, seq_end : Nat]

None == [none |-> TRUE]

VARIABLES list,            \* the mappings, age = now - update_time
          assigned_ports,
          lock,            \* nat.lock: free, held by the sweep, or kept
          at,              \* where the sweep stands in the list
          flow             \* by remote and port, the flow last translated there

vars == <<list, assigned_ports, lock, at, flow>>

Mapping == [remote : Remote, internal : Internal, external : Port,
            age : 0..Timeout, in : Packets, out : Packets]

(***************************************************************************)
(* What flow records: the internal endpoint, the time since its last       *)
(* packet, and whether an end has sent a FIN under the present mapping.    *)
(***************************************************************************)
Flow == [internal : Internal, age : 0..Timeout, fin : BOOLEAN]

Init == /\ list = << >> /\ assigned_ports = {} /\ lock = "free" /\ at = 0
        /\ flow = [e \in Remote \X Port |-> None]

-----------------------------------------------------------------------------
(***************************************************************************)
(* do_translation.  The conn of a mapping has the flags of the last packet *)
(* of each side: those of an internal packet in out, those of a remote one *)
(* in in.  The side that has sent none holds what malloc found there.      *)
(***************************************************************************)
First(S) == {k \in S : \A j \in S : k <= j}

Outward(i, r) == {k \in DOMAIN list : list[k].remote = r /\ list[k].internal = i}

Inward(r, e) == {k \in DOMAIN list : list[k].remote = r /\ list[k].external = e}

\* Mutated FreePort: the search includes NAT_PORT_MAX.
FreePortOrMax == First((NAT_PORT_MIN..NAT_PORT_MAX) \ assigned_ports)

FreePort == First(Pool \ assigned_ports)

Observe(r, e, i, fin) ==
  flow' = [flow EXCEPT ![<<r, e>>] = [internal |-> i, age |-> 0, fin |-> fin]]

SeenFin(r, e, p) == p.fin \/ (flow[<<r, e>>] # None /\ flow[<<r, e>>].fin)

\* Mutated Refreshed: the time of the last packet is left as it is.
RefreshedNever(m) == m

Refreshed(m) == [m EXCEPT !.age = 0]

TranslateOut(i, r, p) ==
  /\ lock = "free"
  /\ \E k \in First(Outward(i, r)) :
       /\ list' = [list EXCEPT ![k] = [Refreshed(@) EXCEPT !.out = p]]
       /\ Observe(r, list[k].external, i, SeenFin(r, list[k].external, p))
  /\ UNCHANGED <<assigned_ports, lock, at>>

NewOut(i, r, p) ==
  /\ lock = "free" /\ Outward(i, r) = {}
  /\ \E e \in FreePort, garbage \in Packets :
       /\ list' = Append(list, [remote |-> r, internal |-> i, external |-> e,
                                age |-> 0, in |-> garbage, out |-> p])
       /\ assigned_ports' = assigned_ports \cup {e}
       /\ Observe(r, e, i, p.fin)
  /\ UNCHANGED <<lock, at>>

(***************************************************************************)
(* No port is left: the packet is dropped, and the lock is never released. *)
(***************************************************************************)
PoolExhausted(i, r) ==
  /\ lock = "free" /\ Outward(i, r) = {} /\ Pool \subseteq assigned_ports
  /\ lock' = "kept"
  /\ UNCHANGED <<list, assigned_ports, at, flow>>

TranslateIn(r, e, p) ==
  /\ lock = "free"
  /\ \E k \in First(Inward(r, e)) :
       /\ list' = [list EXCEPT ![k] = [Refreshed(@) EXCEPT !.in = p]]
       /\ Observe(r, e, list[k].internal, SeenFin(r, e, p))
  /\ UNCHANGED <<assigned_ports, lock, at>>

RuleOf(e) == {rule \in Rules : rule.external = e}

NewIn(r, e, p) ==
  /\ lock = "free" /\ Inward(r, e) = {}
  /\ \E rule \in RuleOf(e), garbage \in Packets :
       /\ list' = Append(list, [remote |-> r, internal |-> rule.internal,
                                external |-> e, age |-> 0, in |-> p, out |-> garbage])
       /\ Observe(r, e, rule.internal, p.fin)
  /\ UNCHANGED <<assigned_ports, lock, at>>

(***************************************************************************)
(* A packet to a port that nothing is known of: the head of the list is    *)
(* passed to free, which ends the process or not, and the lock is kept.    *)
(* In either case nothing is translated any more and nothing given up.     *)
(***************************************************************************)
StrayIn(r, e) ==
  /\ lock = "free" /\ Inward(r, e) = {} /\ RuleOf(e) = {}
  /\ lock' = "kept"
  /\ UNCHANGED <<list, assigned_ports, at, flow>>

do_translation ==
  \E i \in Internal, r \in Remote, e \in Port, p \in Packets :
    \/ TranslateOut(i, r, p) \/ NewOut(i, r, p) \/ PoolExhausted(i, r)
    \/ TranslateIn(r, e, p) \/ NewIn(r, e, p) \/ StrayIn(r, e)

-----------------------------------------------------------------------------
(***************************************************************************)
(* nat_timeout: every second, with the lock, one mapping after the other.  *)
(* An ack is compared as the flag that it is in the code, 0 or 16.         *)
(***************************************************************************)
is_flow_finished(m) == /\ m.out.fin /\ m.in.fin
                       /\ m.out.ack >= m.in.seq_end /\ m.in.ack >= m.out.seq_end

\* Mutated Expired: silence is noticed one second too late, when age stops.
ExpiredLate(m) == is_flow_finished(m) \/ m.age > Timeout

Expired(m) == is_flow_finished(m) \/ m.age >= Timeout

\* Mutated Released: the port is not returned.
Unreleased(e) == assigned_ports

Released(e) == assigned_ports \ {e}

StartSweep == /\ lock = "free"
              /\ lock' = "sweep" /\ at' = 1
              /\ UNCHANGED <<list, assigned_ports, flow>>

GiveUp == /\ lock = "sweep" /\ at \in DOMAIN list /\ Expired(list[at])
          /\ list' = RemoveAt(list, at)
          /\ assigned_ports' = Released(list[at].external)
          /\ UNCHANGED <<lock, at, flow>>

Spare == /\ lock = "sweep" /\ at \in DOMAIN list /\ ~Expired(list[at])
         /\ at' = at + 1
         /\ UNCHANGED <<list, assigned_ports, lock, flow>>

EndSweep == /\ lock = "sweep" /\ at \notin DOMAIN list
            /\ lock' = "free" /\ at' = 0
            /\ UNCHANGED <<list, assigned_ports, flow>>

nat_timeout == StartSweep \/ GiveUp \/ Spare \/ EndSweep

(***************************************************************************)
(* A second passes.  An age stops at Timeout, where it makes no more       *)
(* difference.                                                             *)
(***************************************************************************)
Older(age) == IF age < Timeout THEN age + 1 ELSE age

Tick ==
  /\ list' = [k \in DOMAIN list |-> [list[k] EXCEPT !.age = Older(@)]]
  /\ flow' = [e \in Remote \X Port |->
                IF flow[e] = None THEN None ELSE [flow[e] EXCEPT !.age = Older(@)]]
  /\ UNCHANGED <<assigned_ports, lock, at>>

Next == do_translation \/ nat_timeout \/ Tick

Spec == Init /\ [][Next]_vars

(***************************************************************************)
(* The sweep runs every second and gets the lock, and the clock goes on.   *)
(* Packets need not come.                                                  *)
(***************************************************************************)
FairSpec == Spec /\ WF_vars(nat_timeout) /\ WF_vars(Tick)

-----------------------------------------------------------------------------
TypeOK ==
  /\ list \in Seq(Mapping)
  /\ assigned_ports \subseteq Pool
  /\ lock \in {"free", "sweep", "kept"} /\ at \in Nat
  /\ flow \in [Remote \X Port -> Flow \cup {None}]

(***************************************************************************)
(* A port of the pool is taken exactly as long as one mapping has it, and  *)
(* no two mappings share an external endpoint and a remote one: a packet   *)
(* from outside belongs to one internal endpoint (do_translation,          *)
(* nat_timeout).                                                           *)
(***************************************************************************)
PortsAccounted ==
  /\ assigned_ports = {list[k].external : k \in DOMAIN list} \cap Pool
  /\ \A j, k \in DOMAIN list :
       list[j].external = list[k].external /\ j # k =>
         list[j].external \notin Pool /\ list[j].remote # list[k].remote

(***************************************************************************)
(* As long as a flow is not silent for Timeout and no end has sent a FIN,  *)
(* packets of the remote end to its port find their way to the internal    *)
(* end, however ports are given up and assigned anew meanwhile             *)
(* (update_time and is_flow_finished in nat_timeout, and the search for a  *)
(* free port in do_translation).                                           *)
(***************************************************************************)
Reaches(r, e, i) == \E k \in First(Inward(r, e)) : list[k].internal = i

RepliesReturn ==
  \A r \in Remote, e \in Port :
    LET f == flow[<<r, e>>]
    IN f # None => (f.age < Timeout /\ ~f.fin => Reaches(r, e, f.internal))

(***************************************************************************)
(* A mapping is refreshed again and again, or it is given up: a port of    *)
(* the pool is never lost for good, unless the lock is (nat_timeout).      *)
(***************************************************************************)
Refreshing(r, e) == flow[<<r, e>>] # None /\ flow[<<r, e>>].age = 0

PortsComeBack ==
  \A r \in Remote, e \in Port :
    []<>Refreshing(r, e) \/ []<>(Inward(r, e) = {}) \/ <>(lock = "kept")
=============================================================================
