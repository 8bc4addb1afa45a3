------------------------------ MODULE ArpCache ------------------------------
(***************************************************************************)
(* The ARP cache of the router (06-router-pass/arpcache.c, arp.c) between  *)
(* its two threads: the packet loop, which sends and forwards packets and  *)
(* takes in ARP replies, and the sweep, which repeats requests and gives   *)
(* packets up with an ICMP message that goes through the cache itself.     *)
(* Everything runs under one lock, which the sweep releases around each    *)
(* ICMP message: a critical section is one step here.                      *)
(*                                                                         *)
(* A packet is reduced to the address of its next hop and that of the next *)
(* hop back to its source.  Own is the router's own address: the source of *)
(* its ICMP messages, for which no host answers.  The routing table sends  *)
(* an address out of one interface, so a request is told by its address.   *)
(***************************************************************************)
EXTENDS Integers, FiniteSets, Sequences, SequencesExt

CONSTANTS Addr,         \* IPv4 addresses of next hops, Own among them
          Own,
          Mac,
          Slots,        \* MAX_ARP_SIZE, 32
          Timeout,      \* ARP_ENTRY_TIMEOUT, 15 seconds
          MaxRetries,   \* ARP_REQUEST_MAX_RETRIES, 5
          MaxPackets    \* packets that come in, a bound of the model

ASSUME ArpAssumption ==
  /\ Own \in Addr /\ Mac # {} /\ Slots \in Nat \ {0} /\ Timeout \in Nat
  /\ MaxRetries \in Nat \ {0} /\ MaxPackets \in Nat

VARIABLES entries,      \* the table: Slots entries, age = now - added
          req_list,     \* the requests, age = now - sent
          loop,         \* the packet the loop holds between lookup and append
          walk,         \* where the sweep stands in req_list
          asked,        \* the addresses a request was sent for
          handed,       \* the packets that came in
          sent,         \* the packets sent to their next hop
          refused,      \* the packets an ICMP message was sent for
          corrupt       \* freed memory was used: nothing is said of what follows

vars == <<entries, req_list, loop, walk, asked, handed, sent, refused, corrupt>>

Slot == 1..Slots
Packet == [id : 1..MaxPackets, hop : Addr, src : Addr, icmp : BOOLEAN]
NoPacket == [id |-> 0]
End == [end |-> TRUE]

(***************************************************************************)
(* The sweep between two sweeps.  In a sweep, at and next are the request  *)
(* it gives up and the one after it when it came there, last says that no  *)
(* packet followed the current one, begun that it has freed packets of     *)
(* this request, and stale which of the two requests were freed meanwhile. *)
(***************************************************************************)
Idle == [pc |-> "idle", at |-> End, next |-> End, last |-> TRUE,
         begun |-> FALSE, stale |-> {}, icmp |-> NoPacket]

Init == /\ \E a \in Addr, m \in Mac :
             entries = [i \in Slot |-> [valid |-> FALSE, ip4 |-> a, mac |-> m, age |-> 0]]
        /\ req_list = << >> /\ loop = NoPacket /\ walk = Idle
        /\ asked = {} /\ handed = {} /\ sent = {} /\ refused = {}
        /\ corrupt = FALSE

Smaller(a, b) == IF a < b THEN a ELSE b

IndexOf(ip) == SelectInSeq(req_list, LAMBDA r : r.ip4 = ip)

\* The list without the requests for ip: there is one at most (OneRequestPerAddr).
Removed(ip) == IF IndexOf(ip) = 0 THEN req_list ELSE RemoveAt(req_list, IndexOf(ip))

-----------------------------------------------------------------------------
(***************************************************************************)
(* Critical sections of arpcache_lookup and arpcache_append_packet.        *)
(***************************************************************************)
arpcache_lookup(ip) == \E i \in Slot : entries[i].valid /\ entries[i].ip4 = ip

\* Mutated arpcache_append_packet: the packet gets a request of its own.
AppendAnew(p) ==
  /\ req_list' = Append(req_list, [ip4 |-> p.hop, age |-> 0,
                                   retries |-> 1, pkts |-> <<p>>])
  /\ asked' = asked \cup {p.hop}

arpcache_append_packet(p) ==
  IF IndexOf(p.hop) # 0
  THEN /\ req_list' = [req_list EXCEPT ![IndexOf(p.hop)].pkts = Append(@, p)]
       /\ UNCHANGED asked
  ELSE /\ req_list' = Append(req_list, [ip4 |-> p.hop, age |-> 0,
                                        retries |-> 1, pkts |-> <<p>>])
       /\ asked' = asked \cup {p.hop}

(***************************************************************************)
(* The packet loop: iface_send_packet_by_arp, for a packet that it         *)
(* forwards or an ICMP message of its own, in two critical sections.       *)
(***************************************************************************)
HandPacket ==
  /\ ~corrupt /\ loop = NoPacket
  /\ \E p \in Packet :
       /\ p.id = Cardinality(handed) + 1 /\ p.hop # Own /\ ~p.icmp
       /\ handed' = handed \cup {p}
       /\ IF arpcache_lookup(p.hop) THEN sent' = sent \cup {p} /\ UNCHANGED loop
                                    ELSE loop' = p /\ UNCHANGED sent
  /\ UNCHANGED <<entries, req_list, walk, asked, refused, corrupt>>

PendPacket ==
  /\ ~corrupt /\ loop # NoPacket
  /\ arpcache_append_packet(loop)
  /\ loop' = NoPacket
  /\ UNCHANGED <<entries, walk, handed, sent, refused, corrupt>>

(***************************************************************************)
(* An ARP reply, any time after a request and any number of times.  The    *)
(* slot is the first that is free or holds the address, else a random one. *)
(* Packets of the request are sent and the request is freed, on which the  *)
(* sweep may stand.                                                        *)
(***************************************************************************)
SlotFor(ip) ==
  LET fit == {i \in Slot : ~entries[i].valid \/ entries[i].ip4 = ip}
  IN IF fit = {} THEN Slot ELSE {i \in fit : \A j \in fit : i <= j}

\* Mutated arpcache_insert: the request stays in the list.
InsertKeepsRequest(ip, mac) ==
  /\ \E i \in SlotFor(ip) :
       entries' = [entries EXCEPT ![i] =
                     [valid |-> TRUE, ip4 |-> ip, mac |-> mac, age |-> 0]]
  /\ sent' = sent \cup UNION {ToSet(r.pkts) : r \in {q \in ToSet(req_list) : q.ip4 = ip}}
  /\ UNCHANGED <<req_list, loop, walk, asked, handed, refused, corrupt>>

arpcache_insert(ip, mac) ==
  /\ \E i \in SlotFor(ip) :
       entries' = [entries EXCEPT ![i] =
                     [valid |-> TRUE, ip4 |-> ip, mac |-> mac, age |-> 0]]
  /\ sent' = sent \cup UNION {ToSet(r.pkts) : r \in {q \in ToSet(req_list) : q.ip4 = ip}}
  /\ req_list' = Removed(ip)
  /\ walk' = [walk EXCEPT !.stale = @ \cup ({ip} \cap {walk.at, walk.next})]
  /\ corrupt' = (walk.begun /\ walk.at = ip)
  /\ UNCHANGED <<loop, asked, handed, refused>>

handle_arp_packet ==
  /\ ~corrupt /\ loop = NoPacket
  /\ \E ip \in asked \ {Own}, mac \in Mac : arpcache_insert(ip, mac)

-----------------------------------------------------------------------------
(***************************************************************************)
(* The sweep.  Up to the first request that has had its retries it repeats *)
(* those that are due; there it stops to refuse the packets of it.  The    *)
(* clock stands still in a sweep, which reads it once, and an age counts   *)
(* up to where it makes no more difference.                                *)
(***************************************************************************)
\* Mutated Repeated: a repetition is not counted.
RepeatedUncounted(r) == IF r.age > 1 THEN [r EXCEPT !.age = 0] ELSE r

Repeated(r) == IF r.age > 1 THEN [r EXCEPT !.age = 0, !.retries = @ + 1] ELSE r

\* Mutated Exhausted: one repetition too many.
ExhaustedLate(r) == r.retries > MaxRetries

Exhausted(r) == r.retries >= MaxRetries

WalkFrom(list, first) ==
  LET stop == SelectInSubSeq(list, first, Len(list), Exhausted)
      past == IF stop = 0 THEN Len(list) + 1 ELSE stop
  IN /\ req_list' = [j \in DOMAIN list |->
                       IF j >= first /\ j < past THEN Repeated(list[j]) ELSE list[j]]
     /\ walk' = IF stop = 0 THEN Idle
                ELSE [pc |-> "icmp", at |-> list[stop].ip4,
                      next |-> IF stop < Len(list) THEN list[stop + 1].ip4 ELSE End,
                      last |-> Len(list[stop].pkts) = 1,
                      begun |-> FALSE, stale |-> {}, icmp |-> NoPacket]

Tick ==
  /\ ~corrupt /\ walk.pc = "idle"
  /\ entries' = [i \in Slot |-> [entries[i] EXCEPT !.age = Smaller(@ + 1, Timeout + 1)]]
  /\ req_list' = [j \in DOMAIN req_list |-> [req_list[j] EXCEPT !.age = Smaller(@ + 1, 2)]]
  /\ UNCHANGED <<loop, walk, asked, handed, sent, refused, corrupt>>

StartSweep ==
  /\ ~corrupt /\ walk.pc = "idle"
  /\ entries' = [i \in Slot |-> IF entries[i].age > Timeout
                                THEN [entries[i] EXCEPT !.valid = FALSE] ELSE entries[i]]
  /\ WalkFrom(req_list, 1)
  /\ UNCHANGED <<loop, asked, handed, sent, refused, corrupt>>

UseAfterFree == /\ corrupt' = TRUE
                /\ UNCHANGED <<entries, req_list, loop, walk, asked, handed, sent, refused>>

(***************************************************************************)
(* icmp_send_packet, without the lock: the message goes back to the source *)
(* of the packet, by iface_send_packet_by_arp.                             *)
(***************************************************************************)
icmp_send_packet ==
  /\ ~corrupt /\ walk.pc = "icmp"
  /\ IF walk.at \in walk.stale THEN UseAfterFree
     ELSE LET p == Head(req_list[IndexOf(walk.at)].pkts)
              q == [id |-> p.id, hop |-> p.src, src |-> Own, icmp |-> TRUE]
          IN /\ refused' = refused \cup {p}
             /\ IF arpcache_lookup(q.hop)
                THEN /\ sent' = sent \cup {q}
                     /\ walk' = [walk EXCEPT !.pc = "relock"]
                ELSE /\ walk' = [walk EXCEPT !.pc = "pend", !.icmp = q]
                     /\ UNCHANGED sent
             /\ UNCHANGED <<entries, req_list, loop, asked, handed, corrupt>>

PendIcmp ==
  /\ ~corrupt /\ walk.pc = "pend"
  /\ arpcache_append_packet(walk.icmp)
  /\ walk' = [walk EXCEPT !.pc = "relock", !.icmp = NoPacket]
  /\ UNCHANGED <<entries, loop, handed, sent, refused, corrupt>>

(***************************************************************************)
(* With the lock again: the packet is freed, and the walk goes on with the *)
(* next packet, or frees the request and goes on with the next request.    *)
(***************************************************************************)
FreePacket ==
  /\ ~corrupt /\ walk.pc = "relock" /\ ~walk.last /\ walk.at \notin walk.stale
  /\ LET at == IndexOf(walk.at)
     IN /\ req_list' = [req_list EXCEPT ![at].pkts = Tail(@)]
        /\ walk' = [walk EXCEPT !.pc = "icmp", !.begun = TRUE,
                                !.last = Len(req_list[at].pkts) = 2]
  /\ UNCHANGED <<entries, loop, asked, handed, sent, refused, corrupt>>

FreeRequest ==
  /\ ~corrupt /\ walk.pc = "relock" /\ walk.last /\ walk.stale = {}
  /\ LET list == Removed(walk.at)
     IN WalkFrom(list, IF walk.next = End THEN Len(list) + 1
                       ELSE SelectInSeq(list, LAMBDA r : r.ip4 = walk.next))
  /\ UNCHANGED <<entries, loop, asked, handed, sent, refused, corrupt>>

FreeAgain ==
  /\ ~corrupt /\ walk.pc = "relock"
  /\ walk.at \in walk.stale \/ (walk.last /\ walk.next \in walk.stale)
  /\ UseAfterFree

Sweep == \/ StartSweep \/ icmp_send_packet \/ PendIcmp
         \/ FreePacket \/ FreeRequest \/ FreeAgain

Next == HandPacket \/ PendPacket \/ handle_arp_packet \/ Tick \/ Sweep

Spec == Init /\ [][Next]_vars

(***************************************************************************)
(* The scheduler runs both threads and the clock goes on.  Replies need    *)
(* not come.                                                               *)
(***************************************************************************)
FairSpec == Spec /\ WF_vars(PendPacket) /\ WF_vars(Sweep) /\ SF_vars(Tick)

-----------------------------------------------------------------------------
Request == [ip4 : Addr, age : 0..2, retries : 1..MaxRetries, pkts : Seq(Packet) \ {<< >>}]

TypeOK ==
  /\ entries \in [Slot -> [valid : BOOLEAN, ip4 : Addr, mac : Mac, age : 0..(Timeout + 1)]]
  /\ req_list \in Seq(Request)
  /\ loop \in Packet \cup {NoPacket}
  /\ walk.pc \in {"idle", "icmp", "pend", "relock"}
  /\ {walk.at, walk.next} \subseteq Addr \cup {End} /\ walk.stale \subseteq Addr
  /\ asked \subseteq Addr /\ handed \cup sent \cup refused \subseteq Packet

(***************************************************************************)
(* At most one request is under way for an address, though lookup and      *)
(* append are two critical sections and both threads append                *)
(* (arpcache_append_packet).                                               *)
(***************************************************************************)
OneRequestPerAddr ==
  \A i, j \in DOMAIN req_list : req_list[i].ip4 = req_list[j].ip4 => i = j

(***************************************************************************)
(* A packet that waits has been neither sent nor refused, so none leaves   *)
(* twice; the sweep alone holds a refused one for a moment, the first of   *)
(* the request it stands on (arpcache_insert, arpcache_sweep).             *)
(***************************************************************************)
WaitingIsUnanswered ==
  ~corrupt =>
    \A i \in DOMAIN req_list : \A k \in DOMAIN req_list[i].pkts :
      LET p == req_list[i].pkts[k]
      IN ~p.icmp /\ p \in sent \cup refused =>
           walk.pc \in {"pend", "relock"} /\ req_list[i].ip4 = walk.at /\ k = 1

(***************************************************************************)
(* As long as the sweep comes back, every request ends, answered or given  *)
(* up, even if packets keep being appended to it (retries in               *)
(* arpcache_sweep).                                                        *)
(***************************************************************************)
SweepsPeriodically == []<>(walk.pc = "idle" \/ corrupt)

Requested(ip) == IndexOf(ip) # 0

RequestsEnd ==
  SweepsPeriodically => \A ip \in Addr : Requested(ip) ~> (~Requested(ip) \/ corrupt)

=============================================================================
