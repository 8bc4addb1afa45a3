------------------------------- MODULE Mospf --------------------------------
(***************************************************************************)
(* The MOSPF daemons of the routers of an area (07-mospf/mospf_daemon.c):  *)
(* neighbours found by hellos, link state updates flooded from neighbour   *)
(* to neighbour, ageing of both, and the routes computed from them.  Each  *)
(* router runs the packet loop, a thread for its periodic updates, one     *)
(* that ages neighbours and one that ages the database.                    *)
(*                                                                         *)
(* A link joins two routers by an interface each, and advertises the same  *)
(* network whether its neighbour is known or not: an update is told by its *)
(* originator, its number and its neighbours.  A hello reaches the other   *)
(* end of a link that is up; three in a row are not lost.  The ttl of 255  *)
(* outlives every path, as a router forwards an update once.               *)
(***************************************************************************)
EXTENDS Integers, FiniteSets, MospfPaths, MospfDijkstra

CONSTANTS Router, None,
          Link,          \* the links that there may be, sets of two routers
          Updates,       \* updates each router sends, a bound of the model
          MaxNet,        \* updates under way, a bound of the model
          MaxFaults      \* links cut, entries expired, updates lost

Lsu == [rid : Router, seq : Nat \ {0}, nbrs : SUBSET Router]
Message == [from : Router, to : Router, lsu : Lsu]

\* An area has finitely many routers.  ROUTER_NUM, the size of router_list,
\* is 4, well below the number that stands for no distance in dist.
ASSUME MospfAssumption ==
  /\ IsFiniteSet(Router) /\ Cardinality(Router) < Far
  /\ \A link \in Link : \E u, v \in Router : u # v /\ link = {u, v}
  /\ None \notin Router /\ None \notin Lsu
  /\ Updates \in [Router -> Nat] /\ MaxNet \in Nat /\ MaxFaults \in Nat

VARIABLES up,            \* the links that work
          nbrs,          \* nbr_list of the interfaces
          sequence_num,
          db,            \* mospf_db, an entry or None by originator
          rtable,        \* the next hop to the networks of a router, or None
          owes,          \* threads that changed nbr_list and have yet to send
          hand,          \* the update that the loop has stored and not forwarded
          net,           \* updates under way
          excused,       \* who need not have an update, see FloodingReaches
          faults,
          corrupt        \* freed memory was used: nothing is said of what follows

vars == <<up, nbrs, sequence_num, db, rtable, owes, hand, net,
          excused, faults, corrupt>>

Init == /\ up = Link
        /\ nbrs = [r \in Router |-> {}]
        /\ sequence_num = [r \in Router |-> 0]
        /\ db = [r \in Router |-> [o \in Router |-> None]]
        /\ rtable = [r \in Router |-> [o \in Router |-> None]]
        /\ owes = [r \in Router |-> {}] /\ hand = [r \in Router |-> None]
        /\ net = {}
        /\ excused = {}
        /\ faults = 0 /\ corrupt = FALSE

-----------------------------------------------------------------------------
(***************************************************************************)
(* An update to a neighbour.  Over a link that is cut it is lost.  That n  *)
(* is excused, <<r, n, o>>, means that what r has of o was lost on its way *)
(* to n, or stored before r knew n, or given up by n.                      *)
(***************************************************************************)
Send(r, receivers, lsu) ==
  LET reached == {n \in receivers : {r, n} \in up}
  IN /\ net' = net \cup {[from |-> r, to |-> n, lsu |-> lsu] : n \in reached}
     /\ Cardinality(net') <= MaxNet
     /\ excused' = excused \cup {<<r, n, lsu.rid>> : n \in receivers \ reached}

\* Mutated Numbered: the update is sent with the number of the last one.
NumberedBefore(r) == sequence_num[r]

Numbered(r) == sequence_num[r] + 1

(***************************************************************************)
(* send_mospf_lsu, under mospf_lock: a number of its own, and the          *)
(* neighbours as they are now.  The periodic thread calls it at any time,  *)
(* the other two after they have changed nbr_list and released the lock.   *)
(***************************************************************************)
send_mospf_lsu(r) ==
  /\ sequence_num[r] < Updates[r]
  /\ sequence_num' = [sequence_num EXCEPT ![r] = Numbered(r)]
  /\ Send(r, nbrs[r], [rid |-> r, seq |-> Numbered(r), nbrs |-> nbrs[r]])

PeriodicLsu(r) ==
  /\ ~corrupt /\ send_mospf_lsu(r)
  /\ UNCHANGED <<up, nbrs, db, rtable, owes, hand, faults, corrupt>>

SendOwed(r, thread) ==
  /\ ~corrupt /\ thread \in owes[r] /\ send_mospf_lsu(r)
  /\ owes' = [owes EXCEPT ![r] = @ \ {thread}]
  /\ UNCHANGED <<up, nbrs, db, rtable, hand, faults, corrupt>>

-----------------------------------------------------------------------------
(***************************************************************************)
(* The packet loop.  It is done with a packet when it owes no update and   *)
(* holds none.                                                             *)
(***************************************************************************)
LoopIdle(r) == ~corrupt /\ "loop" \notin owes[r] /\ hand[r] = None

(***************************************************************************)
(* handle_mospf_hello from a router that is not in nbr_list; the neighbour *)
(* is excused from what was flooded before.                                *)
(***************************************************************************)
handle_mospf_hello(r, n) ==
  /\ LoopIdle(r) /\ {r, n} \in up /\ n \notin nbrs[r]
  /\ nbrs' = [nbrs EXCEPT ![r] = @ \cup {n}]
  /\ owes' = [owes EXCEPT ![r] = @ \cup {"loop"}]
  /\ excused' = excused \cup {<<r, n, o>> : o \in Router}
  /\ UNCHANGED <<up, sequence_num, db, rtable, hand, net, faults, corrupt>>

Newer(r, lsu) == db[r][lsu.rid] # None => lsu.seq > db[r][lsu.rid].seq

(***************************************************************************)
(* handle_mospf_lsu in its critical section: an update that is not newer   *)
(* than the entry is dropped, another one takes its place.                 *)
(***************************************************************************)
DropLsu(m) ==
  /\ LoopIdle(m.to) /\ ~Newer(m.to, m.lsu)
  /\ net' = net \ {m}
  /\ UNCHANGED <<up, nbrs, sequence_num, db, rtable, owes, hand,
                 excused, faults, corrupt>>

StoreLsu(m) ==
  /\ LoopIdle(m.to) /\ Newer(m.to, m.lsu)
  /\ net' = net \ {m}
  /\ db' = [db EXCEPT ![m.to][m.lsu.rid] = m.lsu]
  /\ excused' = excused \ {<<m.to, n, m.lsu.rid>> : n \in Router}
  /\ hand' = [hand EXCEPT ![m.to] = m.lsu]
  /\ UNCHANGED <<up, nbrs, sequence_num, rtable, owes, faults, corrupt>>

(***************************************************************************)
(* update_rtable: the shortest paths in the graph of the database, which   *)
(* has a link when either end claims it and both are known.  Their first   *)
(* hop is used if it is a neighbour.  Which of several shortest paths is   *)
(* found depends on the order of the database (MospfDijkstra).             *)
(*                                                                         *)
(* An entry that names a router without an entry has the index -1: a write *)
(* outside its row, over router_list or another link.  A router that no    *)
(* path leads to has prev -1, and prev[-1] is read.  The route is then any *)
(* or none.                                                                *)
(***************************************************************************)
\* Mutated Known: the router itself is not in the list.
OthersKnown(r) == {o \in Router : db[r][o] # None}

Known(r) == {r} \cup {o \in Router : db[r][o] # None}

Misindexed(r) == \E o \in Known(r) \ {r} : ~(db[r][o].nbrs \subseteq Known(r))

init_graph(r) ==
  UNION {{{o, n} : n \in db[r][o].nbrs \cap Known(r)} : o \in Known(r) \ {r}}

Hops(r, o) == FirstHops(Known(r), init_graph(r), r, o)

NextHops(r, o) ==
  LET hops == Hops(r, o)
  IN IF o \notin Known(r) \ {r} THEN {None}
     ELSE IF Misindexed(r) \/ hops = {} THEN nbrs[r] \cup {None}
     ELSE {IF h \in nbrs[r] THEN h ELSE None : h \in hops}

update_rtable(r) ==
  LET hops == [o \in Router |-> NextHops(r, o)]
  IN \E routes \in [Router -> UNION {hops[o] : o \in Router}] :
       /\ \A o \in Router : routes[o] \in hops[o]
       /\ rtable' = [rtable EXCEPT ![r] = routes]

(***************************************************************************)
(* The rest of handle_mospf_lsu, without a lock: the routes, and the       *)
(* update to every neighbour but its originator, also to the one it came   *)
(* from.                                                                   *)
(***************************************************************************)
\* Mutated Receivers: to every neighbour.
AllNeighbours(r, lsu) == nbrs[r]

\* Mutated Receivers: to none if the originator is a neighbour.
NoneIfNeighbour(r, lsu) == IF lsu.rid \in nbrs[r] THEN {} ELSE nbrs[r]

Receivers(r, lsu) == nbrs[r] \ {lsu.rid}

ForwardLsu(r) ==
  /\ ~corrupt /\ hand[r] # None
  /\ update_rtable(r)
  /\ Send(r, Receivers(r, hand[r]), hand[r])
  /\ hand' = [hand EXCEPT ![r] = None]
  /\ UNCHANGED <<up, nbrs, sequence_num, db, owes, faults, corrupt>>

-----------------------------------------------------------------------------
(***************************************************************************)
(* Ageing.  The loop walks both lists without their locks when it has      *)
(* stored an update: it may stand on what is freed.                        *)
(***************************************************************************)
MayCorrupt(r) == corrupt' \in (IF hand[r] = None THEN {FALSE} ELSE BOOLEAN)

\* Mutated Owing: the thread does not send an update.
OwesNothing(r) == owes[r]

Owing(r) == owes[r] \cup {"nbr"}

checking_nbr_thread(r) ==
  /\ ~corrupt /\ "nbr" \notin owes[r]
  /\ \E silent \in SUBSET {n \in nbrs[r] : {r, n} \notin up} :
       /\ silent # {}
       /\ nbrs' = [nbrs EXCEPT ![r] = @ \ silent]
  /\ owes' = [owes EXCEPT ![r] = Owing(r)]
  /\ MayCorrupt(r)
  /\ UNCHANGED <<up, sequence_num, db, rtable, hand, net, excused, faults>>

Fault == ~corrupt /\ faults < MaxFaults /\ faults' = faults + 1

(***************************************************************************)
(* An entry that is not renewed for 40 seconds; updates come every 30, so  *)
(* that one lost is enough.                                                *)
(***************************************************************************)
checking_database_thread(r, o) ==
  /\ Fault /\ db[r][o] # None
  /\ db' = [db EXCEPT ![r][o] = None]
  /\ excused' = excused \cup {<<n, r, o>> : n \in Router}
  /\ MayCorrupt(r)
  /\ UNCHANGED <<up, nbrs, sequence_num, rtable, owes, hand, net>>

-----------------------------------------------------------------------------
(***************************************************************************)
(* What may happen to links and to updates under way.                      *)
(***************************************************************************)
Excuse(lost) == excused \cup {<<m.from, m.to, m.lsu.rid>> : m \in lost}

LinkUp == /\ ~corrupt
          /\ \E link \in Link \ up : up' = up \cup {link}
          /\ UNCHANGED <<nbrs, sequence_num, db, rtable, owes, hand, net,
                         excused, faults, corrupt>>

LinkDown == /\ Fault
            /\ \E link \in up :
                 LET lost == {m \in net : {m.from, m.to} = link}
                 IN up' = up \ {link} /\ net' = net \ lost /\ excused' = Excuse(lost)
            /\ UNCHANGED <<nbrs, sequence_num, db, rtable, owes, hand,
                           corrupt>>

Lose == /\ Fault
        /\ \E m \in net : net' = net \ {m} /\ excused' = Excuse({m})
        /\ UNCHANGED <<up, nbrs, sequence_num, db, rtable, owes, hand,
                       corrupt>>

Next == \/ \E r \in Router :
             \/ PeriodicLsu(r) \/ ForwardLsu(r) \/ checking_nbr_thread(r)
             \/ \E thread \in {"loop", "nbr"} : SendOwed(r, thread)
             \/ \E n \in Router : handle_mospf_hello(r, n) \/ checking_database_thread(r, n)
        \/ \E m \in net : DropLsu(m) \/ StoreLsu(m)
        \/ LinkUp \/ LinkDown \/ Lose

Spec == Init /\ [][Next]_vars

-----------------------------------------------------------------------------
Excusable == {<<r, n, o>> : r, n, o \in Router}

TypeOK ==
  /\ up \subseteq Link
  /\ nbrs \in [Router -> SUBSET Router]
  /\ sequence_num \in [Router -> Nat]
  /\ db \in [Router -> [Router -> Lsu \cup {None}]]
  /\ rtable \in [Router -> [Router -> Router \cup {None}]]
  /\ owes \in [Router -> SUBSET {"loop", "nbr"}]
  /\ hand \in [Router -> Lsu \cup {None}]
  /\ net \subseteq Message
  /\ excused \subseteq Excusable
  /\ faults \in 0..MaxFaults /\ corrupt \in BOOLEAN

(***************************************************************************)
(* An update never comes back to its originator, though the flooding sends *)
(* it back to the neighbour it came from and routers come and go: the      *)
(* database of a router has no entry of its own, for which init_graph has  *)
(* no room in router_list.                                                 *)
(***************************************************************************)
NoOwnEntry == /\ \A r \in Router : db[r][r] = None
              /\ \A m \in net : m.lsu.rid # m.to

(***************************************************************************)
(* What a router has stored since a neighbour was found, the neighbour has *)
(* stored too, or it is under way, or about to be forwarded, unless it was *)
(* lost: flooding leaves out nobody (handle_mospf_lsu).                    *)
(***************************************************************************)
OnItsWay(r, n, lsu) ==
  \/ db[n][lsu.rid] # None /\ db[n][lsu.rid].seq >= lsu.seq
  \/ hand[r] = lsu
  \/ \E m \in net : /\ m.from = r /\ m.to = n
                    /\ m.lsu.rid = lsu.rid /\ m.lsu.seq >= lsu.seq

FloodingReaches ==
  ~corrupt => \A r, o \in Router : \A n \in nbrs[r] \ {o} :
    db[r][o] # None /\ <<r, n, o>> \notin excused => OnItsWay(r, n, db[r][o])

(***************************************************************************)
(* Two entries for a router with the same number say the same, and the     *)
(* entry with its last number says what its neighbours are, unless it is   *)
(* about to send another one: nbr_list is changed and sent under the lock, *)
(* but not in one critical section (send_mospf_lsu).                       *)
(***************************************************************************)
EntriesAgree ==
  \A r, q \in Router : \A o \in Router :
    db[r][o] # None =>
      /\ db[q][o] # None /\ db[q][o].seq = db[r][o].seq => db[q][o] = db[r][o]
      /\ db[r][o].seq = sequence_num[o] /\ owes[o] = {} => db[r][o].nbrs = nbrs[o]

(***************************************************************************)
(* When the databases have settled, every packet reaches the router it is  *)
(* routed to over a shortest path, though each router computes its next    *)
(* hops from a graph that lacks its own claims (init_graph, update_router).*)
(***************************************************************************)
Claims == UNION {{{r, n} : n \in nbrs[r]} : r \in Router}

Settled == \A r \in Router :
  /\ \A n \in nbrs[r] : r \in nbrs[n]
  /\ \A o \in Router \ {r} : /\ db[r][o] # None /\ db[r][o].nbrs = nbrs[o]
                             /\ rtable[r][o] \in NextHops(r, o)

SettledRoutesReach ==
  Settled => \A r, o \in Router :
    r # o /\ o \in Reached(Router, Claims, r) =>
      /\ rtable[r][o] \in nbrs[r]
      /\ Distance(Router, Claims, rtable[r][o], o) + 1 = Distance(Router, Claims, r, o)

(***************************************************************************)
(* What Dijkstra and the walk back along prev find in the graph of a       *)
(* database, whatever its order, are exactly the first hops of shortest    *)
(* paths, if every index and every destination is sound (Dijkstra,         *)
(* min_dist, update_router).                                               *)
(***************************************************************************)
DijkstraFindsFirstHops ==
  \A r \in Router : hand[r] # None /\ ~Misindexed(r) => \A o \in Known(r) \ {r} :
    Hops(r, o) # {} => HopsFound(r, Known(r) \ {r}, init_graph(r), o) = Hops(r, o)
=============================================================================
