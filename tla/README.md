# TLA+ models of the network labs' stack

The repository is a series of network labs, one directory per lab, that end in
an HTTP server (`src/13-http_server`) running on a user-space TCP/IP stack
between switches and routers written in the same course.  The directories
repeat much code: three copies of the final lab differ in a few constants, and
`10-tcp-stack` holds earlier stages of `12-tcp_stack`.  Of the copies the
models follow one each: `src/12-tcp_stack/tcp_exp1` ("12" below), the TCP stack
with its retransmission limit; `src/13-http_server/13-http-server-final` ("13"),
its last revision, tuned for speed, with the switch (`03-switch-file`) and the
router (`06-router-pass`) it runs between; `src/08-nat/08-nat`, the address
translator; and `src/07-mospf/07-mospf`, the routing daemon.  Most lines of the
repository are further copies of these, so the share of it that a model names
stays small although most of its protocols have a model.

## Inventory

| component | state | operations | talks to |
|---|---|---|---|
| receive ring (`include/ring_buffer.h`) | head, tail, array | read, write | network thread writes, application reads |
| TCP data transfer (`tcp_in.c`, `tcp_out.c`, `tcp_sock.c`) | `snd_una snd_nxt snd_wnd rcv_nxt rcv_wnd`, send buffer, out-of-order list, ring | `tcp_sock_write`, `tcp_sock_read`, `tcp_process`, `handle_recv_data`, `handle_ack` | the peer, by segments; the timers |
| retransmission timer (`tcp_timer.c`) | `retrans_timer_list`, per sock `enable`, `timeout` | set, reset, unset, scan | writer, network thread and scan thread share it under `retrans_timer_lock` and `send_buf_lock` |
| connection lifecycle (`tcp_sock.c`, `tcp_in.c`) | `state`, listen and accept queues, backlog | bind, listen, connect, accept, close; the state machine of `tcp_process` | peer; waits `wait_connect`, `wait_accept` |
| TIME_WAIT timer (`tcp_timer.c`) | `timer_list` | set, scan | lifecycle |
| sock tables (`tcp_sock.c`) | established, listen and bind tables, `ref_cnt` | hash, unhash, lookup, free | every thread, under `tcp_tlock` |
| ARP cache (`06-router-pass/arpcache.c`, `arp.c`) | 32 entries, list of requests with pending packets | lookup, append, insert, sweep | packet loop and sweep thread under one lock; ICMP |
| IP forwarding (`ip.c`, `ip_base.c`, `rtable.c`, `icmp.c`) | routing table | longest prefix match, forward, ICMP errors | ARP cache |
| learning switch (`03-switch-file/mac.c`) | table of 256 hash lists | lookup, insert, sweep | packet loop and sweep thread |
| NAT (`08-nat/08-nat/nat.c`) | mapping lists, pool of ports | translate both ways, timeout | packet loop and timeout thread |
| MOSPF (`07-mospf/07-mospf/mospf_daemon.c`) | neighbours, link state database, sequence number | hello, LSU, ageing, shortest paths | other routers; four threads |
| spanning tree (`04-stp/04-stp`) | port roles, timers | timers; the handler of a config packet is a stub | |
| hub, device loop, applications, HTTP and HTTPS servers | next to none | I/O | |

What is hard in it: up to four threads share a sock with locks that cover only
part of what they share; condition variables without the flag that remembers a
signal (`include/synch_wait.h` has it commented out); a network that loses and
reorders; windows that close to one byte; sequence numbers that wrap; timers
that expire while the answer is under way; lists whose entries are freed by
one thread while another stands on them.  `PROJECT.json` lists these hazards
with their lines.

What makes each part correct:

- ring: a FIFO, wherever its indices wrap;
- data transfer: what an application reads is a prefix of what its peer wrote;
  every unacked byte can be sent again; an ack is never ahead of delivery; the
  ring is never overrun; nothing stops as long as both ends keep trying;
- retransmission: an unacked segment has a running timer, no list is changed by
  two threads at once, nothing acked is sent again, nobody waits for itself;
- lifecycle: both ends agree on the connection and on what is acked, queues
  respect the backlog and hold live children, the end of the stream is read last;
- ARP: one address, one entry; a packet handed in is sent or answered by ICMP;
- switch: what is learnt leads to the hosts, and a frame arrives exactly once;
- NAT: two flows never share an external port, replies find their flow;
- MOSPF: flooding reaches everybody, no stale update replaces a newer one, and
  the routes of settled routers are shortest paths without loops.

## Modules

| module | models |
|---|---|
| `ByteFifo` | abstract: a bounded queue of bytes |
| `RingBuffer` | the ring of 12, operation by operation, with its refinement to `ByteFifo` |
| `RingBufferProofs` | proofs about it |
| `SeqArith` | the 32-bit comparisons of `tcp.h`, over a space of `SeqSpace` numbers |
| `ReliableStream` | abstract: each end reads a prefix of what the other wrote |
| `TcpStream` | data transfer of 12 between two established socks, refining `ReliableStream` |
| `TcpStreamProofs` | proofs about it |
| `TcpSendPath` | the send path of 13 with its three threads interleaved at every shared access |
| `TcpSendPathProofs` | proofs about it |
| `ClosingStream` | abstract: what is written comes out, and the end comes last |
| `TcpLifecycle` | connections of 12 from connect to TIME_WAIT, clients against a server with its queues, refining `ClosingStream` |
| `TcpLifecycleProofs` | proofs about it |
| `ArpCache` | the ARP cache of 13's router between the packet loop and the sweep |
| `ArpCacheProofs` | proofs about it |
| `Nat` | the address translator, its pool of ports and its timeout thread |
| `NatProofs` | proofs about it |
| `MospfPaths` | shortest paths in a graph, by definition |
| `MospfDijkstra` | Dijkstra's algorithm and the walk back as the daemon has them |
| `Mospf` | the daemons of an area: hellos, flooding, ageing, routes |
| `MospfProofs` | proofs about it |
| `Switch` | a network of learning switches |
| `SwitchProofs` | proofs about it |
| `MC*` | constants of the TLC instances |

### RingBuffer

`head`, `tail` and `buf` are the fields of the C struct; `out` is what the last
read copied to its caller.  Read and write run under `wait_recv->lock`, so each
is one action.  The two `memcpy` calls of a wrapping transfer are the two
branches of `CopiedOut` and `CopiedIn`, kept apart because that is where the
code could go wrong.  The contents of the unused slots stay in the state.

### TcpStream

`sk[e]` is the `tcp_sock` of an end: the fields keep their names, `ofo` is
`rcv_ofo_buf`, `timer` the enable flag of the retransmission timer, `chunk` the
length `tcp_sock_write` has cut and not yet sent.  The actions are

- `CutChunk`, `SendChunk`: one turn of the loop of `tcp_sock_write`, split
  where it releases the lock of `wait_send`;
- `Retransmit`, `GiveUp`: `tcp_scan_retrans_timer_list`.  The longest timeout,
  80000 us, is less than the 100000 us a scan takes off it, so no timeout is kept;
- `Receive`: `handle_tcp_packet` with everything it calls, `handle_recv_data`,
  `tcp_ofo_buf_append`, `tcp_check_ofo_buf`, `handle_ack`;
- `Read`: `tcp_sock_read`;
- `Lose`, and the choice of any segment in `Receive` when `Reordering` is set:
  the network.  A link that holds `MaxNet` segments loses the next ones.

A payload is the sequence of the offsets of its bytes, so that what is read can
be compared with what was written.  Every handler is one step: the accesses of
two threads within one handler are the subject of `TcpSendPath`.  A failed
`assert` in `write_ring_buffer` leaves the sock `ABORTED`.  After RST or giving
up a sock has been freed and takes no part any more.  Handshake and FIN are left
out - they are the subject of `TcpLifecycle` -; a stream starts right after the
handshake with any initial numbers.

### TcpSendPath

`pc[t]` says where the application, the network and the scan thread are;
`owner` who holds `retrans_timer_lock` ("timer") and `send_buf_lock` ("buf").
Each access to state another thread may touch is a step: the enable flag,
`links` (how often the timer hangs in the list), `send_num` with its load and
store apart, the window test and the wait after it.  Accesses under one lock
that nobody else makes without it share a step.  A segment is one number; all
fit the payload limit.  The receiving half of `tcp_process` is not repeated.
`AckArrives` brings any ack for a prefix of what was sent, repeated or not.

### ArpCache

`entries` and `req_list` are the fields of `arpcache_t`, with ages instead of
times.  A critical section under the cache's lock is one step.  The packet loop
hands packets in (`HandPacket`, then `PendPacket` if the lookup failed) and
takes in replies (`handle_arp_packet` with `arpcache_insert`).  The sweep is
`StartSweep`, which ages the table and repeats requests up to the first one
that has had its retries; for each packet of that one `icmp_send_packet` and
`PendIcmp` outside the lock, then `FreePacket` or `FreeRequest`, which goes on
with the walk.  `walk` keeps what the C code keeps in `entry`, `entry_next` and
`pkt_next` across the unlocked section, and `stale` which of the two requests
another thread has freed meanwhile; a step that would touch such memory ends the
model with `corrupt`.  A packet is its next hop and the next hop back to its
source, so the ICMP message about it, and the one about that, are packets too.

### TcpLifecycle

`sk[c]` is the sock of client `c` and `child[c]` the one the server made for it
last; the fields keep their names.  `listener` has the queues of the listening
sock, `app` and `server` say where the applications are (`tcp_client` and
`tcp_server` of `tcp_apps.c`), `waits` whose network thread waits in
`tcp_process`.  The actions are

- `ConnectSend`, `ConnectHash`, `ConnectSleep`: `tcp_sock_connect`, cut because
  the SYN leaves before the sock is in SYN_SENT and in the table, and because
  the wait takes no lock; `Write`, `Close`;
- `ClientReceives`, `ChildReceives`: `tcp_process` for a sock in the table of
  established ones; `ListenSyn`, `ListenRst` for the listening one;
- `Accept`, `ReadBytes`, `TestEnd`, `ReadSleep`, `CloseChild`: the server, whose
  read is cut between its test of the state, its wait and its return;
- `ClientScan`, `ChildScan`: the retransmission scan, `TimeWaitEnds` the other;
- `Lose`: the network, which keeps the order.

A segment is its kind and its two numbers, a data segment one byte: gaps and
windows are `TcpStream`'s.  Initial numbers, which the code draws with `rand()`
(`tcp.c:17`), are fixed: 5 for a client, 100 times n for its nth child, so that
the numbers of successive children increase and never coincide.  An old segment
that fits a new connection by chance is therefore not considered.  Freed children stay linked in the queues, as in the
code, and a step that would touch one ends the model with `corrupt`.

### Nat

`list` is the table of mappings, `assigned_ports` the pool, `lock` `nat.lock`.
`do_translation` has an action per path: a mapping is found, made for a port of
the pool or by a rule, or none can be made; these last two (`PoolExhausted`,
`StrayIn`) return with the lock, which then is `kept`.  `nat_timeout` holds the
lock from `StartSweep` to `EndSweep`.  The flags of the last packet of each side
are kept as the code keeps them: an ack is the flag, 16, and not the number, and
the side that has sent nothing holds what `malloc` found.  `flow` is no state of
the code: it records what packets the translator has seen, for the properties.

### Mospf

One record of state per router, as in the daemon: `nbrs` for the `nbr_list`s of
its interfaces, `sequence_num`, `db`, `rtable`.  Every router runs the packet
loop (`handle_mospf_hello`, `DropLsu`, `StoreLsu`, `ForwardLsu`), the periodic
thread (`PeriodicLsu`) and the two ageing ones (`checking_nbr_thread`,
`checking_database_thread`).  What the code does in several critical sections is
cut there: `owes` has the threads that have changed `nbr_list` and not sent
yet, `hand` the update that was stored and neither routed by nor forwarded.
Links may be cut and come back, updates be lost and entries expire, `MaxFaults`
times.  `excused` is no state of the code: it says which neighbour need not have
which update, because it was lost or flooded before the neighbour was known.

`update_rtable` in `Mospf` takes any first hop of a shortest path; that this is
what the algorithm computes is a property over `MospfDijkstra`, which has the
algorithm index by index, for every order of the database, and a theorem
(`DijkstraIsRight`).  Where the code leaves its arrays - an entry names a router
without an entry, or no path leads to a router - the route is any.

### Switch

`table` and `age` are `mac_port_map`, by switch and host: the iface of an entry
and the seconds since it was visited, both `None` where there is no entry.
`queue` is what waits at the interfaces.  `handle_packet` is the whole of it: lookup, broadcast or send,
insertion of the source.  `sweep_aged_mac_port_entry` and the clock run at any
time.  The network is any tree, given by `Toward`, the port behind which a host
is.  `sentBack` records that a switch has sent a frame out of the port it came
from, which `handle_packet` does when the destination's entry points there.

## Runs

| run | instance | shows |
|---|---|---|
| `ring` | 4 slots, chunks of up to 4 bytes of 2 values | type, and refinement of `ByteFifo` |
| `stream` | 5 bytes from the client, ring of 2, payloads of up to 2, 1 repetition allowed before the last, 3 segments per link, loss, fairness | types, nothing is sent beyond the free space, the ring is not overrun, every byte is read or an end gives up |
| `reorder` | 4 bytes, ring of 3, loss and reordering | what is unacked is kept, what is acked was delivered, refinement of `ReliableStream` |
| `both_ways` | 4 bytes one way, 1 the other | **violation** of `RingHasRoom` |
| `send_path` | 5 segments, window 3, `Limit` 2, `MaxTimes` 1 | types, locks, buffer, resends, timer list |
| `lifecycle` | one client that writes and closes, backlog 1, 1 repetition, 2 segments per link, loss, fairness | types, handshake, acks, queues, network thread, refinement of `ClosingStream`, retransmission ends |
| `handshake` | two clients, one of which writes, backlog 1, loss | the queues under competition |
| `last_ack` | as `lifecycle` | **violation** of `CloseEnds` |
| `arp` | 2 neighbours and the own address, 2 slots, 2 packets, `MaxRetries` 2, `Timeout` 1, fairness | types, one request per address, waiting packets are unanswered, every request ends |
| `nat` | 3 internal hosts, one remote end, 2 ports and a rule, `Timeout` 2, fairness | types, ports are accounted for, replies return, ports come back |
| `mospf` | 3 routers in a line, 1, 3 and 1 updates, 2 under way, 1 fault | types, no own entry, flooding, entries agree, settled routes, Dijkstra |
| `switch` | 2 switches, 2 hosts and 1, 3 frames, `Timeout` 1, fairness | types, entries lead home, one copy, every frame arrives |

The bounds.  Four slots give every pair of head and tail and a wrap at each
offset, and a chunk longer than the ring is refused.  In `TcpStream` the writer
has more bytes than the window, so the window fills, falls to the one byte a
full ring invites and opens again; a payload limit of 2 gives segments that
overlap when bytes are cut anew; the sequence space of 16 numbers is more than
four times the window, as 2^32 is, and the stream crosses the middle of it,
where the sign of the signed difference turns.  `MaxTimes` is 1 (3 in the code)
and a segment can be sent three times before the sock gives up.  `MaxNet` is
the number of copies under way at once.  In `TcpSendPath` a window of 3 and 5
segments let the writer meet both of its waits, let the buffer empty and fill
again, and the timer start, stop and start anew; `Limit` and `MaxTimes` are 50
and 8 in the code, and the proofs below hold for these.

In `TcpLifecycle` one client with one byte goes through every state there is;
two repetitions let a SYN|ACK, a FIN and its ack pass each other in both
directions, and a given-up child be followed by a second one.  Two clients and a
backlog of 1 let the queue be full when the second handshake ends; without
repetitions there (`MaxTimes` 0) a sock sends a segment twice and gives up.

In `ArpCache` two packets are what a walk needs to stand on one while another
follows, or is appended, and two requests make `entry_next` matter; two slots
give a free one in front of a used one, an address entered twice, and then
an insert that replaces; a
request is repeated once before it is given up, an entry lives one second.

In `Nat` the third host is the one the pool is too small for, a rule gives a
second mapping to a host that has one, and the two kinds of packets are those
that the comparison of flags tells apart: after a wrap of the sequence numbers 16
is at least the end of a FIN.  Ages run to `Timeout`, where they stop mattering.
In `Mospf` three routers in a line are the least in which an update is forwarded,
comes back and could come home; the middle one has an update for each neighbour
it finds and one after, and one fault - a cut, a loss or an expiry - may hit at
any point.  Rings of links are left to the proofs, whose topology is any; the
run is symmetric in the two outer routers, and no property of it is temporal.
In `Switch` two switches are the least that may know different hosts, the third
frame is the first that can meet an entry learnt, swept or wrong by the two
before it.

`CHECK_DEADLOCK FALSE` is set where the system really stops: in `TcpStream`
once everything is read, in `TcpSendPath` because the network thread may wait for
its own lock, in `TcpLifecycle` when all is closed, and in `ArpCache` and `Mospf`
because they say nothing after a use of freed memory.  In `Nat`, `Switch` and the
ring something can always happen.

### Findings

1. `both_ways`: `tcp_send_buf_retrans` refreshes the ack of a repeated segment
   but not its `rwnd`.  The peer adds an old, larger window to a new ack and
   sends beyond the free space.  A segment that arrives early passes the test of
   `handle_recv_data`, waits in the out-of-order list, and is written without a
   test when the gap closes: `write_ring_buffer`'s assert ends the process.  In
   one direction alone (`stream`) this cannot happen, because the window a
   repeated segment carries is then always the full one of an idle ring.
2. `last_ack`: a sock in LAST_ACK looks for the ack of its FIN with
   `flags & (TCP_ACK && cb->ack == tsk->snd_nxt)` (12 `tcp_in.c:219`), whose right
   side is 0 or 1: it tests the FIN bit.  A sock that closed after its peer stays
   in the tables for good.

### Steps without a property

These are behaviours of the code that the models contain, as steps or as
weakened properties, and that no run is about.  Lines of 12 and 13 as marked.

- Send path (13).  Between the moment `handle_ack` finds the buffer empty and
  the moment it disables the timer the writer may append a segment and find the
  timer enabled (`tcp_timer.c:119`): the segment has no timer.  When the timer is
  disabled while a new ack comes in, `tcp_reset_retrans_timer` locks a mutex its
  caller holds (`tcp_timer.c:111-112`), the state `selfLock`.  `tcp_sock_write`
  tests the window and waits without the lock (`tcp_sock.c:424`), so the last
  wake-up may be lost.
- Lifecycle (12).  A listening sock takes any segment as valid: a RST closes
  and frees it (`tcp_in.c:132`).  A child that is reset or given up stays linked
  in its parent's queue.  FIN_WAIT_1 and FIN_WAIT_2 are left on any valid segment
  (`tcp_in.c:226-237`), so TIME_WAIT may come before the peer's FIN.  A FIN in
  SYN_RECV is acked and has no effect.  The wake-ups of connect and of the
  reader at the end of the stream may be lost.
- ARP cache.  The sweep unlocks around each ICMP message; a reply handled
  meanwhile sends the packet after all and frees it with its request, and the
  sweep frees it once more (`arpcache.c:182`).  The ICMP error about an
  unreachable host may itself be undeliverable, and the error about it goes to
  the router's own address (`icmp.c:32`), which nobody resolves; once two of
  these wait there the walk goes round for ever.  `arpcache_insert` takes the
  first slot that is free or holds the address, so an address may have two
  entries.  A packet appended while the last packet of a request is refused is
  freed with the request, without an ICMP message.
- NAT.  Two returns keep the lock (`nat.c:86-91`, `129-134`).  The flags, not the
  ack numbers, are compared (`nat.c:96-98`, `138-140`, `173-178`), and only those
  of the last packet: a flow with both FINs may stay until it is silent, or be
  finished before it is acked.  A port is the lowest free one, so the one given
  up last is often the next assigned.
- MOSPF.  Arrays of `ROUTER_NUM`, 4, rows are written with index -1 when an entry
  names a router that has none (`mospf_daemon.c:438`), and `prev[-1]` is read for a
  router that no path leads to.  Routes are computed when an update is stored,
  not when a neighbour or an entry is dropped.  `update_router` picks one router
  too many (`mospf_daemon.c:512-514`): `min_dist` then has none left and gives -1,
  so `visited[-1]` is written on every run, after all routes are in; the model
  leaves that out.  A neighbour that comes late is
  not sent the database.  The packet loop walks lists that the ageing threads
  free (`corrupt`).
- Switch.  A frame whose destination's entry points to the port it came from is
  sent back there (`main.c:26`).  The next switch learns its source on the wrong
  side; with four frames two of them circulate between two switches for ever.
  `lookup_port` reads the `iface` of the entry after it has released the lock
  (`mac.c:48-49`), when the sweep may have freed it; the model takes lookup as one
  step.

### Fairness

`FairSpec` of `TcpStream` asks weak fairness of each thread of both hosts: the
writer (`CutChunk`, `SendChunk`), the reader, the packet loop, the scan.  Each is
a thread of its own, and the scheduler runs a thread that stays runnable.
Nothing is asked of the network: it may lose every segment, which is why the
property allows an end to give up after its repetitions.  `TcpLifecycle` asks the
same of its applications, packet loops and scans, and nothing of `Lose`.
`FairSpec` of `ArpCache` asks weak fairness of the packet loop, where it has a
packet to append, and of the sweep, and strong fairness of the clock, which
stands still only while a sweep is under way; no reply has to come.
`RequestsEnd` assumes that the sweep comes back from its walk, because the
endless walk above says that it may not.  `Nat` asks weak fairness of the timeout
thread, which runs every second, and of the clock; no packet has to come.
`PortsComeBack` allows the lock to be kept.  `Switch` asks weak fairness of each
packet loop for each of its interfaces, which `poll` serves in turn, and nothing
of hosts, sweeps and clocks.

## Proofs

`RingBufferProofs` proves for every `Capacity`, `MaxChunk` and `Byte`:

- `RingTypeCorrect`: `Spec => []TypeOK`.
- `RingImplementsFifo`: `Spec => ImplementsFifo`, by showing that a read maps to
  `Get` and a write to `Put` under `queue <- Queue`.  The argument splits on
  whether the transfer wraps; the lemmas give `Used` after each case and where
  each byte of the queue lies.

`TcpSendPathProofs` proves for every number of segments, window and limit:

- `SendPathTypeCorrect` and `LocksAlwaysHeld`, together: which lock a thread
  holds follows from where it is, and that is inductive as it stands with types;
- `UnackedAlwaysBuffered`, `ResendNeverStale`: the conjunction `IInv` adds that
  the writer numbers a segment only below `Segments`, that entries are freed
  only if acked, that the ack in hand is new while the handler works, and that
  only appended segments have been sent - else an ack could overtake the append
  and freeing would lose a segment - and that between clearing and sending the
  scan's buffer starts at or after `snd_una`, which rests on the timer lock;
- `TimerAlwaysLinkedOnce`: `TimerInv` counts the links exactly: the timer is
  linked if it is enabled and its enabler is past linking, or if the handler of
  an ack has disabled it and not yet unlinked.  The hard case is the unset:
  that the writer is not between enabling and linking then.  It rests on what
  is known of the newest segment: while the writer links the timer, its segment
  has not been sent, so no ack covers it and the buffer is not empty.

`NatProofs` proves for every set of endpoints, rules, pool and timeout
`TypeCorrect`, `PortsStayAccounted` and `RepliesAlwaysReturn`.  `IInv` adds
`FlowsCarried` to the first two: a live flow without a FIN has a mapping of the same
age whose two sides have not both sent a FIN.  The age keeps the sweep from
timing the mapping out, the FINs from finding it finished - whatever `malloc`
left in the other side - and `PortsAccounted` makes it the one that is found.

`MospfProofs` proves for every area - any set of links, rings included -, any
number of updates and of faults.  An area has fewer routers than 127, the distance
that stands for none (`MospfAssumption`; the code has room for 4); only the last
two results use it:

- `TypeCorrect`, `NeverOwnEntry`: an update never comes home.  It is never sent to
  its originator, and entries lie where their originator says (`RightPlace`); nobody
  is its own neighbour (`NotOwnNeighbour`);
- `DatabasesAgree`: strengthened from entries to all copies of updates
  (`CopiesAgree`), those under way and in hands, and by the bound on numbers: an
  old copy may become an entry later;
- `FloodingIsComplete`: for each step, that what a neighbour was owed has
  arrived, is still under way, in the hand, or excused.  The cases are a drop,
  where the entry that stopped the update is as new, a store, which takes an
  older entry's place, and the losses.
- `SettledRoutesReachAlways`: in a settled area the graph of each router is the
  graph of all claims (`SettledGraph`), though it leaves out its own, because
  every neighbour of its claims it back.  `Ball` grows a path at its end and a
  route takes it apart at its front: `HopReaches` and `ReachedByHop` show that both
  give the same, so a first hop is exactly one step nearer (`FirstHopsFacts`);
- `DijkstraIsRight`: for every graph and every order of the database, Dijkstra and
  the walk back along `prev` give exactly the first hops of shortest paths, no
  other and every one in some order (`HopsFoundAreFirstHops`).  `DijkstraInv` is the
  invariant of the loop.  Besides what makes distances right - those of visited
  routers are final, their edges are taken into account, they come first
  (`InOrder`) - it says that `prev` is the first by index among the visited
  routers one step nearer (`FirstOfNearer`).  The walk then stays on a shortest path
  (`WalkFollowsPath`).  For a given first hop, the order that finds it has the
  routers first that are reached through it: the walk goes back from one of them
  to another.  The recursive functions are shown to exist, and their invariants to
  hold, by the least-number principle.

`SwitchProofs` proves for every network without loops `TypeCorrect`,
`EntriesAlwaysLeadHome` and `OneCopyAlways`.  `FramesComeFromHome` says that a
frame waits at the port behind which its source is; a switch passes it on by
other ports only, and without loops it then is so at the next switch.  For
`OneCopy` the invariant `CopyInv` describes each frame by itself: as long as no
switch has sent a frame back, a frame that a host has sent has exactly one copy
on the way to its destination, or has arrived; every other copy waits at a port
behind which its destination is, and is not sent out of that port.  This rests on
the assumption that a host is behind exactly one side of a cable.

`ArpCacheProofs` proves for every set of addresses, slots, packets and limits
`TypeCorrect`, `OneRequestPerAddrAlways` and `WaitingIsUnansweredAlways`.  Until
the sweep has used freed memory, a packet is at one place: in the hands of the
packet loop, at one position of one request, or answered.  What the sweep
keeps across its unlocked section, a request and the next one, is still in
`req_list`, with the packets it counts on, unless it is marked stale; a step that
would follow a stale one ends the model.  The lemmas say what removing and
inserting do to the positions of the others.

`TcpLifecycleProofs` proves for any number of clients, children, backlog and
limits `TypeCorrect`, `HandshakeAgreesAlways`, `AckedIsReceivedAlways`,
`NetworkThreadRunsAlways`, `QueuesConsistentAlways` and that the lifecycle
implements `ClosingStream` (`EndOfStreamIsLastAlways`).  The invariant is a
predicate of one connection: the states of its two ends together with the
segments between them.  Of a link only the set of segments matters, but for one
thing, `SynFirst`: behind a segment that is not a SYN there is no SYN, because the
network keeps the order.  So once the server has seen such a segment
(`NoMoreSyn`) it makes no further child for this client, and what has been
agreed with the child stays true; without it a late SYN could replace the child
under an established client.  Every number on a link is bounded by what its
sender has sent and received, and `Linked` says that a child is linked once, in
the queue that its state and the server call for.  `ClosingStream` is reached
because a FIN has the number behind the byte before it and is taken only there.

`TcpStreamProofs` proves of the data transfer, for any initial numbers, capacity,
limits on payloads, reads, repetitions and links, in both directions at once and
over links that reorder or not: `TypeCorrect`, `UnackedIsKeptAlways`,
`AckedIsDeliveredAlways`, and that it implements `ReliableStream`
(`DeliversPrefixAlways`).

- Its hypothesis `ShortStreams` limits a direction to less than half the sequence
  space, 2^31 bytes with the window.  The code keeps no timestamps and the model
  lets a segment wait for ever, so one from half the space ago would be taken for
  a new one.  Within this bound `NumPlus`, `NumDiff` and `NumCompare` show that
  numbers are added and compared like offsets in the stream, also where they wrap.
- `IInv` says that every segment on a link, in a send buffer or in an
  out-of-order list is a stretch of the stream of its sender; that the ring holds
  the bytes after those read, and `rcv_nxt` counts both; that no ack under way is
  beyond what its sender has received; and `Covers`, that the send buffer
  is a chain of adjacent segments.  An ack must be known to be within what was
  received when it is sent, or `snd_una` could pass `rcv_nxt` later.
- The handlers are shown to keep it one by one: `WriteAdvances` for the last
  bytes of a stretch that overlaps `rcv_nxt`, `WalkKeeps` for the walk of the
  out-of-order list, `AppendAdvances` for the insertion, `AckKeeps` for freeing what
  is acked, `ProcessKeeps` for `tcp_process`.  `tcp_check_ofo_buf` is a recursive
  function of the position, and its invariant follows for each position by the
  least-number principle from the one before.
- `RingHasRoomAlways` and `SendsIntoFreeSpaceAlways` need `OneWayInOrder` besides:
  one of the two applications writes nothing, and links keep the order.  Neither
  can be left out.  When both write, a repeated segment carries a new ack with an
  old window, and `both_ways` shows the ring overrun; when links reorder, an old ack
  with a larger window may come last: on the instance of `stream` with `Reordering`
  TLC then finds `SendsIntoFreeSpace` violated, and with 7 bytes, a ring of 3, reads
  of 1 and 4 segments per link `RingHasRoom` too.  With them the receiver announces
  what the limit `Limit` allows, the bytes read plus the ring, or one byte beyond
  what it has if the ring is full.  The limit never moves back (`LimitGrows`), every
  window under way or taken ends at or below it (`Windows`), and acks arrive in
  order, so the newest window is the one that counts.  Whatever the sender has sent,
  early segments in the out-of-order list included, then fits behind what is in
  the ring (`WalkFits`, `DataMakesRoom`, `ReceiverTells`, `SenderIsTold`); the one byte
  that a full ring invites is refused or fits, and never overruns it.

The assumptions are those on the constants (`CapacityAssumption`,
`MaxChunkAssumption`, `SeqSpaceAssumption`, `StreamAssumption`,
`SendPathAssumption`, `LifecycleAssumption`, `ArpAssumption`, `NatAssumption`,
`MospfAssumption`, `NetworkAssumption`), which TLC evaluates in the runs,
`ShortStreams`, which the instances of `TcpStream` satisfy, and `OneWayInOrder`,
which that of `stream` does.  The inductive invariants that TLC can evaluate were
checked on the instances of the runs before they were proved; `CopyInv` of the
switches, which quantifies over all places, and `DijkstraInv`, which is about the
steps of an algorithm inside one action, were not.

Every safety property and every refinement that a run checks is stated by a
theorem.  Only model-checked is liveness, which is out of the prover's reach:
`EventuallyReadOrGivenUp`, `RetransmissionEnds`, `RequestsEnd`, `PortsComeBack` and
`FramesArrive`.

## Not modelled

- IP forwarding and the routing table: a lookup and a decrement per packet over
  a table that the router of 13 fills once.  Where packets wait, at the ARP
  cache, they are modelled.
- HTTP: parsing, files and the arithmetic of a range reply, over the stack's
  `write` and `read`.  The applications of `TcpLifecycle` are those of 12.
- The hash tables of socks and their reference counts, and handlers of 12 cut
  at each access to a sock that a timer thread may free meanwhile.  What a freed
  sock means for the queues is in `TcpLifecycle`.
- The threads of 12's retransmission among themselves (`send_buf_lock` held on
  an early return of `tcp_send_buf_retrans`): 13's are interleaved instead.
- Bind and the choice of a local port, and a server that writes: that of 12's
  `tcp_apps.c` only reads.  With one that does, the wait on FIN (`tcp_in.c:210`)
  may be for an ack that only the waiting thread can handle.
- Restarts of a MOSPF router, whose sequence numbers start again at 0 and are
  refused by its neighbours until they forget it, and the wrap of the 16 bits.
- The spanning tree, whose handler of config packets is a stub; the hub, which
  has no state; raw sockets and the packet loops' I/O; the HTTPS server of
  `02-Socket` (kernel and OpenSSL); checksums; lab reports and data.
- The earlier stages and other copies of the stack, which the models of its last
  two revisions stand for; they are not read line by line.
