---------------------------- MODULE TcpLifecycle ----------------------------
(***************************************************************************)
(* Opening and closing connections in the stack of 12-tcp_stack/tcp_exp1:  *)
(* the client and the server of tcp_apps.c, each on a host of its own, the *)
(* handlers of tcp_process, the queues of the listening sock and the two   *)
(* timer scans.  A handler is one step; the calls of the applications are  *)
(* cut where they may be interrupted: in connect and in the reader's wait. *)
(*                                                                         *)
(* A segment is [kind, seq, ack]; a data segment holds one byte and never  *)
(* fills a window (TcpStream is about windows and gaps).  A client writes  *)
(* at most one segment, so nothing arrives out of order but a FIN.  The    *)
(* retransmission timer runs exactly while something is unacked, because   *)
(* the handlers are steps (TcpSendPath is about the timer).  A sock whose  *)
(* last reference is dropped is FREED and takes no part any more.          *)
(***************************************************************************)
EXTENDS Integers, Sequences, FiniteSets, SequencesExt

CONSTANTS Clients,     \* the client hosts
          Writers,     \* the clients that write a segment
          Closers,     \* the clients that close
          Backlog,     \* the argument of tcp_sock_listen
          MaxTimes,    \* a segment sent again more often than this is given up
          MaxNet       \* segments a link holds, further ones are lost

ASSUME LifecycleAssumption ==
  /\ Writers \subseteq Clients /\ Closers \subseteq Clients /\ "none" \notin Clients
  /\ Backlog \in Nat /\ MaxTimes \in Nat /\ MaxNet \in Nat \ {0}

VARIABLES sk,          \* sk[c]: the sock of client c
          child,       \* child[c]: the latest sock the server made for client c
          listener,    \* the listening sock: its state, queues and accept_backlog
          app,         \* app[c]: where the application of client c is
          server,      \* where the application of the server is, and its sock
          up, down,    \* up[c], down[c]: the segments from and to client c
          wrote,       \* wrote[c]: bytes client c has written
          got,         \* got[c]: bytes of client c the server has read
          waits,       \* the socks whose network thread waits in tcp_process
          corrupt      \* the server used a freed sock: nothing is said after it

socks == <<sk, child, listener, waits, corrupt>>
links == <<up, down>>
apps == <<app, server, wrote, got>>
vars == <<socks, links, apps>>

-----------------------------------------------------------------------------
(***************************************************************************)
(* Socks and segments.  For the numbers the code draws at random, a        *)
(* client's start at 5, those of its nth child at 100 * n.                 *)
(***************************************************************************)
NewSock(iss) == [state |-> "CLOSED", snd_una |-> 0, snd_nxt |-> iss,
                 rcv_nxt |-> 0, send_buf |-> << >>, rcv_buf |-> 0]

Freed(s) == [NewSock(s.snd_nxt) EXCEPT !.state = "FREED"]
NoSock == Freed(NewSock(0))

Generation(s) == s.snd_nxt \div 100

Hashed(s) == s.state \notin {"CLOSED", "FREED"}

Segment(s, kind) == [kind |-> kind, seq |-> s.snd_nxt, ack |-> s.rcv_nxt]

HasAck(seg) == seg.kind \in {"SYNACK", "ACK", "DATA", "FIN"}
SeqEnd(seg) == seg.seq + (IF seg.kind \in {"SYN", "SYNACK", "DATA", "FIN"} THEN 1 ELSE 0)

(***************************************************************************)
(* A segment that takes a number is kept until it is acked.                *)
(***************************************************************************)
\* Mutated Numbered: a FIN takes no number.
FinUnnumbered(s, kind) ==
  [s EXCEPT !.snd_nxt = IF kind = "FIN" THEN @ ELSE @ + 1,
            !.send_buf = Append(@, [seg |-> Segment(s, kind), times |-> 0])]

Numbered(s, kind) ==
  [s EXCEPT !.snd_nxt = @ + 1,
            !.send_buf = Append(@, [seg |-> Segment(s, kind), times |-> 0])]

Smaller(a, b) == IF a < b THEN a ELSE b
Sent(link, segs) == SubSeq(link \o segs, 1, Smaller(MaxNet, Len(link) + Len(segs)))

Init ==
  /\ sk = [c \in Clients |-> NewSock(5)]
  /\ child = [c \in Clients |-> NoSock]
  /\ listener = [state |-> "LISTEN", listen_queue |-> << >>,
                 accept_queue |-> << >>, accept_backlog |-> 0]
  /\ app = [c \in Clients |-> "start"]
  /\ server = [pc |-> "accept", csk |-> "none"]
  /\ up = [c \in Clients |-> << >>] /\ down = [c \in Clients |-> << >>]
  /\ wrote = [c \in Clients |-> 0] /\ got = [c \in Clients |-> 0]
  /\ waits = {} /\ corrupt = FALSE

-----------------------------------------------------------------------------
(***************************************************************************)
(* The client: tcp_sock_connect sends the SYN before the sock is in its    *)
(* state and in the table, and waits without the lock of wait_connect.     *)
(***************************************************************************)
ConnectSend(c) ==
  /\ app[c] = "start"
  /\ sk' = [sk EXCEPT ![c] = Numbered(@, "SYN")]
  /\ up' = [up EXCEPT ![c] = Sent(@, <<Segment(sk[c], "SYN")>>)]
  /\ app' = [app EXCEPT ![c] = "sent"]
  /\ UNCHANGED <<child, listener, waits, corrupt, down, server, wrote, got>>

ConnectHash(c) ==
  /\ app[c] = "sent"
  /\ sk' = [sk EXCEPT ![c].state = "SYN_SENT"]
  /\ app' = [app EXCEPT ![c] = "hashed"]
  /\ UNCHANGED <<child, listener, waits, corrupt, links, server, wrote, got>>

ConnectSleep(c) ==
  /\ app[c] = "hashed" /\ Hashed(sk[c])
  /\ app' = [app EXCEPT ![c] = "asleep"]
  /\ UNCHANGED <<socks, links, server, wrote, got>>

Write(c) ==
  /\ app[c] = "connected" /\ c \in Writers /\ wrote[c] = 0 /\ Hashed(sk[c])
  /\ sk' = [sk EXCEPT ![c] = Numbered(@, "DATA")]
  /\ up' = [up EXCEPT ![c] = Sent(@, <<Segment(sk[c], "DATA")>>)]
  /\ wrote' = [wrote EXCEPT ![c] = 1]
  /\ UNCHANGED <<child, listener, waits, corrupt, down, app, server, got>>

(***************************************************************************)
(* tcp_sock_close: FIN from the two states that send one, else RST.        *)
(***************************************************************************)
tcp_sock_close(s) ==
  CASE s.state = "ESTABLISHED" -> [Numbered(s, "FIN") EXCEPT !.state = "FIN_WAIT_1"]
    [] s.state = "CLOSE_WAIT" -> [Numbered(s, "FIN") EXCEPT !.state = "LAST_ACK"]
    [] OTHER -> Freed(s)

CloseSegment(s) == Segment(s, IF s.state \in {"ESTABLISHED", "CLOSE_WAIT"} THEN "FIN" ELSE "RST")

Close(c) ==
  /\ app[c] = "connected" /\ c \in Closers /\ (c \in Writers => wrote[c] = 1)
  /\ Hashed(sk[c])
  /\ sk' = [sk EXCEPT ![c] = tcp_sock_close(@)]
  /\ up' = [up EXCEPT ![c] = Sent(@, <<CloseSegment(sk[c])>>)]
  /\ app' = [app EXCEPT ![c] = "closed"]
  /\ UNCHANGED <<child, listener, waits, corrupt, down, server, wrote, got>>

-----------------------------------------------------------------------------
(***************************************************************************)
(* tcp_process, for a sock that is found in the table of established ones. *)
(***************************************************************************)
NeverSent(s, cb) == cb.ack > s.snd_nxt

Old(s, cb) == s.rcv_nxt > SeqEnd(cb) \/ (s.rcv_nxt = SeqEnd(cb) /\ cb.seq < SeqEnd(cb))

\* Mutated OutOfOrder: a FIN may overtake the data before it.
FinAnytime(s, cb) == cb.seq > s.rcv_nxt /\ cb.kind \in {"SYN", "SYNACK"}

OutOfOrder(s, cb) == cb.seq > s.rcv_nxt /\ cb.kind \in {"SYN", "SYNACK", "FIN"}

is_tcp_seq_valid(s, cb) ==
  IF s.state = "SYN_SENT" THEN cb.ack = s.snd_nxt
  ELSE ~NeverSent(s, cb) /\ ~Old(s, cb) /\ ~OutOfOrder(s, cb)

Readable == {"ESTABLISHED", "SYN_RECV", "FIN_WAIT_1", "FIN_WAIT_2"}

handle_recv_data(s, cb) ==
  IF cb.seq <= s.rcv_nxt /\ SeqEnd(cb) > s.rcv_nxt
  THEN [s EXCEPT !.rcv_nxt = SeqEnd(cb),
                 !.rcv_buf = IF cb.kind = "DATA" /\ s.state \in Readable THEN @ + 1 ELSE @]
  ELSE s

tcp_send_buf_clear(send_buf, ack) ==
  LET kept == SelectInSeq(send_buf, LAMBDA x : SeqEnd(x.seg) > ack)
  IN IF kept = 0 THEN << >> ELSE SubSeq(send_buf, kept, Len(send_buf))

\* Mutated handle_ack: the ack that a FIN or data carry does not count.
PureAckOnly(s, cb) ==
  IF cb.kind = "ACK" /\ s.snd_una < cb.ack
  THEN [s EXCEPT !.snd_una = cb.ack, !.send_buf = tcp_send_buf_clear(@, cb.ack)]
  ELSE s

handle_ack(s, cb) ==
  IF HasAck(cb) /\ s.snd_una < cb.ack
  THEN [s EXCEPT !.snd_una = cb.ack, !.send_buf = tcp_send_buf_clear(@, cb.ack)]
  ELSE s

(***************************************************************************)
(* The state after the segment.  FIN_WAIT_1 and FIN_WAIT_2 are left on any *)
(* valid segment.  LAST_ACK tests flags & (TCP_ACK && ...), whose value is *)
(* 0 or 1: bit 0 is the FIN flag.                                          *)
(***************************************************************************)
Advanced(s, cb) ==
  CASE s.state = "ESTABLISHED" /\ cb.kind = "FIN" -> [s EXCEPT !.state = "CLOSE_WAIT"]
    [] s.state = "FIN_WAIT_1" -> [s EXCEPT !.state = "FIN_WAIT_2"]
    [] s.state = "FIN_WAIT_2" -> [s EXCEPT !.state = "TIME_WAIT"]
    [] s.state = "LAST_ACK" /\ cb.kind = "FIN" /\ cb.ack = s.snd_nxt -> Freed(s)
    [] OTHER -> s

Opened(s, cb) ==
  [s EXCEPT !.state = "ESTABLISHED", !.rcv_nxt = SeqEnd(cb), !.snd_una = cb.ack,
            !.send_buf = << >>]

Reply(s, cb) == IF cb.seq < SeqEnd(cb) THEN <<Segment(s, "ACK")>> ELSE << >>

tcp_process(s, cb) ==
  LET t == handle_ack(handle_recv_data(s, cb), cb)
      done(sock, out) == [sock |-> sock, out |-> out]
  IN IF ~is_tcp_seq_valid(s, cb)
     THEN done(s, IF s.state # "SYN_SENT" /\ ~NeverSent(s, cb) /\ Old(s, cb)
                  THEN <<Segment(s, "ACK")>> ELSE << >>)
     ELSE IF cb.kind = "RST" THEN done(Freed(s), << >>)
     ELSE IF s.state # "SYN_SENT" THEN done(Advanced(t, cb), Reply(t, cb))
     ELSE IF cb.kind = "SYNACK" THEN done(Opened(s, cb), Reply(Opened(s, cb), cb))
     ELSE done(s, << >>)

(***************************************************************************)
(* On FIN the network thread waits until everything sent is acked.         *)
(***************************************************************************)
WaitsForAck(s, t) == s.state = "ESTABLISHED" /\ t.state = "CLOSE_WAIT" /\ t.snd_nxt > t.snd_una

ClientReceives(c) ==
  /\ down[c] # << >> /\ c \notin waits
  /\ LET p == IF Hashed(sk[c]) THEN tcp_process(sk[c], Head(down[c]))
                               ELSE [sock |-> sk[c], out |-> << >>]
     IN /\ sk' = [sk EXCEPT ![c] = p.sock]
        /\ up' = [up EXCEPT ![c] = Sent(@, p.out)]
        /\ app' = IF sk[c].state = "SYN_SENT" /\ p.sock.state = "ESTABLISHED" /\ app[c] = "asleep"
                  THEN [app EXCEPT ![c] = "connected"] ELSE app
        /\ waits' = IF WaitsForAck(sk[c], p.sock) THEN waits \cup {c} ELSE waits
  /\ down' = [down EXCEPT ![c] = Tail(@)]
  /\ UNCHANGED <<child, listener, corrupt, server, wrote, got>>

-----------------------------------------------------------------------------
(***************************************************************************)
(* The queues of the listening sock are linked through their members: an   *)
(* operation touches the neighbours of the place it changes.  A child that *)
(* was freed is still linked.                                              *)
(***************************************************************************)
Id(c) == [client |-> c, generation |-> Generation(child[c])]

Dangling(queue, places) ==
  \E i \in places \cap DOMAIN queue :
    LET c == queue[i].client IN child[c].state = "FREED" \/ queue[i] # Id(c)

Running == ~corrupt /\ "server" \notin waits

UseAfterFree ==
  /\ corrupt' = TRUE
  /\ UNCHANGED <<sk, child, listener, waits, links, apps>>

(***************************************************************************)
(* A SYN for the listening sock makes a child.                             *)
(***************************************************************************)
\* Mutated NewChild: the child is open before its SYN|ACK is acked.
OpenChild(c, cb) ==
  [NewSock(100 * (Generation(child[c]) + 1)) EXCEPT
     !.state = "ESTABLISHED", !.rcv_nxt = SeqEnd(cb)]

NewChild(c, cb) ==
  [NewSock(100 * (Generation(child[c]) + 1)) EXCEPT
     !.state = "SYN_RECV", !.rcv_nxt = SeqEnd(cb)]

ListenSyn(c) ==
  /\ Running /\ up[c] # << >> /\ Head(up[c]).kind = "SYN"
  /\ ~Hashed(child[c]) /\ listener.state = "LISTEN"
  /\ IF Dangling(listener.listen_queue, {Len(listener.listen_queue)}) THEN UseAfterFree
     ELSE LET csk == NewChild(c, Head(up[c]))
          IN /\ child' = [child EXCEPT ![c] = Numbered(csk, "SYNACK")]
             /\ listener' = [listener EXCEPT !.listen_queue =
                               Append(@, [client |-> c, generation |-> Generation(csk)])]
             /\ down' = [down EXCEPT ![c] = Sent(@, <<Segment(csk, "SYNACK")>>)]
             /\ up' = [up EXCEPT ![c] = Tail(@)]
             /\ UNCHANGED <<sk, waits, corrupt, apps>>

(***************************************************************************)
(* Every segment is valid for the listening sock, and a RST closes it.     *)
(***************************************************************************)
ListenRst(c) ==
  /\ Running /\ up[c] # << >> /\ Head(up[c]).kind = "RST"
  /\ ~Hashed(child[c]) /\ listener.state = "LISTEN"
  /\ listener' = [listener EXCEPT !.state = "FREED"]
  /\ up' = [up EXCEPT ![c] = Tail(@)]
  /\ UNCHANGED <<sk, child, waits, corrupt, down, apps>>

NoSockFound(c) ==
  /\ Running /\ up[c] # << >> /\ ~Hashed(child[c])
  /\ Head(up[c]).kind \notin {"SYN", "RST"} \/ listener.state # "LISTEN"
  /\ up' = [up EXCEPT ![c] = Tail(@)]
  /\ UNCHANGED <<socks, down, apps>>

(***************************************************************************)
(* The last ack of the handshake moves the child to the accept queue, if   *)
(* there is room.                                                          *)
(***************************************************************************)
\* Mutated AcceptQueueFull: one child more than the backlog.
FullBeyondBacklog == listener.accept_backlog > Backlog

AcceptQueueFull == listener.accept_backlog >= Backlog

LastOfHandshake(t, cb) == t.state = "SYN_RECV" /\ HasAck(cb) /\ cb.ack = t.snd_nxt

PlaceOf(c) == SelectInSeq(listener.listen_queue, LAMBDA q : q = Id(c))

\* Mutated tcp_sock_accept_enqueue: the child stays in the listen queue.
EnqueueOnly(c) ==
  listener' = [listener EXCEPT !.accept_queue = Append(@, Id(c)), !.accept_backlog = @ + 1]

tcp_sock_accept_enqueue(c) ==
  listener' = [listener EXCEPT !.listen_queue = RemoveAt(@, PlaceOf(c)),
                               !.accept_queue = Append(@, Id(c)), !.accept_backlog = @ + 1]

EnqueueTouchesFreed(c) ==
  \/ Dangling(listener.listen_queue, {PlaceOf(c) - 1, PlaceOf(c) + 1})
  \/ Dangling(listener.accept_queue, {Len(listener.accept_queue)})

(***************************************************************************)
(* The lock of wait_recv: the reader holds it from its test to its wait.   *)
(* It keeps it at the end of the stream, when no segment asks for it more. *)
(***************************************************************************)
RecvLocked(c) == server.csk = c /\ server.pc = "tested"

Awake(c, woken) == IF woken /\ server = [pc |-> "asleep", csk |-> c]
                   THEN [server EXCEPT !.pc = "read"] ELSE server

ChildReceives(c) ==
  /\ Running /\ up[c] # << >> /\ Hashed(child[c])
  /\ LET cb == Head(up[c])
         s == child[c]
         p == tcp_process(s, cb)
         valid == is_tcp_seq_valid(s, cb) /\ cb.kind # "RST"
     IN /\ ~(p.sock.rcv_buf > s.rcv_buf /\ RecvLocked(c))
        /\ IF valid /\ LastOfHandshake(p.sock, cb)
              /\ (listener.state = "FREED" \/ (~AcceptQueueFull /\ EnqueueTouchesFreed(c)))
           THEN UseAfterFree
           ELSE /\ IF valid /\ LastOfHandshake(p.sock, cb) /\ ~AcceptQueueFull
                   THEN /\ child' = [child EXCEPT ![c] = [p.sock EXCEPT !.state = "ESTABLISHED"]]
                        /\ tcp_sock_accept_enqueue(c)
                   ELSE /\ child' = [child EXCEPT ![c] = p.sock]
                        /\ UNCHANGED listener
                /\ waits' = IF WaitsForAck(s, p.sock) THEN waits \cup {"server"} ELSE waits
                /\ server' = Awake(c, \/ p.sock.rcv_buf > s.rcv_buf
                                      \/ /\ p.sock.state = "CLOSE_WAIT" /\ s.state = "ESTABLISHED"
                                         /\ ~WaitsForAck(s, p.sock))
                /\ down' = [down EXCEPT ![c] = Sent(@, p.out)]
                /\ up' = [up EXCEPT ![c] = Tail(@)]
                /\ UNCHANGED <<sk, corrupt, app, wrote, got>>

-----------------------------------------------------------------------------
(***************************************************************************)
(* The server: accepts one connection, reads until read returns 0, closes. *)
(* The reader tests the state under the lock of wait_recv; the FIN handler *)
(* sets it and signals without.                                            *)
(***************************************************************************)
Accept ==
  /\ ~corrupt /\ server.pc = "accept" /\ listener.state = "LISTEN"
  /\ listener.accept_queue # << >>
  /\ IF Dangling(listener.accept_queue, {1, 2}) THEN UseAfterFree
     ELSE /\ server' = [pc |-> "read", csk |-> Head(listener.accept_queue).client]
          /\ listener' = [listener EXCEPT !.accept_queue = Tail(@), !.accept_backlog = @ - 1]
          /\ UNCHANGED <<sk, child, waits, corrupt, links, app, wrote, got>>

Serving(pc) == ~corrupt /\ server.pc = pc /\ Hashed(child[server.csk])

ReadBytes ==
  /\ Serving("read") /\ child[server.csk].rcv_buf > 0
  /\ got' = [got EXCEPT ![server.csk] = @ + child[server.csk].rcv_buf]
  /\ child' = [child EXCEPT ![server.csk].rcv_buf = 0]
  /\ UNCHANGED <<sk, listener, waits, corrupt, links, app, server, wrote>>

TestEnd ==
  /\ Serving("read") /\ child[server.csk].rcv_buf = 0
  /\ server' = [server EXCEPT !.pc = IF child[server.csk].state = "CLOSE_WAIT"
                                     THEN "eof" ELSE "tested"]
  /\ UNCHANGED <<socks, links, app, wrote, got>>

ReadSleep ==
  /\ Serving("tested")
  /\ server' = [server EXCEPT !.pc = "asleep"]
  /\ UNCHANGED <<socks, links, app, wrote, got>>

CloseChild ==
  /\ Serving("eof")
  /\ LET c == server.csk
     IN /\ child' = [child EXCEPT ![c] = tcp_sock_close(@)]
        /\ down' = [down EXCEPT ![c] = Sent(@, <<CloseSegment(child[c])>>)]
  /\ server' = [server EXCEPT !.pc = "closed"]
  /\ UNCHANGED <<sk, listener, waits, corrupt, up, app, wrote, got>>

-----------------------------------------------------------------------------
(***************************************************************************)
(* The retransmission scan of either host, as in TcpStream, and the scan   *)
(* for socks in TIME_WAIT.                                                 *)
(***************************************************************************)
Repeat(s) == [Head(s.send_buf).seg EXCEPT !.ack = s.rcv_nxt]

\* Mutated Repeated: a repetition is not counted.
RepeatedUncounted(s) == s

Repeated(s) == [s EXCEPT !.send_buf[1].times = @ + 1]

Expired(s) == Hashed(s) /\ s.send_buf # << >>

\* Mutated Exhausted: no limit to the repetitions.
ExhaustedNever(s) == FALSE

Exhausted(s) == Head(s.send_buf).times > MaxTimes

Scanned(s) == IF Exhausted(s) THEN Freed(s) ELSE Repeated(s)
ScanSends(s) == IF Exhausted(s) THEN Segment(s, "RST") ELSE Repeat(s)

ClientScan(c) ==
  /\ Expired(sk[c])
  /\ sk' = [sk EXCEPT ![c] = Scanned(@)]
  /\ up' = [up EXCEPT ![c] = Sent(@, <<ScanSends(sk[c])>>)]
  /\ UNCHANGED <<child, listener, waits, corrupt, down, apps>>

ChildScan(c) ==
  /\ ~corrupt /\ Expired(child[c])
  /\ child' = [child EXCEPT ![c] = Scanned(@)]
  /\ down' = [down EXCEPT ![c] = Sent(@, <<ScanSends(child[c])>>)]
  /\ UNCHANGED <<sk, listener, waits, corrupt, up, apps>>

TimeWaitEnds(c) ==
  /\ sk[c].state = "TIME_WAIT"
  /\ sk' = [sk EXCEPT ![c] = Freed(@)]
  /\ UNCHANGED <<child, listener, waits, corrupt, links, apps>>

Lose(c) ==
  \/ /\ up[c] # << >> /\ up' = [up EXCEPT ![c] = Tail(@)]
     /\ UNCHANGED <<socks, down, apps>>
  \/ /\ down[c] # << >> /\ down' = [down EXCEPT ![c] = Tail(@)]
     /\ UNCHANGED <<socks, up, apps>>

ClientApp(c) == ConnectSend(c) \/ ConnectHash(c) \/ ConnectSleep(c) \/ Write(c) \/ Close(c)
ServerApp == Accept \/ ReadBytes \/ TestEnd \/ ReadSleep \/ CloseChild
ServerNet(c) == ListenSyn(c) \/ ListenRst(c) \/ NoSockFound(c) \/ ChildReceives(c)

Next ==
  \/ \E c \in Clients : \/ ClientApp(c) \/ ClientReceives(c) \/ ServerNet(c)
                        \/ ClientScan(c) \/ ChildScan(c) \/ TimeWaitEnds(c) \/ Lose(c)
  \/ ServerApp

Spec == Init /\ [][Next]_vars

(***************************************************************************)
(* Every thread of every host is scheduled.  The network may lose all.     *)
(***************************************************************************)
Fairness ==
  /\ WF_vars(ServerApp)
  /\ \A c \in Clients :
       /\ WF_vars(ClientApp(c)) /\ WF_vars(ClientReceives(c)) /\ WF_vars(ServerNet(c))
       /\ WF_vars(ClientScan(c)) /\ WF_vars(ChildScan(c)) /\ WF_vars(TimeWaitEnds(c))

FairSpec == Spec /\ Fairness

-----------------------------------------------------------------------------
States == {"CLOSED", "SYN_SENT", "SYN_RECV", "ESTABLISHED", "FIN_WAIT_1", "FIN_WAIT_2",
           "TIME_WAIT", "CLOSE_WAIT", "LAST_ACK", "FREED"}

SockOK(s) ==
  /\ s.state \in States /\ {s.snd_una, s.snd_nxt, s.rcv_nxt} \subseteq Nat /\ s.rcv_buf \in {0, 1}
  /\ \A i \in DOMAIN s.send_buf : s.send_buf[i].times \in 0..(MaxTimes + 1)

TypeOK ==
  /\ \A c \in Clients : SockOK(sk[c]) /\ SockOK(child[c])
  /\ app \in [Clients -> {"start", "sent", "hashed", "asleep", "connected", "closed"}]
  /\ server.pc \in {"accept", "read", "tested", "asleep", "eof", "closed"}
  /\ server.csk \in Clients \cup {"none"} /\ waits \subseteq Clients \cup {"server"}
  /\ wrote \in [Clients -> {0, 1}] /\ got \in [Clients -> {0, 1}]

(***************************************************************************)
(* Both ends agree on the connection.  A child is ESTABLISHED only for a   *)
(* client that has seen its SYN|ACK, whichever segments were lost or       *)
(* repeated on the way; and what one end takes as acked the other has      *)
(* received, SYN, data and FIN alike (tcp_process).                        *)
(***************************************************************************)
HandshakeAgrees ==
  \A c \in Clients : Hashed(child[c]) /\ child[c].state # "SYN_RECV" =>
    sk[c].state \notin {"CLOSED", "SYN_SENT"}

AckedIsReceived ==
  \A c \in Clients : Hashed(child[c]) /\ sk[c].state \notin {"CLOSED", "SYN_SENT", "FREED"} =>
    /\ sk[c].snd_una <= child[c].rcv_nxt /\ child[c].rcv_nxt <= sk[c].snd_nxt
    /\ child[c].snd_una <= sk[c].rcv_nxt /\ sk[c].rcv_nxt <= child[c].snd_nxt

(***************************************************************************)
(* The queues of the listening sock: accept_backlog counts the accept      *)
(* queue and respects the backlog, and a child in the tables is linked     *)
(* once, in the queue of its state, until it is accepted.                  *)
(***************************************************************************)
QueuesConsistent ==
  LET l == listener
      places(queue, c) == {i \in DOMAIN queue : queue[i] = Id(c)}
  IN ~corrupt =>
     /\ l.accept_backlog = Len(l.accept_queue) /\ l.accept_backlog <= Backlog
     /\ \A c \in Clients : Hashed(child[c]) =>
          IF child[c].state = "SYN_RECV"
          THEN Cardinality(places(l.listen_queue, c)) = 1 /\ places(l.accept_queue, c) = {}
          ELSE /\ places(l.listen_queue, c) = {}
               /\ Cardinality(places(l.accept_queue, c)) = IF server.csk = c THEN 0 ELSE 1

(***************************************************************************)
(* The network thread never waits for an ack it would have to handle       *)
(* itself, as long as the server writes nothing: its SYN|ACK is acked      *)
(* before a FIN is looked at (the loop at tcp_in.c:210).                   *)
(***************************************************************************)
NetworkThreadRuns == waits = {}

(***************************************************************************)
(* What the server reads: a read returns 0 only after the client has       *)
(* closed and all it wrote was read, through lost and repeated segments    *)
(* (tcp_sock_read, CLOSE_WAIT in tcp_process).                             *)
(***************************************************************************)
Conversation == INSTANCE ClosingStream WITH
  closed <- {c \in Clients : app[c] = "closed"},
  ended <- IF server.pc \in {"eof", "closed"} THEN {server.csk} ELSE {}

EndOfStreamIsLast == Conversation!Spec

(***************************************************************************)
(* Retransmission ends: what a sock keeps for it is acked or the sock is   *)
(* given up, whatever the network loses (tcp_scan_retrans_timer_list).     *)
(***************************************************************************)
Pending(s) == s.send_buf # << >>

RetransmissionEnds ==
  \A c \in Clients : /\ Pending(sk[c]) ~> ~Pending(sk[c])
                     /\ Pending(child[c]) ~> (~Pending(child[c]) \/ corrupt)

-----------------------------------------------------------------------------
(***************************************************************************)
(* What a comment says and the code does not do: close ends by "switching  *)
(* TCP_STATE to closed" (tcp_sock.c:386-387).                              *)
(***************************************************************************)
CloseEnds == \A c \in Clients :
  child[c].state = "LAST_ACK" ~> (~Hashed(child[c]) \/ corrupt)
=============================================================================
