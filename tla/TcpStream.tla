----------------------------- MODULE TcpStream ------------------------------
(***************************************************************************)
(* Data transfer of the TCP stack of 12-tcp_stack/tcp_exp1 between two     *)
(* ESTABLISHED socks over a network that loses segments: the sender's      *)
(* window and retransmission buffer, the receiver's ring and out-of-order  *)
(* list, and the segments between them.  Both applications may write, both *)
(* read.  A handler or a call is one step here; in TcpSendPath the threads *)
(* interleave within the handlers that share the retransmission state.     *)
(*                                                                         *)
(* A payload is the sequence of the stream offsets of its bytes, so what a *)
(* sock delivers can be compared with what its peer wrote.                 *)
(***************************************************************************)
EXTENDS SeqArith, Sequences, SequencesExt

CONSTANTS ToSend,      \* ToSend[e]: bytes the application at e writes
          ISS,         \* ISS[e]: the initial sequence number rand() gave e
          Capacity,    \* bytes the receive ring holds, TCP_DEFAULT_WINDOW
          MSS,         \* longest payload, ETH_FRAME_LEN - TCP_HEADER_LEN
          ReadSize,    \* longest read of an application
          MaxTimes,    \* a segment sent again more often than this is given up
          MaxNet,      \* segments a link holds, further ones are lost
          Reordering   \* whether the network may reorder segments

Endpoint == DOMAIN ToSend

ASSUME StreamAssumption ==
  /\ \E c, s \in Endpoint : c # s /\ Endpoint = {c, s}
  /\ ToSend \in [Endpoint -> Nat]
  /\ ISS \in [Endpoint -> SeqNum]
  /\ Capacity \in Nat \ {0} /\ MSS \in Nat \ {0} /\ ReadSize \in Nat \ {0}
  /\ MaxTimes \in Nat /\ MaxNet \in Nat \ {0}
  /\ Reordering \in BOOLEAN

VARIABLES sk,          \* sk[e]: the tcp_sock of endpoint e
          net,         \* net[e]: the segments on their way to e
          wrote,       \* wrote[e]: bytes e's application has handed to e
          got          \* got[e]: the bytes e's application has read

vars == <<sk, net, wrote, got>>

Peer(e) == CHOOSE p \in Endpoint : p # e

\* Mutated AtLeastOne: a full ring closes the window.
MayBeZero(n) == n

AtLeastOne(n) == IF n > 1 THEN n ELSE 1
Smaller(a, b) == IF a < b THEN a ELSE b

-----------------------------------------------------------------------------
(***************************************************************************)
(* Segments: seq_end of the control block, and the last n bytes of data.   *)
(***************************************************************************)
SeqEnd(seg) == Plus(seg.seq, Len(seg.data))

LastBytes(data, n) == SubSeq(data, Len(data) - n + 1, Len(data))

FreeSpace(s) == Capacity - Len(s.rcv_buf)

ControlPacket(s, flags) ==
  [flags |-> flags, seq |-> s.snd_nxt, data |-> << >>,
   ack |-> s.rcv_nxt, rwnd |-> s.rcv_wnd]

(***************************************************************************)
(* The link towards e after segs are sent into it; a full link loses them. *)
(***************************************************************************)
Sent(link, segs) == SubSeq(link \o segs, 1, Smaller(MaxNet, Len(link) + Len(segs)))

-----------------------------------------------------------------------------
(***************************************************************************)
(* The sock right after the three-way handshake.                           *)
(***************************************************************************)
Established(e) ==
  [state |-> "ESTABLISHED",
   snd_una |-> Plus(ISS[e], 1), snd_nxt |-> Plus(ISS[e], 1),
   snd_wnd |-> Capacity, send_buf |-> << >>, timer |-> FALSE,
   rcv_nxt |-> Plus(ISS[Peer(e)], 1), rcv_wnd |-> Capacity,
   rcv_buf |-> << >>, ofo |-> << >>, chunk |-> 0]

Init == /\ sk = [e \in Endpoint |-> Established(e)]
        /\ net = [e \in Endpoint |-> << >>]
        /\ wrote = [e \in Endpoint |-> 0]
        /\ got = [e \in Endpoint |-> << >>]

-----------------------------------------------------------------------------
(***************************************************************************)
(* Sending.  tcp_sock_write waits on wait_send while the window is full,   *)
(* and cuts a chunk to the payload limit and the window, all under the     *)
(* lock of wait_send.  It sends the chunk after it released the lock, by   *)
(* when the network thread may have changed the window.                    *)
(***************************************************************************)
WindowFull(s) == greater_or_equal_32b(s.snd_nxt, Plus(s.snd_una, s.snd_wnd))

\* Mutated SendLen: the chunk is not cut to the window.
SendLenAnyWindow(s, len) == Smaller(len, MSS)

SendLen(s, len) ==
  Smaller(Smaller(len, MSS), Diff(Plus(s.snd_una, s.snd_wnd), s.snd_nxt))

tcp_send_packet(s, data) ==
  LET seg == [flags |-> {"ACK"}, seq |-> s.snd_nxt, data |-> data,
              ack |-> s.rcv_nxt, rwnd |-> s.rcv_wnd]
  IN [seg |-> seg,
      sock |-> [s EXCEPT !.snd_nxt = Plus(@, Len(data)),
                         !.send_buf = Append(@, [seg |-> seg, times |-> 0]),
                         !.timer = TRUE]]

CutChunk(e) ==
  /\ sk[e].state = "ESTABLISHED" /\ sk[e].chunk = 0
  /\ ~WindowFull(sk[e])
  /\ \E len \in 1..(ToSend[e] - wrote[e]) :
       sk' = [sk EXCEPT ![e].chunk = SendLen(sk[e], len)]
  /\ UNCHANGED <<net, wrote, got>>

SendChunk(e) ==
  /\ sk[e].state = "ESTABLISHED" /\ sk[e].chunk > 0
  /\ LET p == tcp_send_packet(sk[e], [i \in 1..sk[e].chunk |-> wrote[e] + i])
     IN /\ sk' = [sk EXCEPT ![e] = [p.sock EXCEPT !.chunk = 0]]
        /\ net' = [net EXCEPT ![Peer(e)] = Sent(@, <<p.seg>>)]
        /\ wrote' = [wrote EXCEPT ![e] = @ + sk[e].chunk]
  /\ UNCHANGED got

(***************************************************************************)
(* The retransmission timer.  Its timeout, at most 5000 * 2^4 us, is less  *)
(* than the 100000 us each scan takes off it, so every scan finds it       *)
(* expired.  Only the oldest segment is sent again, with its ack field     *)
(* refreshed and its rwnd as it was; after MaxTimes times the sock gives   *)
(* up with a RST.  A sock that is no longer in the tables has been freed,  *)
(* and nothing more is said of it here.                                    *)
(***************************************************************************)
TimerExpired(e) ==
  sk[e].state = "ESTABLISHED" /\ sk[e].timer /\ sk[e].send_buf # << >>

Retransmit(e) ==
  /\ TimerExpired(e)
  /\ Head(sk[e].send_buf).times <= MaxTimes
  /\ sk' = [sk EXCEPT ![e].send_buf[1].times = @ + 1]
  /\ net' = [net EXCEPT ![Peer(e)] =
               Sent(@, <<[Head(sk[e].send_buf).seg EXCEPT !.ack = sk[e].rcv_nxt]>>)]
  /\ UNCHANGED <<wrote, got>>

GiveUp(e) ==
  /\ TimerExpired(e)
  /\ Head(sk[e].send_buf).times > MaxTimes
  /\ sk' = [sk EXCEPT ![e].state = "CLOSED", ![e].timer = FALSE]
  /\ net' = [net EXCEPT ![Peer(e)] = Sent(@, <<ControlPacket(sk[e], {"RST"})>>)]
  /\ UNCHANGED <<wrote, got>>

-----------------------------------------------------------------------------
(***************************************************************************)
(* Receiving.                                                              *)
(***************************************************************************)
update_tsk(s, cb) ==
  IF less_or_equal_32b(cb.seq, s.rcv_nxt) /\ greater_than_32b(SeqEnd(cb), s.rcv_nxt)
  THEN [s EXCEPT !.rcv_nxt = SeqEnd(cb)]
  ELSE s

(***************************************************************************)
(* write_ring_buffer asserts that the bytes fit: a failed assert ends the  *)
(* process, and with it the sock.                                          *)
(***************************************************************************)
write_ring_buffer(s, data) ==
  IF Len(data) <= FreeSpace(s) THEN [s EXCEPT !.rcv_buf = @ \o data]
                               ELSE [s EXCEPT !.state = "ABORTED"]

(***************************************************************************)
(* tcp_check_ofo_buf walks the list from its head: entries that are wholly *)
(* old are freed, entries that reach rcv_nxt are moved to the ring, and    *)
(* the first entry beyond a gap ends the walk.                             *)
(***************************************************************************)
\* Mutated OfoStep: entries beyond a gap are moved too.
OfoStepOverGap(walk, entry) ==
  IF less_or_equal_32b(SeqEnd(entry), walk.sock.rcv_nxt) THEN walk
  ELSE [walk EXCEPT !.sock = [write_ring_buffer(walk.sock, entry.data)
                                EXCEPT !.rcv_nxt = SeqEnd(entry)]]

OfoStep(walk, entry) ==
  LET s == walk.sock
      len == Diff(SeqEnd(entry), s.rcv_nxt)
  IN IF walk.stopped \/ s.state = "ABORTED"
     THEN [walk EXCEPT !.sock.ofo = Append(@, entry)]
     ELSE IF len <= 0 THEN walk
     ELSE IF greater_or_equal_32b(s.rcv_nxt, entry.seq)
     THEN [walk EXCEPT !.sock = [write_ring_buffer(s, LastBytes(entry.data, len))
                                   EXCEPT !.rcv_nxt = Plus(@, len)]]
     ELSE [walk EXCEPT !.stopped = TRUE, !.sock.ofo = Append(@, entry)]

tcp_check_ofo_buf(s) ==
  LET walk[i \in 0..Len(s.ofo)] ==
        IF i = 0 THEN [sock |-> [s EXCEPT !.ofo = << >>], stopped |-> FALSE]
                 ELSE OfoStep(walk[i - 1], s.ofo[i])
  IN walk[Len(s.ofo)].sock

(***************************************************************************)
(* tcp_ofo_buf_append stops at the first entry that ends no earlier than   *)
(* the segment; an entry that contains the segment makes it superfluous.   *)
(* Otherwise the new entry goes in front of the predecessor of the entry   *)
(* the walk stopped at, where the head of the circular list counts as an   *)
(* entry after the last one.                                               *)
(***************************************************************************)
tcp_ofo_buf_append(s, cb) ==
  LET entry == [seq |-> cb.seq, data |-> cb.data]
      found == SelectInSeq(s.ofo, LAMBDA q : less_or_equal_32b(SeqEnd(cb), SeqEnd(q)))
      stop == IF found = 0 THEN Len(s.ofo) + 1 ELSE found
  IN IF found # 0 /\ greater_or_equal_32b(cb.seq, s.ofo[found].seq) THEN s
     ELSE IF stop = 1 THEN [s EXCEPT !.ofo = Append(@, entry)]
     ELSE [s EXCEPT !.ofo = InsertAt(@, stop - 1, entry)]

\* Mutated handle_recv_data: a segment without room is counted as received.
CountDropped(s, cb) ==
  IF FreeSpace(s) < Len(cb.data) THEN update_tsk(s, cb)
  ELSE IF less_or_equal_32b(cb.seq, s.rcv_nxt) /\ greater_than_32b(SeqEnd(cb), s.rcv_nxt)
  THEN [s EXCEPT !.rcv_buf = @ \o LastBytes(cb.data, Diff(SeqEnd(cb), s.rcv_nxt)),
                 !.rcv_nxt = SeqEnd(cb)]
  ELSE s

handle_recv_data(s, cb) ==
  LET len == Diff(SeqEnd(cb), s.rcv_nxt)
  IN IF cb.data = << >> \/ len <= 0 THEN update_tsk(s, cb)
     ELSE IF FreeSpace(s) < Len(cb.data) THEN s
     ELSE IF less_or_equal_32b(cb.seq, s.rcv_nxt)
     THEN LET t == tcp_check_ofo_buf(
                     update_tsk(write_ring_buffer(s, LastBytes(cb.data, len)), cb))
          IN [t EXCEPT !.rcv_wnd = AtLeastOne(FreeSpace(t))]
     ELSE tcp_ofo_buf_append(s, cb)

(***************************************************************************)
(* tcp_send_buf_clear frees segments from the oldest on, up to the first   *)
(* one that ack does not cover.                                            *)
(***************************************************************************)
tcp_send_buf_clear(send_buf, ack) ==
  LET kept == SelectInSeq(send_buf, LAMBDA x : ~less_or_equal_32b(SeqEnd(x.seg), ack))
  IN IF kept = 0 THEN << >> ELSE SubSeq(send_buf, kept, Len(send_buf))

\* Mutated handle_ack: an old ack is taken like a new one.
AnyAck(s, cb) ==
  LET left == tcp_send_buf_clear(s.send_buf, cb.ack)
  IN [s EXCEPT !.snd_una = cb.ack, !.send_buf = left, !.timer = @ /\ left # << >>,
               !.snd_wnd = cb.rwnd]

handle_ack(s, cb) ==
  LET left == tcp_send_buf_clear(s.send_buf, cb.ack)
      acked == IF "ACK" \in cb.flags /\ less_than_32b(s.snd_una, cb.ack)
               THEN [s EXCEPT !.snd_una = cb.ack, !.send_buf = left,
                              !.timer = @ /\ left # << >>]
               ELSE s
  IN [acked EXCEPT !.snd_wnd = cb.rwnd]

(***************************************************************************)
(* is_tcp_seq_valid: a segment beyond the receiving window or one that     *)
(* acks what was never sent is dropped, an old one is dropped and acked.   *)
(***************************************************************************)
OutOfWindow(s, cb) ==
  \/ ~less_than_32b(cb.seq, Plus(s.rcv_nxt, AtLeastOne(s.rcv_wnd)))
  \/ ~less_or_equal_32b(cb.ack, s.snd_nxt)

Old(s, cb) ==
  \/ ~less_or_equal_32b(s.rcv_nxt, SeqEnd(cb))
  \/ s.rcv_nxt = SeqEnd(cb) /\ less_than_32b(cb.seq, SeqEnd(cb))

(***************************************************************************)
(* tcp_process for an ESTABLISHED sock: the sock afterwards and the acks   *)
(* it sends.  A RST takes the sock out of the tables and leaves its        *)
(* retransmission timer alone.                                             *)
(***************************************************************************)
tcp_process(s, cb) ==
  LET reply(t) == <<ControlPacket(t, {"ACK"})>>
  IN IF s.state # "ESTABLISHED" \/ OutOfWindow(s, cb) THEN [sock |-> s, out |-> << >>]
     ELSE IF Old(s, cb) THEN [sock |-> s, out |-> reply(s)]
     ELSE IF "RST" \in cb.flags THEN [sock |-> [s EXCEPT !.state = "CLOSED"], out |-> << >>]
     ELSE LET t == handle_recv_data(s, cb)
              u == handle_ack(t, cb)
          IN IF t.state = "ABORTED" THEN [sock |-> t, out |-> << >>]
             ELSE [sock |-> u,
                   out |-> IF less_than_32b(cb.seq, SeqEnd(cb)) THEN reply(u) ELSE << >>]

Arrived(e) == IF Reordering THEN DOMAIN net[e] ELSE DOMAIN net[e] \cap {1}

Receive(e) ==
  \E i \in Arrived(e) :
    LET p == tcp_process(sk[e], net[e][i])
    IN /\ sk' = [sk EXCEPT ![e] = p.sock]
       /\ net' = [net EXCEPT ![e] = RemoveAt(@, i), ![Peer(e)] = Sent(@, p.out)]
       /\ UNCHANGED <<wrote, got>>

Lose(e) ==
  \E i \in Arrived(e) :
    /\ net' = [net EXCEPT ![e] = RemoveAt(@, i)]
    /\ UNCHANGED <<sk, wrote, got>>

-----------------------------------------------------------------------------
(***************************************************************************)
(* tcp_sock_read: waits for bytes, takes at most n; rcv_wnd stays as it is.*)
(***************************************************************************)
Read(e) ==
  /\ sk[e].state = "ESTABLISHED" /\ sk[e].rcv_buf # << >>
  /\ \E n \in 1..ReadSize :
       LET len == Smaller(n, Len(sk[e].rcv_buf))
       IN /\ got' = [got EXCEPT ![e] = @ \o SubSeq(sk[e].rcv_buf, 1, len)]
          /\ sk' = [sk EXCEPT ![e].rcv_buf = SubSeq(@, len + 1, Len(@))]
  /\ UNCHANGED <<net, wrote>>

Next == \E e \in Endpoint : \/ CutChunk(e) \/ SendChunk(e) \/ Retransmit(e) \/ GiveUp(e)
                            \/ Receive(e) \/ Lose(e) \/ Read(e)

(***************************************************************************)
(* The scheduler runs every thread of both hosts: the applications, the    *)
(* network thread and the retransmission scan.  The network may lose       *)
(* everything.                                                             *)
(***************************************************************************)
Fairness == \A e \in Endpoint :
  /\ WF_vars(CutChunk(e) \/ SendChunk(e))
  /\ WF_vars(Read(e))
  /\ WF_vars(Receive(e))
  /\ WF_vars(Retransmit(e) \/ GiveUp(e))

Spec == Init /\ [][Next]_vars

FairSpec == Spec /\ Fairness

-----------------------------------------------------------------------------
Segments == [flags : {{"ACK"}, {"RST"}}, seq : SeqNum, data : Seq(Nat),
             ack : SeqNum, rwnd : 1..Capacity]

TypeOK ==
  /\ \A e \in Endpoint :
       /\ sk[e].state \in {"ESTABLISHED", "CLOSED", "ABORTED"}
       /\ {sk[e].snd_una, sk[e].snd_nxt, sk[e].rcv_nxt} \subseteq SeqNum
       /\ sk[e].rcv_wnd \in 1..Capacity /\ sk[e].snd_wnd \in 1..Capacity
       /\ Len(sk[e].rcv_buf) <= Capacity
       /\ Len(net[e]) <= MaxNet
       /\ \A i \in DOMAIN net[e] : net[e][i] \in Segments
  /\ wrote \in [Endpoint -> Nat]

(***************************************************************************)
(* Each application reads a prefix of what the other wrote, through        *)
(* losses, retransmissions that are cut differently from what is already   *)
(* there, and the out-of-order list (tcp_in.c, tcp_sock.c).                *)
(***************************************************************************)
Stream == INSTANCE ReliableStream

DeliversPrefix == Stream!Spec

(***************************************************************************)
(* Retransmission can always repair a loss: the segments kept for it are   *)
(* adjacent, start no later than the oldest byte not acked and end at      *)
(* snd_nxt (send_buf, tcp_send_buf_append, tcp_send_buf_clear).            *)
(***************************************************************************)
UnackedIsKept ==
  \A e \in Endpoint : sk[e].state = "ESTABLISHED" =>
    LET b == sk[e].send_buf
        n == Len(b)
    IN /\ n = 0 => sk[e].snd_una = sk[e].snd_nxt
       /\ n > 0 => /\ less_or_equal_32b(b[1].seg.seq, sk[e].snd_una)
                   /\ less_than_32b(sk[e].snd_una, SeqEnd(b[1].seg))
                   /\ SeqEnd(b[n].seg) = sk[e].snd_nxt
       /\ \A i \in 1..(n - 1) : SeqEnd(b[i].seg) = b[i + 1].seg.seq

(***************************************************************************)
(* An ack is never ahead of delivery: rcv_nxt counts exactly the bytes put *)
(* in order into the ring, read or not, and lies between what the peer     *)
(* counts as acked and what it sent, also when a segment found no room and *)
(* was acked all the same (handle_recv_data, handle_ack, update_tsk).      *)
(***************************************************************************)
AckedIsDelivered ==
  \A e \in Endpoint :
    LET p == Peer(e)
    IN sk[p].state # "ABORTED" =>
         /\ sk[p].rcv_nxt = Plus(ISS[e], 1 + Len(got[p]) + Len(sk[p].rcv_buf))
         /\ less_or_equal_32b(sk[e].snd_una, sk[p].rcv_nxt)
         /\ less_or_equal_32b(sk[p].rcv_nxt, sk[e].snd_nxt)

(***************************************************************************)
(* No segment that a peer keeps for sending reaches beyond the free space  *)
(* of the ring it is for, except for the one byte a full ring invites      *)
(* (rcv_wnd = max(free, 1)).                                               *)
(***************************************************************************)
SendsIntoFreeSpace ==
  \A e \in Endpoint : \A i \in DOMAIN sk[e].send_buf :
    LET p == Peer(e)
    IN less_or_equal_32b(SeqEnd(sk[e].send_buf[i].seg),
                         Plus(sk[p].rcv_nxt, AtLeastOne(FreeSpace(sk[p]))))

(***************************************************************************)
(* The caller of write_ring_buffer has made room, as its comment and its   *)
(* assert demand (ring_buffer.h:76 and :79).                               *)
(***************************************************************************)
RingHasRoom == \A e \in Endpoint : sk[e].state # "ABORTED"

(***************************************************************************)
(* The window never closes for good: unless an end gives the connection    *)
(* up, every byte written is read (rcv_wnd is at least 1, wait_send is     *)
(* signalled, and the scan repeats what was lost).  This is so while the   *)
(* handlers do not overlap: a timer that tcp_unset_retrans_timer removes   *)
(* just as a segment is appended (TcpSendPath) would end it.               *)
(***************************************************************************)
AllRead == \A e \in Endpoint : Len(got[e]) = ToSend[Peer(e)]

GivenUp == \E e \in Endpoint : sk[e].state # "ESTABLISHED"

EventuallyReadOrGivenUp == <>(AllRead \/ GivenUp)
=============================================================================
