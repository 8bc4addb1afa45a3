---------------------------- MODULE TcpSendPath -----------------------------
(***************************************************************************)
(* One sending sock of 13-http-server-final and the three threads that     *)
(* share its retransmission state: the application in tcp_sock_write, the  *)
(* network thread in handle_ack, and the retransmission scan.  Two locks:  *)
(* "timer" is retrans_timer_lock, around the timer list; "buf" is          *)
(* send_buf_lock, around the list of segments not acked yet.  The timer's  *)
(* enable flag, send_num and the window are used outside both.             *)
(*                                                                         *)
(* Segment k carries sequence number k.  The scan takes 11000 us off a     *)
(* timeout of at most 6500 us, so it finds every enabled timer expired.    *)
(***************************************************************************)
EXTENDS Integers, Sequences

CONSTANTS Segments,    \* how many segments the application writes
          Window,      \* snd_wnd, which the peer does not change here
          Limit,       \* 50: the writer sleeps while send_num is above it
          MaxTimes     \* 8: a segment sent again more often is not sent again

ASSUME SendPathAssumption ==
  /\ Segments \in Nat \ {0} /\ Window \in Nat \ {0}
  /\ Limit \in Nat /\ MaxTimes \in Nat

Threads == {"app", "net", "scan"}
Locks == {"timer", "buf"}

VARIABLES pc,          \* pc[t]: where thread t is
          owner,       \* owner[l]: the thread that holds lock l, or "none"
          asleep,      \* the application is waiting on wait_send
          snd_una, snd_nxt,
          send_buf,    \* the entries kept for retransmission
          send_num,    \* how many entries the sock counts
          reg,         \* reg[t]: send_num as thread t last loaded it
          enable,      \* retrans_timer.enable
          links,       \* how often the timer is linked in the timer list
          ack,         \* the ack number the network thread handles
          sent         \* the segments given to ip_send_packet

tsk == <<snd_una, snd_nxt>>
buf == <<send_buf, send_num, reg>>
timer == <<enable, links>>
wire == <<ack, sent>>

vars == <<pc, owner, asleep, tsk, buf, timer, wire>>

Init == /\ pc = [t \in Threads |-> "idle"]
        /\ owner = [l \in Locks |-> "none"]
        /\ asleep = FALSE
        /\ snd_una = 0 /\ snd_nxt = 0
        /\ send_buf = << >> /\ send_num = 0 /\ reg = [t \in Threads |-> 0]
        /\ enable = FALSE /\ links = 0
        /\ ack = 0 /\ sent = {}

Go(t, from, to) == pc[t] = from /\ pc' = [pc EXCEPT ![t] = to]

Lock(t, l) == owner[l] = "none" /\ owner' = [owner EXCEPT ![l] = t]
Unlock(l) == owner' = [owner EXCEPT ![l] = "none"]

-----------------------------------------------------------------------------
(***************************************************************************)
(* The application: tcp_sock_write.  Both of its waits test without a lock *)
(* and then call pthread_cond_wait; a woken wait tests again.              *)
(***************************************************************************)
WindowFull == snd_nxt >= snd_una + Window

CheckLimit ==
  /\ snd_nxt < Segments
  /\ Go("app", "idle", IF send_num > Limit THEN "sleepLimit" ELSE "window")
  /\ UNCHANGED <<owner, asleep, tsk, buf, timer, wire>>

CheckWindow ==
  /\ Go("app", "window", IF WindowFull THEN "sleepWindow" ELSE "number")
  /\ UNCHANGED <<owner, asleep, tsk, buf, timer, wire>>

Sleep ==
  /\ Go("app", "sleepLimit", "waitLimit") \/ Go("app", "sleepWindow", "waitWindow")
  /\ asleep' = TRUE
  /\ UNCHANGED <<owner, tsk, buf, timer, wire>>

Wake ==
  /\ ~asleep
  /\ Go("app", "waitLimit", "idle") \/ Go("app", "waitWindow", "window")
  /\ UNCHANGED <<owner, asleep, tsk, buf, timer, wire>>

(***************************************************************************)
(* tcp_send_packet and tcp_send_buf_append.  send_num++ is a load and a    *)
(* store, both before the lock is taken.                                   *)
(***************************************************************************)
NumberSegment ==
  /\ Go("app", "number", "count")
  /\ snd_nxt' = snd_nxt + 1
  /\ UNCHANGED <<owner, asleep, snd_una, buf, timer, wire>>

CountLoad ==
  /\ Go("app", "count", "counted")
  /\ reg' = [reg EXCEPT !["app"] = send_num]
  /\ UNCHANGED <<owner, asleep, tsk, send_buf, send_num, timer, wire>>

CountStore ==
  /\ Go("app", "counted", "append")
  /\ send_num' = reg["app"] + 1
  /\ UNCHANGED <<owner, asleep, tsk, send_buf, reg, timer, wire>>

AppendEntry ==
  /\ Go("app", "append", "appended") /\ Lock("app", "buf")
  /\ send_buf' = Append(send_buf, [seg |-> snd_nxt - 1, times |-> 0])
  /\ UNCHANGED <<asleep, tsk, send_num, reg, timer, wire>>

AppendUnlock ==
  /\ Go("app", "appended", "testTimer") /\ Unlock("buf")
  /\ UNCHANGED <<asleep, tsk, buf, timer, wire>>

(***************************************************************************)
(* tcp_set_retrans_timer: enable is tested and set before the lock.        *)
(***************************************************************************)
TestTimer ==
  /\ Go("app", "testTimer", IF enable THEN "send" ELSE "enable")
  /\ UNCHANGED <<owner, asleep, tsk, buf, timer, wire>>

EnableTimer ==
  /\ Go("app", "enable", "link")
  /\ enable' = TRUE
  /\ UNCHANGED <<owner, asleep, tsk, buf, links, wire>>

LinkTimer ==
  /\ Go("app", "link", "linked") /\ Lock("app", "timer")
  /\ links' = links + 1
  /\ UNCHANGED <<asleep, tsk, buf, enable, wire>>

LinkUnlock ==
  /\ Go("app", "linked", "send") /\ Unlock("timer")
  /\ UNCHANGED <<asleep, tsk, buf, timer, wire>>

SendSegment ==
  /\ Go("app", "send", "idle")
  /\ sent' = sent \cup {snd_nxt - 1}
  /\ UNCHANGED <<owner, asleep, tsk, buf, timer, ack>>

Application ==
  \/ CheckLimit \/ CheckWindow \/ Sleep \/ Wake \/ NumberSegment \/ CountLoad
  \/ CountStore \/ AppendEntry \/ AppendUnlock \/ TestTimer \/ EnableTimer
  \/ LinkTimer \/ LinkUnlock \/ SendSegment

-----------------------------------------------------------------------------
(***************************************************************************)
(* tcp_send_buf_clear(tsk, snd_una), which the network thread and the scan *)
(* call: acked entries are freed from the head on.                         *)
(***************************************************************************)
\* Mutated HeadAcked: the segment that the ack asks for is freed too.
HeadReached == send_buf # << >> /\ Head(send_buf).seg <= snd_una

HeadAcked == send_buf # << >> /\ Head(send_buf).seg < snd_una

ClearLock(t) ==
  /\ Go(t, "clear", "clearing") /\ Lock(t, "buf")
  /\ UNCHANGED <<asleep, tsk, buf, timer, wire>>

ClearLoad(t) ==
  /\ HeadAcked /\ Go(t, "clearing", "free")
  /\ reg' = [reg EXCEPT ![t] = send_num]
  /\ UNCHANGED <<owner, asleep, tsk, send_buf, send_num, timer, wire>>

ClearStore(t) ==
  /\ Go(t, "free", "clearing")
  /\ send_num' = reg[t] - 1
  /\ send_buf' = Tail(send_buf)
  /\ UNCHANGED <<owner, asleep, tsk, reg, timer, wire>>

ClearUnlock(t, next) ==
  /\ ~HeadAcked /\ Go(t, "clearing", next) /\ Unlock("buf")
  /\ UNCHANGED <<asleep, tsk, buf, timer, wire>>

Clear(t) == ClearLock(t) \/ ClearLoad(t) \/ ClearStore(t)

-----------------------------------------------------------------------------
(***************************************************************************)
(* The network thread: handle_ack and tcp_update_window.  The peer acks,   *)
(* possibly again, what it got in order.  tcp_reset_retrans_timer finds    *)
(* the timer disabled and calls tcp_set_retrans_timer, which waits for the *)
(* lock this thread already holds: "selfLock" has no way out.              *)
(***************************************************************************)
AckArrives ==
  \E a \in snd_una..Segments :
    /\ 0..(a - 1) \subseteq sent
    /\ ack' = a
    /\ Go("net", "idle", IF snd_una < a THEN "lock" ELSE "update")
    /\ UNCHANGED <<owner, asleep, tsk, buf, timer, sent>>

\* Mutated AckLock: retrans_timer_lock is not taken.
AckWithoutLock ==
  /\ Go("net", "lock", "una")
  /\ UNCHANGED <<owner, asleep, tsk, buf, timer, wire>>

AckLock ==
  /\ Go("net", "lock", "una") /\ Lock("net", "timer")
  /\ UNCHANGED <<asleep, tsk, buf, timer, wire>>

SetUna ==
  /\ Go("net", "una", "reset")
  /\ snd_una' = ack
  /\ UNCHANGED <<owner, asleep, snd_nxt, buf, timer, wire>>

ResetTimer ==
  /\ Go("net", "reset", IF enable THEN "clear" ELSE "set")
  /\ UNCHANGED <<owner, asleep, tsk, buf, timer, wire>>

SetTimer ==
  /\ Go("net", "set", IF enable THEN "clear" ELSE "selfLock")
  /\ enable' = TRUE
  /\ UNCHANGED <<owner, asleep, tsk, buf, links, wire>>

\* Mutated AckCleared: the timer is removed whatever the buffer holds.
AlwaysUnset == ClearUnlock("net", "unset")

AckCleared == ClearUnlock("net", IF send_buf = << >> THEN "unset" ELSE "unlock")

UnsetTimer ==
  /\ Go("net", "unset", "unlink")
  /\ enable' = FALSE
  /\ UNCHANGED <<owner, asleep, tsk, buf, links, wire>>

UnlinkTimer ==
  /\ Go("net", "unlink", "unlock")
  /\ links' = links - 1
  /\ UNCHANGED <<owner, asleep, tsk, buf, enable, wire>>

AckUnlock ==
  /\ Go("net", "unlock", "update") /\ Unlock("timer")
  /\ UNCHANGED <<asleep, tsk, buf, timer, wire>>

tcp_update_window ==
  /\ Go("net", "update", "idle")
  /\ asleep' = (asleep /\ WindowFull)
  /\ UNCHANGED <<owner, tsk, buf, timer, wire>>

Network ==
  \/ AckArrives \/ AckLock \/ SetUna \/ ResetTimer \/ SetTimer \/ Clear("net")
  \/ AckCleared \/ UnsetTimer \/ UnlinkTimer \/ AckUnlock \/ tcp_update_window

-----------------------------------------------------------------------------
(***************************************************************************)
(* The scan: tcp_retrans_timer_thread, tcp_scan_retrans_timer_list and     *)
(* tcp_send_buf_retrans, which sends all entries again up to the first one *)
(* that has been sent again too often.                                     *)
(***************************************************************************)
ScanLock ==
  /\ Go("scan", "idle", "expired") /\ Lock("scan", "timer")
  /\ UNCHANGED <<asleep, tsk, buf, timer, wire>>

ScanTimer ==
  /\ Go("scan", "expired", IF links > 0 /\ enable THEN "clear" ELSE "unlock")
  /\ UNCHANGED <<owner, asleep, tsk, buf, timer, wire>>

ScanCleared == ClearUnlock("scan", "test")

TestEmpty ==
  /\ Go("scan", "test", IF send_buf = << >> THEN "unlock" ELSE "retrans")
  /\ UNCHANGED <<owner, asleep, tsk, buf, timer, wire>>

RetransLock ==
  /\ Go("scan", "retrans", "resend") /\ Lock("scan", "buf")
  /\ UNCHANGED <<asleep, tsk, buf, timer, wire>>

\* Mutated Resent: no limit to the repetitions.
ResentAll == DOMAIN send_buf

Resent == {i \in DOMAIN send_buf : \A j \in 1..i : send_buf[j].times <= MaxTimes}

Resend ==
  /\ Go("scan", "resend", "unlock") /\ Unlock("buf")
  /\ send_buf' = [i \in DOMAIN send_buf |->
                    IF i \in Resent THEN [send_buf[i] EXCEPT !.times = @ + 1]
                                    ELSE send_buf[i]]
  /\ sent' = sent \cup {send_buf[i].seg : i \in Resent}
  /\ UNCHANGED <<asleep, tsk, send_num, reg, timer, ack>>

ScanUnlock ==
  /\ Go("scan", "unlock", "idle") /\ Unlock("timer")
  /\ UNCHANGED <<asleep, tsk, buf, timer, wire>>

Scan == \/ ScanLock \/ ScanTimer \/ Clear("scan") \/ ScanCleared \/ TestEmpty
        \/ RetransLock \/ Resend \/ ScanUnlock

Next == Application \/ Network \/ Scan

Spec == Init /\ [][Next]_vars

-----------------------------------------------------------------------------
Entry == [seg : 0..(Segments - 1), times : 0..(MaxTimes + 1)]

PcType ==
  /\ DOMAIN pc = Threads
  /\ pc["app"] \in {"idle", "sleepLimit", "waitLimit", "window", "sleepWindow",
                    "waitWindow", "number", "count", "counted", "append",
                    "appended", "testTimer", "enable", "link", "linked", "send"}
  /\ pc["net"] \in {"idle", "lock", "una", "reset", "set", "selfLock", "clear",
                    "clearing", "free", "unset", "unlink", "unlock", "update"}
  /\ pc["scan"] \in {"idle", "expired", "clear", "clearing", "free", "test",
                     "retrans", "resend", "unlock"}
  /\ owner \in [Locks -> Threads \cup {"none"}]

TypeOK ==
  /\ PcType
  /\ asleep \in BOOLEAN /\ enable \in BOOLEAN /\ links \in Int
  /\ snd_una \in 0..Segments /\ snd_nxt \in 0..Segments /\ ack \in 0..Segments
  /\ send_buf \in Seq(Entry) /\ send_num \in Int /\ reg \in [Threads -> Int]
  /\ sent \subseteq 0..(Segments - 1)

(***************************************************************************)
(* A thread holds a lock exactly between its lock and unlock calls, on     *)
(* every path through the handlers, so two threads never walk the timer    *)
(* list or the buffer at once.                                             *)
(***************************************************************************)
LocksHeld ==
  /\ owner["timer"] = "app" <=> pc["app"] = "linked"
  /\ owner["timer"] = "net" <=> pc["net"] \notin {"idle", "lock", "update"}
  /\ owner["timer"] = "scan" <=> pc["scan"] # "idle"
  /\ owner["buf"] = "app" <=> pc["app"] = "appended"
  /\ owner["buf"] = "net" <=> pc["net"] \in {"clearing", "free"}
  /\ owner["buf"] = "scan" <=> pc["scan"] \in {"clearing", "free", "resend"}

(***************************************************************************)
(* Nothing unacked is lost: the entries are adjacent segments up to the    *)
(* newest one appended, each there once, and start no later than the       *)
(* oldest unacked one, whatever the application, the handler of an ack and *)
(* the scan do to the list (send_buf, tcp_out.c).                          *)
(***************************************************************************)
Appended == IF pc["app"] \in {"count", "counted", "append"} THEN snd_nxt - 1 ELSE snd_nxt

Adjacent(b, top) == \A i \in DOMAIN b : b[i].seg = top - Len(b) + i - 1

UnackedIsBuffered ==
  /\ Adjacent(send_buf, Appended)
  /\ Appended - Len(send_buf) <= snd_una

(***************************************************************************)
(* The scan never sends an acked segment again, though snd_una moves in    *)
(* another thread: it clears the buffer first ("clear before               *)
(* retransmission", tcp_timer.c:58).                                       *)
(***************************************************************************)
NoStaleResend == pc["scan"] = "resend" =>
                   send_buf # << >> /\ Head(send_buf).seg >= snd_una

(***************************************************************************)
(* The timer is in the timer list at most once, and is there when it is    *)
(* taken out, though its flag changes outside the lock: list_delete_entry  *)
(* would corrupt the list otherwise (tcp_timer.c:117-135).                 *)
(***************************************************************************)
TimerLinkedOnce == links \in {0, 1} /\ (pc["net"] = "unlink" => links = 1)

=============================================================================
