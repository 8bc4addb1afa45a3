------------------------- MODULE TcpSendPathProofs --------------------------
(***************************************************************************)
(* What TcpSendPath guarantees for every number of segments, window, limit *)
(* and number of repetitions.                                              *)
(***************************************************************************)
EXTENDS TcpSendPath, TLAPS

-----------------------------------------------------------------------------
(***************************************************************************)
(* The inductive invariant.  Its parts beyond the properties themselves    *)
(* say what a thread knows where it is: the writer has a segment left to   *)
(* number or has numbered one, a thread that frees an entry frees an acked *)
(* one, the ack being handled is new, only appended segments are sent, and *)
(* the scan still finds the buffer as it left it when it cleared it.       *)
(***************************************************************************)
WriterRange ==
  /\ pc["app"] \in {"sleepLimit", "waitLimit", "window", "sleepWindow",
                    "waitWindow", "number"} => snd_nxt < Segments
  /\ pc["app"] \in {"count", "counted", "append", "appended", "testTimer",
                    "enable", "link", "linked", "send"} => snd_nxt > 0

FreesAcked == \A t \in {"net", "scan"} : pc[t] = "free" => HeadAcked

AckIsNew == pc["net"] \in {"lock", "una"} => snd_una < ack

SentIsAppended == /\ snd_una <= Appended /\ ack <= Appended
                  /\ \A k \in sent : k < Appended

ScanCleaned == /\ pc["scan"] \in {"test", "retrans", "resend"} => ~HeadAcked
               /\ pc["scan"] \in {"retrans", "resend"} => send_buf # << >>

IInv == /\ TypeOK /\ LocksHeld /\ UnackedIsBuffered
        /\ WriterRange /\ FreesAcked /\ AckIsNew /\ SentIsAppended /\ ScanCleaned

-----------------------------------------------------------------------------
(***************************************************************************)
(* Sequences: the positions and entries after Append and Tail.             *)
(***************************************************************************)
LEMMA AppendFacts ==
  ASSUME NEW S, NEW s \in Seq(S), NEW e \in S
  PROVE  /\ Append(s, e) \in Seq(S) /\ Append(s, e) # << >>
         /\ Len(Append(s, e)) = Len(s) + 1
         /\ \A i \in 1..Len(s) : Append(s, e)[i] = s[i]
         /\ Append(s, e)[Len(s) + 1] = e
  OBVIOUS

LEMMA TailFacts ==
  ASSUME NEW S, NEW s \in Seq(S), s # << >>
  PROVE  /\ Tail(s) \in Seq(S) /\ Len(s) > 0 /\ Len(Tail(s)) = Len(s) - 1
         /\ \A i \in 1..(Len(s) - 1) : Tail(s)[i] = s[i + 1]
  OBVIOUS

(***************************************************************************)
(* Adjacency after appending the next segment and after freeing the head,  *)
(* and an entry that is sent again.                                        *)
(***************************************************************************)
LEMMA AdjacentAppend ==
  ASSUME NEW b \in Seq(Entry), NEW top \in Int, Adjacent(b, top),
         NEW e \in Entry, e.seg = top
  PROVE  Adjacent(Append(b, e), top + 1)
<1> DEFINE c == Append(b, e)
<1>1. /\ c \in Seq(Entry) /\ Len(c) = Len(b) + 1
      /\ \A i \in 1..Len(b) : c[i] = b[i]
      /\ c[Len(b) + 1] = e
  BY AppendFacts
<1> HIDE DEF c
<1>2. Len(b) \in Nat /\ DOMAIN c = 1..(Len(b) + 1)
  BY <1>1
<1>3. \A i \in 1..(Len(b) + 1) : c[i].seg = top + 1 - Len(c) + i - 1
  <2>1. ASSUME NEW i \in 1..Len(b) PROVE c[i].seg = top + 1 - Len(c) + i - 1
    BY <1>1, <1>2 DEF Adjacent
  <2>2. c[Len(b) + 1].seg = top + 1 - Len(c) + (Len(b) + 1) - 1
    BY <1>1, <1>2
  <2> QED
    BY <1>2, <2>1, <2>2
<1> QED
  BY <1>2, <1>3 DEF Adjacent, c

LEMMA AdjacentTail ==
  ASSUME NEW b \in Seq(Entry), NEW top \in Int, Adjacent(b, top), b # << >>
  PROVE  /\ Adjacent(Tail(b), top)
         /\ Head(b).seg = top - Len(b)
<1> DEFINE c == Tail(b)
<1>1. /\ c \in Seq(Entry) /\ Len(b) > 0 /\ Len(c) = Len(b) - 1
      /\ \A i \in 1..(Len(b) - 1) : c[i] = b[i + 1]
  BY TailFacts
<1> HIDE DEF c
<1>2. Len(b) \in Nat /\ DOMAIN b = 1..Len(b) /\ DOMAIN c = 1..(Len(b) - 1)
  BY <1>1
<1>3. ASSUME NEW i \in 1..(Len(b) - 1) PROVE c[i].seg = top - Len(c) + i - 1
  <2>1. i + 1 \in DOMAIN b /\ c[i] = b[i + 1]
    BY <1>1, <1>2
  <2>2. c[i].seg = top - Len(b) + (i + 1) - 1
    BY <2>1 DEF Adjacent
  <2> QED
    BY <1>1, <1>2, <2>2
<1>4. Head(b).seg = top - Len(b)
  <2>1. 1 \in DOMAIN b /\ Head(b) = b[1]
    BY <1>1, <1>2
  <2> QED
    BY <1>2, <2>1 DEF Adjacent
<1> QED
  BY <1>2, <1>3, <1>4 DEF Adjacent, c

LEMMA SentAgain ==
  ASSUME NEW x \in Entry, x.times <= MaxTimes
  PROVE  /\ [x EXCEPT !.times = @ + 1] \in Entry
         /\ [x EXCEPT !.times = @ + 1].seg = x.seg
  BY SendPathAssumption DEF Entry

(***************************************************************************)
(* Freeing the head of the buffer, by either of the threads that clear it. *)
(***************************************************************************)
LEMMA ClearStoreStep ==
  ASSUME IInv, NEW t \in {"net", "scan"}, ClearStore(t)
  PROVE  IInv'
<1> USE SendPathAssumption
    DEF IInv, TypeOK, PcType, LocksHeld, UnackedIsBuffered, Appended,
       WriterRange, FreesAcked, AckIsNew, SentIsAppended, ScanCleaned, HeadAcked,
       Threads, Locks, Go, Lock, Unlock, tsk, buf, timer, wire
<1>1. /\ send_buf \in Seq(Entry) /\ send_buf # << >>
      /\ Head(send_buf).seg < snd_una
  BY DEF ClearStore
<1>2. /\ Tail(send_buf) \in Seq(Entry) /\ Len(send_buf) > 0
      /\ Len(Tail(send_buf)) = Len(send_buf) - 1
      /\ \A i \in 1..(Len(send_buf) - 1) : Tail(send_buf)[i] = send_buf[i + 1]
  BY <1>1, TailFacts
<1>3. /\ Appended \in Int /\ Adjacent(Tail(send_buf), Appended)
      /\ Appended - Len(send_buf) < snd_una
  BY <1>1, <1>2, AdjacentTail
<1>4. PcType' /\ LocksHeld'
  BY DEF ClearStore
<1>5. TypeOK'
  BY <1>2, <1>4 DEF ClearStore
<1>6. UnackedIsBuffered'
  <2>1. send_buf' = Tail(send_buf) /\ Appended' = Appended /\ snd_una' = snd_una
    BY DEF ClearStore
  <2> QED
    BY <1>2, <1>3, <2>1
<1>7. WriterRange' /\ FreesAcked' /\ AckIsNew' /\ SentIsAppended'
  BY DEF ClearStore
<1>8. ScanCleaned'
  BY DEF ClearStore
<1> QED
  BY <1>5, <1>4, <1>6, <1>7, <1>8

(***************************************************************************)
(* The application.                                                        *)
(***************************************************************************)
LEMMA ApplicationStep ==
  ASSUME IInv, Application
  PROVE  IInv'
<1> USE SendPathAssumption
    DEF IInv, TypeOK, PcType, LocksHeld, UnackedIsBuffered, Appended,
       WriterRange, FreesAcked, AckIsNew, SentIsAppended, ScanCleaned, HeadAcked,
       Threads, Locks, Go, Lock, Unlock, tsk, buf, timer, wire
<1>1. ASSUME CheckLimit PROVE IInv'
  BY <1>1 DEF CheckLimit
<1>2. ASSUME CheckWindow PROVE IInv'
  BY <1>2 DEF CheckWindow, WindowFull
<1>3. ASSUME Sleep PROVE IInv'
  BY <1>3 DEF Sleep
<1>4. ASSUME Wake PROVE IInv'
  BY <1>4 DEF Wake
<1>5. ASSUME NumberSegment PROVE IInv'
  BY <1>5 DEF NumberSegment
<1>6. ASSUME CountLoad PROVE IInv'
  BY <1>6 DEF CountLoad
<1>7. ASSUME CountStore PROVE IInv'
  <2>1. TypeOK' /\ LocksHeld'
    BY <1>7 DEF CountStore
  <2>2. UnackedIsBuffered'
    BY <1>7 DEF CountStore
  <2>3. WriterRange' /\ FreesAcked' /\ AckIsNew' /\ SentIsAppended' /\ ScanCleaned'
    BY <1>7 DEF CountStore
  <2> QED
    BY <2>1, <2>2, <2>3
<1>8. ASSUME AppendEntry PROVE IInv'
  <2> DEFINE e == [seg |-> snd_nxt - 1, times |-> 0]
  <2>1. snd_nxt - 1 \in 0..(Segments - 1) /\ e \in Entry /\ send_buf \in Seq(Entry)
    BY <1>8 DEF AppendEntry, Entry
  <2>2. /\ send_buf' \in Seq(Entry) /\ send_buf' # << >>
        /\ Len(send_buf') = Len(send_buf) + 1
        /\ \A i \in 1..Len(send_buf) : send_buf'[i] = send_buf[i]
        /\ send_buf'[Len(send_buf) + 1] = e
    BY <1>8, <2>1, AppendFacts DEF AppendEntry
  <2>3. Appended = snd_nxt - 1 /\ Appended' = snd_nxt /\ snd_una' = snd_una
    BY <1>8 DEF AppendEntry
  <2>4. PcType' /\ LocksHeld'
    BY <1>8 DEF AppendEntry
  <2>5. TypeOK'
    BY <1>8, <2>2, <2>4 DEF AppendEntry
  <2>6. UnackedIsBuffered'
    <3>1. Adjacent(Append(send_buf, e), Appended + 1)
      BY <2>1, <2>3, AdjacentAppend
    <3>2. send_buf' = Append(send_buf, e)
      BY <1>8 DEF AppendEntry
    <3> QED
      BY <2>1, <2>2, <2>3, <3>1, <3>2
  <2>7. WriterRange' /\ FreesAcked' /\ AckIsNew' /\ SentIsAppended'
    BY <1>8, <2>3 DEF AppendEntry
  <2>8. ScanCleaned'
    <3>1. ~HeadAcked => ~HeadAcked'
      <4>1. CASE send_buf = << >>
        BY <4>1, <2>1, <2>2, <2>3
      <4>2. CASE send_buf # << >>
        BY <4>2, <2>1, <2>2, <2>3
      <4> QED
        BY <4>1, <4>2
    <3> QED
      BY <1>8, <2>2, <3>1 DEF AppendEntry
  <2> QED
    BY <2>4, <2>5, <2>6, <2>7, <2>8
<1>9. ASSUME AppendUnlock PROVE IInv'
  BY <1>9 DEF AppendUnlock
<1>10. ASSUME TestTimer PROVE IInv'
  BY <1>10 DEF TestTimer
<1>11. ASSUME EnableTimer PROVE IInv'
  BY <1>11 DEF EnableTimer
<1>12. ASSUME LinkTimer PROVE IInv'
  <2>1. TypeOK' /\ LocksHeld'
    BY <1>12 DEF LinkTimer
  <2>2. UnackedIsBuffered'
    BY <1>12 DEF LinkTimer
  <2>3. WriterRange' /\ FreesAcked' /\ AckIsNew' /\ SentIsAppended' /\ ScanCleaned'
    BY <1>12 DEF LinkTimer
  <2> QED
    BY <2>1, <2>2, <2>3
<1>13. ASSUME LinkUnlock PROVE IInv'
  BY <1>13 DEF LinkUnlock
<1>14. ASSUME SendSegment PROVE IInv'
  <2>1. TypeOK' /\ LocksHeld'
    BY <1>14 DEF SendSegment
  <2>2. UnackedIsBuffered'
    BY <1>14 DEF SendSegment
  <2>3. WriterRange' /\ FreesAcked' /\ AckIsNew' /\ ScanCleaned'
    BY <1>14 DEF SendSegment
  <2>4. SentIsAppended'
    BY <1>14 DEF SendSegment
  <2> QED
    BY <2>1, <2>2, <2>3, <2>4
<1> QED
  BY <1>1, <1>2, <1>3, <1>4, <1>5, <1>6, <1>7, <1>8, <1>9, <1>10,
     <1>11, <1>12, <1>13, <1>14 DEF Application, Clear

(***************************************************************************)
(* The network thread.                                                     *)
(***************************************************************************)
LEMMA NetworkStep ==
  ASSUME IInv, Network
  PROVE  IInv'
<1> USE SendPathAssumption
    DEF IInv, TypeOK, PcType, LocksHeld, UnackedIsBuffered, Appended,
       WriterRange, FreesAcked, AckIsNew, SentIsAppended, ScanCleaned, HeadAcked,
       Threads, Locks, Go, Lock, Unlock, tsk, buf, timer, wire
<1>1. ASSUME AckArrives PROVE IInv'
  BY <1>1 DEF AckArrives
<1>2. ASSUME AckLock PROVE IInv'
  BY <1>2 DEF AckLock
<1>3. ASSUME SetUna PROVE IInv'
  <2>1. TypeOK' /\ LocksHeld'
    BY <1>3 DEF SetUna
  <2>2. snd_una < snd_una' /\ snd_una' <= Appended /\ Appended' = Appended
    BY <1>3 DEF SetUna
  <2>3. UnackedIsBuffered'
    BY <1>3, <2>2 DEF SetUna
  <2>4. WriterRange' /\ AckIsNew' /\ SentIsAppended' /\ ScanCleaned'
    BY <1>3, <2>2 DEF SetUna
  <2>5. FreesAcked'
    BY <1>3, <2>2 DEF SetUna
  <2> QED
    BY <2>1, <2>3, <2>4, <2>5
<1>4. ASSUME ResetTimer PROVE IInv'
  BY <1>4 DEF ResetTimer
<1>5. ASSUME SetTimer PROVE IInv'
  BY <1>5 DEF SetTimer
<1>6. ASSUME ClearLock("net") PROVE IInv'
  BY <1>6 DEF ClearLock
<1>7. ASSUME ClearLoad("net") PROVE IInv'
  BY <1>7 DEF ClearLoad
<1>8. ASSUME ClearStore("net") PROVE IInv'
  BY <1>8, ClearStoreStep
<1>9. ASSUME AckCleared PROVE IInv'
  BY <1>9 DEF AckCleared, ClearUnlock
<1>10. ASSUME UnsetTimer PROVE IInv'
  BY <1>10 DEF UnsetTimer
<1>11. ASSUME UnlinkTimer PROVE IInv'
  BY <1>11 DEF UnlinkTimer
<1>12. ASSUME AckUnlock PROVE IInv'
  BY <1>12 DEF AckUnlock
<1>13. ASSUME tcp_update_window PROVE IInv'
  BY <1>13 DEF tcp_update_window, WindowFull
<1> QED
  BY <1>1, <1>2, <1>3, <1>4, <1>5, <1>6, <1>7, <1>8, <1>9, <1>10,
     <1>11, <1>12, <1>13 DEF Network, Clear

(***************************************************************************)
(* The scan.                                                               *)
(***************************************************************************)
LEMMA ScanStep ==
  ASSUME IInv, Scan
  PROVE  IInv'
<1> USE SendPathAssumption
    DEF IInv, TypeOK, PcType, LocksHeld, UnackedIsBuffered, Appended,
       WriterRange, FreesAcked, AckIsNew, SentIsAppended, ScanCleaned, HeadAcked,
       Threads, Locks, Go, Lock, Unlock, tsk, buf, timer, wire
<1>1. ASSUME ScanLock PROVE IInv'
  BY <1>1 DEF ScanLock
<1>2. ASSUME ScanTimer PROVE IInv'
  BY <1>2 DEF ScanTimer
<1>3. ASSUME ClearLock("scan") PROVE IInv'
  BY <1>3 DEF ClearLock
<1>4. ASSUME ClearLoad("scan") PROVE IInv'
  BY <1>4 DEF ClearLoad
<1>5. ASSUME ClearStore("scan") PROVE IInv'
  BY <1>5, ClearStoreStep
<1>6. ASSUME ScanCleared PROVE IInv'
  BY <1>6 DEF ScanCleared, ClearUnlock
<1>7. ASSUME TestEmpty PROVE IInv'
  BY <1>7 DEF TestEmpty
<1>8. ASSUME RetransLock PROVE IInv'
  BY <1>8 DEF RetransLock
<1>9. ASSUME Resend PROVE IInv'
  <2> DEFINE b == send_buf
             again(i) == [b[i] EXCEPT !.times = @ + 1]
  <2>1. /\ b \in Seq(Entry) /\ b # << >> /\ Len(b) \in Nat
        /\ DOMAIN b = 1..Len(b) /\ \A i \in 1..Len(b) : b[i] \in Entry
    BY <1>9 DEF Resend
  <2>2. Resent \subseteq 1..Len(b) /\ \A i \in Resent : b[i].times <= MaxTimes
    BY <2>1 DEF Resent
  <2>3. \A i \in Resent : again(i) \in Entry /\ again(i).seg = b[i].seg
    BY <2>1, <2>2, SentAgain
  <2>4. send_buf' = [i \in 1..Len(b) |-> IF i \in Resent THEN again(i) ELSE b[i]]
    BY <1>9, <2>1 DEF Resend
  <2> HIDE DEF again
  <2>5. /\ send_buf' \in Seq(Entry) /\ Len(send_buf') = Len(b)
        /\ \A i \in 1..Len(b) : send_buf'[i].seg = b[i].seg
    <3>1. \A i \in 1..Len(b) : send_buf'[i] \in Entry
      BY <2>1, <2>3, <2>4
    <3>2. send_buf' \in [1..Len(b) -> Entry]
      BY <2>4, <3>1
    <3>3. \A i \in 1..Len(b) : send_buf'[i].seg = b[i].seg
      BY <2>3, <2>4
    <3> QED
      BY <2>1, <3>2, <3>3
  <2>6. snd_una' = snd_una /\ Appended' = Appended /\ Appended \in Int
    BY <1>9 DEF Resend
  <2>7. \A i \in 1..Len(b) : b[i].seg \in 0..(Segments - 1) /\ b[i].seg < Appended
    <3>1. \A i \in 1..Len(b) : b[i].seg \in 0..(Segments - 1)
      BY <2>1 DEF Entry
    <3>2. \A i \in 1..Len(b) : b[i].seg = Appended - Len(b) + i - 1
      BY <2>1 DEF Adjacent
    <3> QED
      BY <2>1, <2>6, <3>1, <3>2
  <2>8. PcType' /\ LocksHeld'
    BY <1>9 DEF Resend
  <2>9. sent' = sent \cup {b[i].seg : i \in Resent}
    BY <1>9 DEF Resend
  <2>10. TypeOK'
    <3>1. {b[i].seg : i \in Resent} \subseteq 0..(Segments - 1)
      BY <2>2, <2>7
    <3> QED
      BY <1>9, <2>5, <2>8, <2>9, <3>1 DEF Resend
  <2>11. UnackedIsBuffered'
    <3>1. DOMAIN send_buf' = 1..Len(b)
      BY <2>4
    <3>2. Adjacent(send_buf', Appended)
      BY <2>1, <2>5, <3>1 DEF Adjacent
    <3> QED
      BY <2>5, <2>6, <3>2
  <2>12. WriterRange' /\ FreesAcked' /\ AckIsNew' /\ ScanCleaned'
    BY <1>9 DEF Resend
  <2>13. SentIsAppended'
    <3>1. \A k \in sent' : k < Appended
      <4>1. \A k \in sent : k < Appended
        OBVIOUS
      <4>2. \A k \in {b[i].seg : i \in Resent} : k < Appended
        BY <2>2, <2>7
      <4> QED
        BY <2>9, <4>1, <4>2
    <3> QED
      BY <1>9, <2>6, <3>1 DEF Resend
  <2> QED
    BY <2>8, <2>10, <2>11, <2>12, <2>13
<1>10. ASSUME ScanUnlock PROVE IInv'
  BY <1>10 DEF ScanUnlock
<1> QED
  BY <1>1, <1>2, <1>3, <1>4, <1>5, <1>6, <1>7, <1>8, <1>9, <1>10 DEF Scan, Clear

(***************************************************************************)
(* The invariant holds at first, after every step, and always.             *)
(***************************************************************************)
LEMMA InvariantInit == Init => IInv
<1> SUFFICES ASSUME Init PROVE IInv
  OBVIOUS
<1>1. PcType /\ LocksHeld
  BY DEF Init, PcType, LocksHeld, Threads, Locks
<1>2. TypeOK
  <2>1. send_buf \in Seq(Entry) /\ reg \in [Threads -> Int]
    BY DEF Init
  <2>2. snd_una \in 0..Segments /\ snd_nxt \in 0..Segments /\ ack \in 0..Segments
    BY SendPathAssumption DEF Init
  <2>3. asleep \in BOOLEAN /\ enable \in BOOLEAN
    BY Zenon DEF Init
  <2>4. links \in Int /\ send_num \in Int
    BY DEF Init
  <2>5. sent \subseteq 0..(Segments - 1)
    BY DEF Init
  <2> QED
    BY <1>1, <2>1, <2>2, <2>3, <2>4, <2>5 DEF TypeOK
<1>3. Appended = 0 /\ ~HeadAcked
  BY DEF Init, Appended, HeadAcked, Threads
<1>4. UnackedIsBuffered
  BY <1>3 DEF Init, UnackedIsBuffered, Adjacent
<1>5. WriterRange /\ FreesAcked /\ AckIsNew /\ SentIsAppended /\ ScanCleaned
  BY <1>3 DEF Init, Threads, WriterRange, FreesAcked, AckIsNew, SentIsAppended,
              ScanCleaned
<1> QED
  BY <1>1, <1>2, <1>4, <1>5 DEF IInv

LEMMA InvariantStep == IInv /\ [Next]_vars => IInv'
<1>1. IInv /\ Next => IInv'
  BY ApplicationStep, NetworkStep, ScanStep DEF Next
<1>2. IInv /\ UNCHANGED vars => IInv'
  BY DEF IInv, TypeOK, PcType, LocksHeld, UnackedIsBuffered, Appended,
         WriterRange, FreesAcked, AckIsNew, SentIsAppended, ScanCleaned, HeadAcked,
         vars, tsk, buf, timer, wire
<1> QED
  BY <1>1, <1>2

LEMMA InvariantAlways == Spec => []IInv
  BY InvariantInit, InvariantStep, PTL DEF Spec

-----------------------------------------------------------------------------
(***************************************************************************)
(* Every variable has its type, for every constant.                        *)
(***************************************************************************)
THEOREM SendPathTypeCorrect == Spec => []TypeOK
  BY InvariantAlways, PTL DEF IInv

(***************************************************************************)
(* The locks are held exactly where the code pairs them, so neither the    *)
(* timer list nor the buffer has two threads in it.                        *)
(***************************************************************************)
THEOREM LocksAlwaysHeld == Spec => []LocksHeld
  BY InvariantAlways, PTL DEF IInv

(***************************************************************************)
(* No unacked segment ever leaves the retransmission buffer.               *)
(***************************************************************************)
THEOREM UnackedAlwaysBuffered == Spec => []UnackedIsBuffered
  BY InvariantAlways, PTL DEF IInv

(***************************************************************************)
(* The scan sends no segment again that is already acked.                  *)
(***************************************************************************)
THEOREM ResendNeverStale == Spec => []NoStaleResend
<1>1. IInv => NoStaleResend
  <2> SUFFICES ASSUME IInv, pc["scan"] = "resend"
               PROVE  send_buf # << >> /\ Head(send_buf).seg >= snd_una
    BY DEF NoStaleResend
  <2>1. send_buf # << >> /\ ~(Head(send_buf).seg < snd_una)
    BY DEF IInv, ScanCleaned, HeadAcked
  <2>2. Head(send_buf) \in Entry
    BY <2>1 DEF IInv, TypeOK
  <2> QED
    BY <2>1, <2>2, SendPathAssumption DEF IInv, TypeOK, Entry
<1> QED
  BY <1>1, InvariantAlways, PTL

-----------------------------------------------------------------------------
(***************************************************************************)
(* Why the timer is linked once.  A handler that is past its reset found   *)
(* or made the timer enabled; the writer links only a timer it found       *)
(* disabled; and while it is on its way to do so, its newest segment is    *)
(* either not sent yet, so no ack can empty the buffer and remove the      *)
(* timer, or acked already, so no further ack will come.                   *)
(***************************************************************************)
Linking == pc["app"] \in {"enable", "link"}

Fresh == snd_nxt - 1 \notin sent

Settled == snd_una = snd_nxt /\ pc["net"] \notin {"lock", "una", "reset", "set",
                                                  "clear", "clearing", "free", "unset"}

LinkCount ==
  links = IF pc["net"] # "selfLock" /\ (pc["net"] = "unlink" \/ (enable /\ pc["app"] # "link"))
          THEN 1 ELSE 0

EnableKnown ==
  /\ pc["net"] \in {"clear", "clearing", "free", "unset", "selfLock"} => enable
  /\ pc["app"] = "enable" => ~enable \/ pc["net"] = "selfLock"
  /\ pc["app"] = "link" => enable /\ pc["net"] # "unset"
  /\ pc["net"] = "unlink" => ~enable \/ pc["app"] = "link"

ScanKnows == pc["scan"] \in {"clear", "clearing", "free", "test", "retrans", "resend"} =>
               enable /\ links = 1 /\ ~Linking

NewestKnown ==
  pc["net"] # "selfLock" =>
    /\ Linking \/ (~enable /\ pc["app"] \in {"appended", "testTimer"}) =>
         Fresh \/ Settled
    /\ pc["net"] = "unset" /\ pc["app"] \in {"appended", "testTimer"} =>
         Fresh \/ snd_una = snd_nxt

AckedIsSent == /\ snd_una > 0 => snd_una - 1 \in sent
               /\ ack > 0 => ack - 1 \in sent

TimerInv == LinkCount /\ EnableKnown /\ ScanKnows /\ NewestKnown /\ AckedIsSent

LEMMA TimerStep ==
  ASSUME IInv, TimerInv, Next
  PROVE  TimerInv'
<1>1. /\ PcType /\ LocksHeld /\ WriterRange /\ AckIsNew /\ SentIsAppended
      /\ Appended - Len(send_buf) <= snd_una /\ Len(send_buf) \in Nat
      /\ snd_una \in Nat /\ snd_nxt \in Nat /\ ack \in Nat /\ Segments \in Nat
      /\ enable \in BOOLEAN
  BY SendPathAssumption DEF IInv, TypeOK, UnackedIsBuffered
<1> USE <1>1
    DEF PcType, LocksHeld, Appended, WriterRange, AckIsNew, SentIsAppended,
        TimerInv, LinkCount, EnableKnown, ScanKnows, NewestKnown, AckedIsSent, Linking, Fresh,
        AckedIsSent, Settled, Threads, Locks, Go, Lock, Unlock, tsk, buf, timer, wire
<1>2. ASSUME CheckLimit PROVE TimerInv'
  BY <1>2 DEF CheckLimit
<1>3. ASSUME CheckWindow PROVE TimerInv'
  BY <1>3 DEF CheckWindow, WindowFull
<1>4. ASSUME Sleep PROVE TimerInv'
  BY <1>4 DEF Sleep
<1>5. ASSUME Wake PROVE TimerInv'
  BY <1>5 DEF Wake
<1>6. ASSUME NumberSegment PROVE TimerInv'
  BY <1>6 DEF NumberSegment
<1>7. ASSUME CountLoad PROVE TimerInv'
  BY <1>7 DEF CountLoad
<1>8. ASSUME CountStore PROVE TimerInv'
  BY <1>8 DEF CountStore
<1>9. ASSUME AppendEntry PROVE TimerInv'
  BY <1>9 DEF AppendEntry
<1>10. ASSUME AppendUnlock PROVE TimerInv'
  BY <1>10 DEF AppendUnlock
<1>11. ASSUME TestTimer PROVE TimerInv'
  BY <1>11 DEF TestTimer
<1>12. ASSUME EnableTimer PROVE TimerInv'
  BY <1>12 DEF EnableTimer
<1>13. ASSUME LinkTimer PROVE TimerInv'
  BY <1>13 DEF LinkTimer
<1>14. ASSUME LinkUnlock PROVE TimerInv'
  BY <1>14 DEF LinkUnlock
<1>15. ASSUME SendSegment PROVE TimerInv'
  BY <1>15 DEF SendSegment
<1>16. ASSUME AckArrives PROVE TimerInv'
  BY <1>16 DEF AckArrives
<1>17. ASSUME AckLock PROVE TimerInv'
  BY <1>17 DEF AckLock
<1>18. ASSUME SetUna PROVE TimerInv'
  BY <1>18 DEF SetUna
<1>19. ASSUME ResetTimer PROVE TimerInv'
  BY <1>19 DEF ResetTimer
<1>20. ASSUME SetTimer PROVE TimerInv'
  BY <1>20 DEF SetTimer
<1>21. ASSUME ClearLock("net") PROVE TimerInv'
  BY <1>21 DEF ClearLock
<1>22. ASSUME ClearLoad("net") PROVE TimerInv'
  BY <1>22 DEF ClearLoad
<1>23. ASSUME ClearStore("net") PROVE TimerInv'
  BY <1>23 DEF ClearStore
<1>24. ASSUME AckCleared PROVE TimerInv'
  <2>1. send_buf = << >> => snd_una = Appended
    BY DEF SentIsAppended
  <2>2. LinkCount' /\ EnableKnown' /\ ScanKnows'
    BY <1>24, <2>1 DEF AckCleared, ClearUnlock
  <2>3. NewestKnown' /\ AckedIsSent'
    BY <1>24, <2>1 DEF AckCleared, ClearUnlock
  <2> QED
    BY <2>2, <2>3
<1>25. ASSUME UnsetTimer PROVE TimerInv'
  BY <1>25 DEF UnsetTimer
<1>26. ASSUME UnlinkTimer PROVE TimerInv'
  BY <1>26 DEF UnlinkTimer
<1>27. ASSUME AckUnlock PROVE TimerInv'
  BY <1>27 DEF AckUnlock
<1>28. ASSUME tcp_update_window PROVE TimerInv'
  BY <1>28 DEF tcp_update_window, WindowFull
<1>29. ASSUME ScanLock PROVE TimerInv'
  BY <1>29 DEF ScanLock
<1>30. ASSUME ScanTimer PROVE TimerInv'
  BY <1>30 DEF ScanTimer
<1>31. ASSUME ClearLock("scan") PROVE TimerInv'
  BY <1>31 DEF ClearLock
<1>32. ASSUME ClearLoad("scan") PROVE TimerInv'
  BY <1>32 DEF ClearLoad
<1>33. ASSUME ClearStore("scan") PROVE TimerInv'
  BY <1>33 DEF ClearStore
<1>34. ASSUME ScanCleared PROVE TimerInv'
  BY <1>34 DEF ScanCleared, ClearUnlock
<1>35. ASSUME TestEmpty PROVE TimerInv'
  BY <1>35 DEF TestEmpty
<1>36. ASSUME RetransLock PROVE TimerInv'
  BY <1>36 DEF RetransLock
<1>37. ASSUME Resend PROVE TimerInv'
  BY <1>37 DEF Resend
<1>38. ASSUME ScanUnlock PROVE TimerInv'
  BY <1>38 DEF ScanUnlock
<1> QED
  BY <1>2, <1>3, <1>4, <1>5, <1>6, <1>7, <1>8, <1>9, <1>10, <1>11, <1>12,
     <1>13, <1>14, <1>15, <1>16, <1>17, <1>18, <1>19, <1>20, <1>21, <1>22,
     <1>23, <1>24, <1>25, <1>26, <1>27, <1>28, <1>29, <1>30, <1>31, <1>32,
     <1>33, <1>34, <1>35, <1>36, <1>37, <1>38
  DEF Next, Application, Network, Scan, Clear

LEMMA TimerAlways == Spec => []TimerInv
<1>1. Init => TimerInv
  BY DEF Init, TimerInv, LinkCount, EnableKnown, ScanKnows, NewestKnown, AckedIsSent, Linking,
         Fresh, Settled, Threads
<1>2. IInv /\ TimerInv /\ [Next]_vars => TimerInv'
  <2>1. TimerInv /\ UNCHANGED vars => TimerInv'
    BY DEF TimerInv, LinkCount, EnableKnown, ScanKnows, NewestKnown, AckedIsSent, Linking,
           Fresh, Settled, vars, tsk, buf, timer, wire
  <2> QED
    BY <2>1, TimerStep
<1> QED
  BY <1>1, <1>2, InvariantAlways, PTL DEF Spec

(***************************************************************************)
(* The timer is never in the timer list twice, and never taken out of it   *)
(* while it is not in it.                                                  *)
(***************************************************************************)
THEOREM TimerAlwaysLinkedOnce == Spec => []TimerLinkedOnce
<1>1. TimerInv => TimerLinkedOnce
  BY DEF TimerInv, LinkCount, TimerLinkedOnce
<1> QED
  BY <1>1, TimerAlways, PTL
=============================================================================
