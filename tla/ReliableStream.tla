--------------------------- MODULE ReliableStream ---------------------------
(***************************************************************************)
(* What a TCP connection promises its two applications, whatever the       *)
(* network loses, delays or repeats: each end reads a prefix of what the   *)
(* other end wrote.  Bytes are identified by their offset in the stream.   *)
(***************************************************************************)
EXTENDS Integers, Sequences

CONSTANTS ToSend      \* ToSend[e]: how many bytes the application at e writes

Endpoint == DOMAIN ToSend

VARIABLES wrote,      \* wrote[e]: how many bytes e's application has written
          got         \* got[e]: the bytes e's application has read

vars == <<wrote, got>>

Peer(e) == CHOOSE p \in Endpoint : p # e

Init == /\ wrote = [e \in Endpoint |-> 0]
        /\ got = [e \in Endpoint |-> << >>]

Accept(e, n) == /\ wrote[e] + n <= ToSend[e]
                /\ wrote' = [wrote EXCEPT ![e] = @ + n]
                /\ UNCHANGED got

Deliver(e, n) == /\ Len(got[e]) + n <= wrote[Peer(e)]
                 /\ got' = [got EXCEPT ![e] =
                              @ \o [i \in 1..n |-> Len(got[e]) + i]]
                 /\ UNCHANGED wrote

Next == \E e \in Endpoint :
          \/ \E n \in 1..ToSend[e] : Accept(e, n)
          \/ \E n \in 1..ToSend[Peer(e)] : Deliver(e, n)

Spec == Init /\ [][Next]_vars
=============================================================================
