------------------------------- MODULE MCNat --------------------------------
(***************************************************************************)
(* A TLC instance of Nat: three internal hosts, one of which also serves a *)
(* forwarded port, and a pool of two ports.  Packets are data at ordinary  *)
(* sequence numbers, and a FIN just after a wrap of the sequence numbers,  *)
(* where the ack flag is above its end.                                    *)
(***************************************************************************)
EXTENDS Nat

CONSTANTS a, b, c, r

Inside == {a, b, c}
Outside == {r}
Forwards == {[external |-> 9, internal |-> b]}
Data == [fin |-> FALSE, ack |-> 16, seq_end |-> 100]
FinAtWrap == [fin |-> TRUE, ack |-> 16, seq_end |-> 1]
Kinds == {Data, FinAtWrap}
=============================================================================
