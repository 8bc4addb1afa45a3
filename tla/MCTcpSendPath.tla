---------------------------- MODULE MCTcpSendPath ---------------------------
(***************************************************************************)
(* Five segments through a window of three: the writer meets both of its   *)
(* waits, the buffer empties and fills again, and the timer is started,    *)
(* stopped and started anew while acks, resends and writes interleave.     *)
(***************************************************************************)
EXTENDS TcpSendPath
=============================================================================
