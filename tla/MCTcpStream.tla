---------------------------- MODULE MCTcpStream -----------------------------
(***************************************************************************)
(* TLC instances of TcpStream: endpoint 1 is the client, endpoint 2 the    *)
(* server.  The sequence space has 16 numbers; the client's stream starts  *)
(* just below the middle of it, where the sign of the C comparison turns.  *)
(***************************************************************************)
EXTENDS TcpStream

OneWay4 == <<4, 0>>
OneWay5 == <<5, 0>>
BothWays == <<4, 1>>
Numbers == <<6, 3>>
=============================================================================
