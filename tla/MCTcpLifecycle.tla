--------------------------- MODULE MCTcpLifecycle ---------------------------
(***************************************************************************)
(* One client through a whole connection, or several that compete for the  *)
(* accept queue of the server.                                             *)
(***************************************************************************)
EXTENDS TcpLifecycle
=============================================================================
