----------------------------- MODULE MCArpCache -----------------------------
(***************************************************************************)
(* TLC instances of ArpCache: two neighbours and the router's own address. *)
(***************************************************************************)
EXTENDS ArpCache
=============================================================================
