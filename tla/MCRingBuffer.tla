---------------------------- MODULE MCRingBuffer ----------------------------
(***************************************************************************)
(* TLC instance of RingBuffer: an array of four slots and chunks of up to  *)
(* four bytes, so that every pair of indices occurs, transfers wrap at     *)
(* every offset, reads ask for more than is there and writes are refused.  *)
(***************************************************************************)
EXTENDS RingBuffer
=============================================================================
