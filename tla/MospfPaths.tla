----------------------------- MODULE MospfPaths -----------------------------
(***************************************************************************)
(* Distances in a graph of routers whose links all cost 1: what            *)
(* update_rtable of 07-mospf/mospf_daemon.c is for.  An edge is a set of   *)
(* two routers.                                                            *)
(***************************************************************************)
EXTENDS Integers, FiniteSets

Adjacent(edges, u, v) == {u, v} \in edges

(***************************************************************************)
(* The nodes at most n edges from source, and the number of edges of the   *)
(* shortest path to a node that is reached at all.                         *)
(***************************************************************************)
Ball(nodes, edges, source) ==
  LET ball[n \in 0..Cardinality(nodes)] ==
        IF n = 0 THEN {source}
        ELSE ball[n - 1] \cup {v \in nodes : \E u \in ball[n - 1] : Adjacent(edges, u, v)}
  IN ball

Reached(nodes, edges, source) == Ball(nodes, edges, source)[Cardinality(nodes)]

Distance(nodes, edges, source, v) ==
  LET ball == Ball(nodes, edges, source)
  IN CHOOSE n \in 0..Cardinality(nodes) :
       v \in ball[n] /\ (n > 0 => v \notin ball[n - 1])

(***************************************************************************)
(* The neighbours of source with which a shortest path to v begins.        *)
(***************************************************************************)
FirstHops(nodes, edges, source, v) ==
  IF v = source \/ v \notin Reached(nodes, edges, source) THEN {}
  ELSE LET d == Distance(nodes, edges, source, v)
       IN {h \in nodes : /\ Adjacent(edges, source, h)
                         /\ v \in Ball(nodes, edges, h)[d - 1]}
=============================================================================
