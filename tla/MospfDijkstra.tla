--------------------------- MODULE MospfDijkstra ----------------------------
(***************************************************************************)
(* How update_rtable of 07-mospf/mospf_daemon.c finds first hops:          *)
(* Dijkstra's algorithm over the indices of router_list, of which the      *)
(* first is the router itself (0 in C, 1 here), and the walk back along    *)
(* prev.  Every link costs 1; Far stands for INT8_MAX, Unset for FALSE.    *)
(***************************************************************************)
EXTENDS Integers, Sequences, MospfPaths

Far == 127
Unset == 0

(***************************************************************************)
(* The first of the least distances that are not visited.                  *)
(***************************************************************************)
\* Mutated min_dist: the first index that is not visited.
FirstUnvisited(dist, visited) ==
  CHOOSE u \in DOMAIN dist \ visited : \A v \in DOMAIN dist \ visited : u <= v

min_dist(dist, visited) ==
  CHOOSE u \in DOMAIN dist \ visited : \A v \in DOMAIN dist \ visited :
    dist[u] < dist[v] \/ (dist[u] = dist[v] /\ u <= v)

Dijkstra(list, edges) ==
  LET Index == DOMAIN list
      step[i \in 0..Len(list)] ==
        IF i = 0
        THEN [dist |-> [v \in Index |-> IF v = 1 THEN 0 ELSE Far],
              prev |-> [v \in Index |-> Unset], visited |-> {}]
        ELSE LET s == step[i - 1]
                 u == min_dist(s.dist, s.visited)
                 nearer == {v \in Index \ (s.visited \cup {u}) :
                              /\ Adjacent(edges, list[u], list[v])
                              /\ s.dist[u] + 1 < s.dist[v]}
             IN [dist |-> [v \in Index |-> IF v \in nearer THEN s.dist[u] + 1 ELSE s.dist[v]],
                 prev |-> [v \in Index |-> IF v \in nearer THEN u ELSE s.prev[v]],
                 visited |-> s.visited \cup {u}]
  IN step[Len(list)]

(***************************************************************************)
(* The loop of update_router: back from t until the router itself is next. *)
(* It is not asked for a router that is not reached, whose prev is Unset.  *)
(***************************************************************************)
WalkBack(list, edges, t) ==
  LET prev == Dijkstra(list, edges).prev
      at[i \in 0..Len(list)] ==
        IF i = 0 THEN t ELSE IF prev[at[i - 1]] \in {1, Unset} THEN at[i - 1] ELSE prev[at[i - 1]]
  IN list[at[Len(list)]]

(***************************************************************************)
(* The first hops on the way to o, over all orders of the database.        *)
(***************************************************************************)
RouterLists(r, others) ==
  LET n == Cardinality(others) + 1
  IN {list \in [1..n -> others \cup {r}] :
        list[1] = r /\ \A i, j \in 1..n : list[i] = list[j] => i = j}

HopsFound(r, others, edges, o) ==
  {WalkBack(list, edges, CHOOSE t \in DOMAIN list : list[t] = o) :
     list \in RouterLists(r, others)}
=============================================================================
