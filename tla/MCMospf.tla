------------------------------ MODULE MCMospf -------------------------------
(***************************************************************************)
(* TLC instance of Mospf: three routers in a line.  The middle one sends   *)
(* an update for each neighbour that it finds and one more.                *)
(***************************************************************************)
EXTENDS Mospf, TLC

CONSTANTS a, b, c

Routers == {a, b, c}
Links == {{a, b}, {b, c}}
UpdatesOf == a :> 1 @@ b :> 3 @@ c :> 1
Alike == Permutations({a, c})
=============================================================================
