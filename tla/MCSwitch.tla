------------------------------ MODULE MCSwitch ------------------------------
(***************************************************************************)
(* TLC instance of Switch: two switches, one with two hosts and the other  *)
(* with one.                                                               *)
(***************************************************************************)
EXTENDS Switch, TLC

CONSTANTS s1, s2, a, b, c

Switches == {s1, s2}
Hosts == {a, b, c}
Ports == s1 :> {a, b, s2} @@ s2 :> {c, s1}
Towards == s1 :> (a :> a @@ b :> b @@ c :> s2) @@ s2 :> (a :> s1 @@ b :> s1 @@ c :> c)
=============================================================================
