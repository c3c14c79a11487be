------------------------------ MODULE MCUtHash ------------------------------
(* Instances of UtHash for TLC. *)
EXTENDS UtHash, TLC

CONSTANTS e1, e2, e3, e4, e5, e6

(* Two keys with two elements each, which collide in every table of up to  *)
(* sixteen buckets; a third, which does in the smallest.                   *)
Keys   == e1 :> 1 @@ e2 :> 1 @@ e3 :> 2 @@ e4 :> 2 @@ e5 :> 3 @@ e6 :> 3
Hashes == 1 :> 0 @@ 2 :> 16 @@ 3 :> 2
=============================================================================
