---------------------------- MODULE MCPropertyMap ----------------------------
(* Four names that collide with each other; a table starts with 4 slots    *)
(* instead of 16, and grows to 8 and to 16.                                *)
EXTENDS PropertyMap, TLC

CONSTANTS k1, k2, k3, k4

MCKeys == {k1, k2, k3, k4}
MCHash == k1 :> 1 @@ k2 :> 1 @@ k3 :> 2 @@ k4 :> 9
MCAttributes == k1 :> {{}} @@ k2 :> {{}} @@ k3 :> {{"ReadOnly"}} @@ k4 :> {{"DontEnum"}}
==============================================================================
