----------------------------- MODULE MCConntrack -----------------------------
(* Values for the small instances of Conntrack: two keys that hash to        *)
(* different slots of a two-slot wheel, or to the same one.                  *)
EXTENDS Conntrack, TLC

CONSTANTS k1, k2

SpreadSlots == k1 :> 0 @@ k2 :> 1
SameSlot == k1 :> 0 @@ k2 :> 0
=============================================================================
