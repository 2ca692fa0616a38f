------------------------------ MODULE MCCaches ------------------------------
(***************************************************************************)
(* The caches for TLC: keys, and values, may be swapped.                    *)
(***************************************************************************)
EXTENDS Caches, TLC

MCSymmetry == Permutations(Keys) \cup Permutations(Values)
=============================================================================
