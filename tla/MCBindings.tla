----------------------------- MODULE MCBindings -----------------------------
(* Bindings for TLC: any thread may do what another does.                   *)
EXTENDS Bindings, TLC

MCSymmetry == Permutations(Threads)
=============================================================================
