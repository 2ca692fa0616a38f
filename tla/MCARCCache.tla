---------------------------- MODULE MCARCCache ----------------------------
(* Small instances of ARCCache: hint lists of at most MaxHints distinct     *)
(* keys, keys and values interchangeable.                                   *)
EXTENDS ARCCache, TLC

CONSTANT MaxHints

MCPredictions ==
  {ks \in UNION {[1..n -> Keys] : n \in 1..MaxHints} : IsInjective(ks)}
MCSymmetry == Permutations(Keys) \cup Permutations(Values)
=============================================================================
