---------------------------- MODULE LRUInclusion ----------------------------
(***************************************************************************)
(* Two LRU caches that get the same calls, one with less capacity than the *)
(* other: what the arbiter's power modes choose between.  LRU is a stack    *)
(* algorithm: more capacity never loses an entry that less would have kept, *)
(* although get() does not admit what it misses and erase() leaves gaps.    *)
(* resize() may only take the capacities apart, or meet empty caches: a hit *)
(* that the larger cache alone had puts entries of its own in front, and    *)
(* these would win when it shrinks to the size of the other.                *)
(***************************************************************************)
EXTENDS RecencyLists

CONSTANTS Keys, Values, Capacities, StatMod

VARIABLES smallNodes, smallMap, smallCapacity, smallStats,
          largeNodes, largeMap, largeCapacity, largeStats

vars == <<smallNodes, smallMap, smallCapacity, smallStats,
          largeNodes, largeMap, largeCapacity, largeStats>>

Small == INSTANCE LRUCache
         WITH nodes <- smallNodes, map <- smallMap,
              capacity <- smallCapacity, stats <- smallStats
Large == INSTANCE LRUCache
         WITH nodes <- largeNodes, map <- largeMap,
              capacity <- largeCapacity, stats <- largeStats

Init ==
  /\ Small!Init
  /\ Large!Init
  /\ smallCapacity <= largeCapacity

Next ==
  \/ \E k \in Keys :
        \/ Small!Get(k) /\ Large!Get(k)
        \/ Small!Erase(k) /\ Large!Erase(k)
        \/ \E v \in Values : Small!Put(k, v) /\ Large!Put(k, v)
  \/ \E c, d \in Capacities :
        /\ c <= d
        /\ \/ c <= smallCapacity /\ largeCapacity <= d
           \/ largeNodes = << >>
        /\ Small!Resize(c) /\ Large!Resize(d)
  \/ Small!Clear /\ Large!Clear

Spec == Init /\ [][Next]_vars

-----------------------------------------------------------------------------
(* What the smaller cache holds, the larger one holds, with the same value: *)
(* every hit of the smaller cache is a hit of the larger one.  It stays so   *)
(* because the two orders of recency agree on what both hold.               *)
Inclusion ==
  /\ DOMAIN smallMap \subseteq DOMAIN largeMap
  /\ \A k \in DOMAIN smallMap : smallMap[k] = largeMap[k]
  /\ \A j, k \in DOMAIN smallMap :
        Before(smallNodes, j, k) => Before(largeNodes, j, k)

(* List and index agree in each of the two.                                 *)
BothIndexed == Small!Indexed /\ Large!Indexed
=============================================================================
