------------------------------- MODULE Caches -------------------------------
(***************************************************************************)
(* What make_cache() builds for "lru" and for "lfu": two LRU caches of       *)
(* different capacity in lockstep, or one LFU cache; a behaviour uses one of *)
(* the two and leaves the other as built.                                   *)
(***************************************************************************)
EXTENDS LFUCache

VARIABLES smallNodes, smallMap, smallCapacity, smallStats,
          largeNodes, largeMap, largeCapacity, largeStats

Lru == INSTANCE LRUInclusion
lruVars == <<smallNodes, smallMap, smallCapacity, smallStats,
             largeNodes, largeMap, largeCapacity, largeStats>>

ASSUME CachesAssumption == LFUAssumption /\ Lru!Small!LRUAssumption

(* The one that is not used is empty and has the least capacity.            *)
LruUnused == Lru!Init /\ \A c \in Capacities : largeCapacity <= c
LfuUnused == Init /\ \A c \in Capacities : capacity <= c

CachesInit == Init /\ Lru!Init /\ (LruUnused \/ LfuUnused)
CachesNext ==
  \/ LfuUnused /\ Lru!Next /\ UNCHANGED vars
  \/ LruUnused /\ Next /\ UNCHANGED lruVars
CachesSpec == CachesInit /\ [][CachesNext]_<<vars, lruVars>>

-----------------------------------------------------------------------------
(* Of two LRU caches the larger holds all that the smaller does.            *)
Inclusion == Lru!Inclusion

(* List and index of an LRU cache agree.                                    *)
BothIndexed == Lru!BothIndexed

(* LRU and LFU are the lossy map that AdaptiveCache promises.               *)
CachesImplementContract ==
  /\ Lru!Small!ImplementsContract /\ Lru!Large!ImplementsContract
  /\ ImplementsContract
=============================================================================
