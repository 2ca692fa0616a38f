------------------------------ MODULE LFUCache ------------------------------
(***************************************************************************)
(* LFUCache of core/src/caches/caches.cpp: evicts the least used entry, the *)
(* longest untouched of those.                                             *)
(***************************************************************************)
EXTENDS Integers, FiniteSets

CONSTANTS Keys, Values, Capacities,
          StatMod,      \* the counters are size_t: they wrap at StatMod
          MaxTick       \* bound of the model: calls that advance tick_

LFUAssumption ==
  /\ Capacities \subseteq Nat
  /\ StatMod \in Nat \ {0}
  /\ MaxTick \in Nat

VARIABLES store,        \* store_: key -> Item
          capacity,     \* capacity_
          tick,         \* tick_
          stats         \* hits_, misses_, evictions_

vars == <<store, capacity, tick, stats>>

Items == [value : Values, freq : Nat \ {0}, ts : Nat]
NoItems == [x \in {} |-> x]
NoStats == [hits |-> 0, misses |-> 0, evictions |-> 0]
Counted(field, n) == [stats EXCEPT ![field] = (@ + n) % StatMod]
Only(keys) == [k \in keys |-> store[k]]

(* Mutant: the tie is broken by nothing. *)
ColderByCount(j, k) == store[j].freq < store[k].freq

Colder(j, k) ==
  \/ store[j].freq < store[k].freq
  \/ store[j].freq = store[k].freq /\ store[j].ts < store[k].ts

(* evict_victim(), n times over: each scan of the map takes the first of    *)
(* the coldest entries it meets, and the order of the map is anything.      *)
Survivors(n) ==
  {kept \in SUBSET DOMAIN store :
     /\ Cardinality(kept) = Cardinality(DOMAIN store) - n
     /\ \A j \in DOMAIN store \ kept, k \in kept : ~Colder(k, j)}

Used(item) == [value |-> item.value, freq |-> item.freq + 1, ts |-> tick + 1]

Get(k) ==
  /\ \/ /\ k \in DOMAIN store
        /\ tick < MaxTick
        /\ store' = [store EXCEPT ![k] = Used(@)]
        /\ tick' = tick + 1
        /\ stats' = Counted("hits", 1)
     \/ /\ k \notin DOMAIN store
        /\ stats' = Counted("misses", 1)
        /\ UNCHANGED <<store, tick>>
  /\ UNCHANGED capacity

(* Mutants of Room: the comparison with the capacity is off by one; two     *)
(* victims are taken where one is enough.                                  *)
RoomLate(n) == IF n > capacity THEN 1 ELSE 0
RoomTwice(n) == IF n >= capacity /\ n > 1 THEN 2 ELSE 0

(* How many victims put() takes before it inserts into n entries. *)
Room(n) == IF n >= capacity /\ n > 0 THEN 1 ELSE 0

Put(k, v) ==
  /\ tick < MaxTick
  /\ tick' = tick + 1
  /\ \/ /\ k \in DOMAIN store
        /\ store' = [store EXCEPT ![k] = Used([@ EXCEPT !.value = v])]
        /\ UNCHANGED stats
     \/ /\ k \notin DOMAIN store
        /\ \E kept \in Survivors(Room(Cardinality(DOMAIN store))) :
              store' = [x \in kept \cup {k} |->
                          IF x = k THEN [value |-> v, freq |-> 1, ts |-> tick + 1]
                                   ELSE store[x]]
        /\ stats' = Counted("evictions", Room(Cardinality(DOMAIN store)))
  /\ UNCHANGED capacity

Erase(k) ==
  /\ store' = Only(DOMAIN store \ {k})
  /\ UNCHANGED <<capacity, tick, stats>>

Excess(c) ==
  LET n == Cardinality(DOMAIN store) IN IF n > c THEN n - c ELSE 0

Resize(c) ==
  /\ capacity' = c
  /\ \E kept \in Survivors(Excess(c)) : store' = Only(kept)
  /\ stats' = Counted("evictions", Excess(c))
  /\ UNCHANGED tick

(* Mutant: the counters are reset under the entries that stay. *)
ClearCounters ==
  /\ tick' = 0
  /\ stats' = NoStats
  /\ UNCHANGED <<store, capacity>>

Clear ==
  /\ store' = NoItems
  /\ tick' = 0
  /\ stats' = NoStats
  /\ UNCHANGED capacity

Init ==
  /\ store = NoItems
  /\ capacity \in Capacities
  /\ tick = 0
  /\ stats = NoStats

Next ==
  \/ \E k \in Keys : Get(k) \/ Erase(k) \/ \E v \in Values : Put(k, v)
  \/ \E c \in Capacities : Resize(c)
  \/ Clear

Spec == Init /\ [][Next]_vars

-----------------------------------------------------------------------------
(* Type invariant; no entry carries a stamp that tick_ has yet to give out, *)
(* or the next touched entry would look older than one left alone.          *)
TypeOK ==
  /\ store \in [DOMAIN store -> Items]
  /\ DOMAIN store \subseteq Keys
  /\ \A k \in DOMAIN store : store[k].ts \in 1..tick
  /\ capacity \in Capacities
  /\ tick \in 0..MaxTick
  /\ stats \in [hits : 0..(StatMod-1), misses : 0..(StatMod-1), evictions : 0..(StatMod-1)]

(* Whatever the order of the unordered_map, evict_victim() has one choice:  *)
(* of two entries one is always the colder.                                *)
OneVictim ==
  \A n \in 0..Cardinality(DOMAIN store) : Cardinality(Survivors(n)) = 1

(* The cache holds at most capacity_ entries; at capacity 0, where put()    *)
(* evicts before it inserts, the last one put stays.                       *)
WithinCapacity ==
  Cardinality(DOMAIN store) <= IF capacity = 0 THEN 1 ELSE capacity

(* The cache is the lossy map that AdaptiveCache promises, call by call:     *)
(* get() loses nothing, put() one other entry at most, resize() none that   *)
(* it need not.                                                             *)
Contract == INSTANCE CacheContract
            WITH contents <- [k \in DOMAIN store |-> store[k].value]
ImplementsContract ==
  /\ Contract!Init
  /\ [][/\ \A k \in Keys :
            /\ Get(k) => Contract!Read
            /\ Erase(k) => Contract!Erase(k)
            /\ \A v \in Values : Put(k, v) => Contract!Put(k, v)
        /\ \A c \in Capacities : Resize(c) => Contract!Resize(c)
        /\ Clear => Contract!Clear]_vars
=============================================================================
