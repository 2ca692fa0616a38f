------------------------------ MODULE ARCCache ------------------------------
(***************************************************************************)
(* ARCCache and ContextARCCache of core/src/caches/caches.cpp, the default *)
(* policy of both tiers.  Every public method holds mu_ from its first     *)
(* statement to its return, so it is one action; hint_future, whose body   *)
(* is a loop, is one action per iteration during which mu_ is taken        *)
(* (hints # << >>) and no other method can run.  ARCCache is the same      *)
(* machine with HintFuture never called.                                   *)
(***************************************************************************)
EXTENDS RecencyLists

CONSTANTS Keys,         \* the keys clients use
          Values,       \* the byte strings they store
          Capacities,   \* the capacities the constructor and resize() get
          Predictions,  \* the key lists hint_future() gets, best key first
          StatMod       \* the counters are size_t: they wrap at StatMod

ASSUME ARCAssumption ==
  /\ Capacities \subseteq Nat
  /\ Predictions \subseteq Seq(Keys)
  /\ StatMod \in Nat \ {0}

VARIABLES lists,        \* t1_, t2_ (most recent first), ghost_b1_, ghost_b2_
          values,       \* the value in the node of each resident key
          p,            \* p_, the target length of t1_
          capacity,     \* capacity_
          stats,        \* hits_, misses_, evictions_
          hints         \* what hint_future still has to visit; mu_ is held

vars == <<lists, values, p, capacity, stats, hints>>

T1(l) == ToSet(l.t1)
T2(l) == ToSet(l.t2)
Resident(l) == T1(l) \cup T2(l)
Size(l) == Len(l.t1) + Len(l.t2)
Ghosts(l) == Cardinality(l.b1) + Cardinality(l.b2)

ListRecords == [t1 : Seq(Keys), t2 : Seq(Keys), b1 : SUBSET Keys, b2 : SUBSET Keys]
NoEntries == [t1 |-> << >>, t2 |-> << >>, b1 |-> {}, b2 |-> {}]
NoValues == [x \in {} |-> x]
NoStats == [hits |-> 0, misses |-> 0, evictions |-> 0]

-----------------------------------------------------------------------------
(* The pure steps the methods are made of.                                 *)

Larger(a, b) == IF a > b THEN a ELSE b
Smaller(a, b) == IF a < b THEN a ELSE b

(* Mutants of Promote: the t1_ node is copied instead of moved; it is       *)
(* unlinked and never linked again.                                        *)
PromoteByCopy(l, k) ==
  [l EXCEPT !.t2 = IF Holds(l.t1, k) THEN PushFront(@, k) ELSE Touch(@, k)]
PromoteAndDrop(l, k) ==
  IF Holds(l.t1, k)
  THEN [l EXCEPT !.t1 = Unlink(@, k)]
  ELSE [l EXCEPT !.t2 = Touch(@, k)]

(* A hit in either resident list moves the node to the front of t2_. *)
Promote(l, k) ==
  IF Holds(l.t1, k)
  THEN [l EXCEPT !.t1 = Unlink(@, k), !.t2 = PushFront(@, k)]
  ELSE [l EXCEPT !.t2 = Touch(@, k)]

(* Mutant: the comparison with the target is off by one. *)
DemotesT1Late(l, target, inB2) ==
  /\ l.t1 # << >>
  /\ \/ Len(l.t1) > target + 1
     \/ inB2 /\ Len(l.t1) = target

(* replace(): t1_ gives up its tail when it is over the target, else t2_.  *)
DemotesT1(l, target, inB2) ==
  /\ l.t1 # << >>
  /\ \/ Len(l.t1) > target
     \/ inB2 /\ Len(l.t1) = target

Replace(l, target, inB2) ==
  IF DemotesT1(l, target, inB2)
    THEN [l EXCEPT !.t1 = DropTail(@), !.b1 = @ \cup {Last(l.t1)}]
  ELSE IF l.t2 # << >>
    THEN [l EXCEPT !.t2 = DropTail(@), !.b2 = @ \cup {Last(l.t2)}]
  ELSE l

(* Mutant of Trimmed: the second loop of resize() is missing. *)
TrimmedT1(l, m, n) == [l EXCEPT !.t1 = SubSeq(@, 1, m)]

(* resize() pops tails until m nodes are left of t1_ and n of t2_. *)
Trimmed(l, m, n) == [l EXCEPT !.t1 = SubSeq(@, 1, m), !.t2 = SubSeq(@, 1, n)]

(* The step a ghost hit moves the target by: |other| / |hit|, at least 1.  *)
Delta(other, hit) ==
  Larger(1, Cardinality(other) \div Larger(1, Cardinality(hit)))

(* Mutants: the growth without its cap, the size_t difference unguarded. *)
GrownUncapped(target) == target + Delta(lists.b2, lists.b1)
Grown(target) == Smaller(capacity, target + Delta(lists.b2, lists.b1))
ShrunkUnguarded(target) == target - Delta(lists.b1, lists.b2)
Shrunk(target) ==
  LET d == Delta(lists.b1, lists.b2) IN IF target > d THEN target - d ELSE 0

(* Erasing begin() of an unordered_set: any of the ghosts at all.          *)
ForgetOne(ghosts) == IF ghosts = {} THEN {ghosts} ELSE {ghosts \ {g} : g \in ghosts}

Counted(field, n) == [stats EXCEPT ![field] = (@ + n) % StatMod]

-----------------------------------------------------------------------------
Idle == hints = << >>

(* The common end of put(): the lists are l, and k carries v.              *)
Settle(l, k, v, evicted) ==
  /\ lists' = l
  /\ values' = [x \in Resident(l) |-> IF x = k THEN v ELSE values[x]]
  /\ stats' = Counted("evictions", evicted)
  /\ UNCHANGED <<capacity, hints>>

Get(k) ==
  /\ Idle
  /\ \/ /\ k \in Resident(lists)
        /\ lists' = Promote(lists, k)
        /\ stats' = Counted("hits", 1)
     \/ /\ k \notin Resident(lists)
        /\ stats' = Counted("misses", 1)
        /\ UNCHANGED lists
  /\ UNCHANGED <<values, p, capacity, hints>>

PutResident(k, v) ==
  /\ Idle
  /\ k \in Resident(lists)
  /\ Settle(Promote(lists, k), k, v, 0)
  /\ UNCHANGED p

PutGhostB1(k, v) ==
  /\ Idle
  /\ k \notin Resident(lists)
  /\ k \in lists.b1
  /\ p' = Grown(p)
  /\ LET l == Replace(lists, p', FALSE)
     IN  Settle([l EXCEPT !.b1 = @ \ {k}, !.t2 = PushFront(@, k)], k, v, 1)

PutGhostB2(k, v) ==
  /\ Idle
  /\ k \notin Resident(lists) \cup lists.b1
  /\ k \in lists.b2
  /\ p' = Shrunk(p)
  /\ LET l == Replace(lists, p', TRUE)
     IN  Settle([l EXCEPT !.b2 = @ \ {k}, !.t2 = PushFront(@, k)], k, v, 1)

(* A fresh miss: which directory is full decides who makes room.           *)
Fresh(k) == k \notin Resident(lists) \cup lists.b1 \cup lists.b2
RecencyFull == Len(lists.t1) + Cardinality(lists.b1) >= capacity
Directory == Size(lists) + Ghosts(lists)

Admit(l, k, v, evicted) ==
  /\ Settle([l EXCEPT !.t1 = PushFront(@, k)], k, v, evicted)
  /\ UNCHANGED p

PutFreshOverGhost(k, v) ==
  /\ Idle /\ Fresh(k)
  /\ RecencyFull /\ Len(lists.t1) < capacity
  /\ \E b \in ForgetOne(lists.b1) :
        Admit(Replace([lists EXCEPT !.b1 = b], p, FALSE), k, v, 1)

(* Mutant: the fresh miss that drops the tail of t1_ does not count it. *)
PutFreshOverT1Uncounted(k, v) ==
  /\ Idle /\ Fresh(k)
  /\ RecencyFull /\ Len(lists.t1) >= capacity
  /\ Admit([lists EXCEPT !.t1 = IF @ = << >> THEN @ ELSE DropTail(@)], k, v, 0)

PutFreshOverT1(k, v) ==
  /\ Idle /\ Fresh(k)
  /\ RecencyFull /\ Len(lists.t1) >= capacity
  /\ \/ /\ lists.t1 # << >>
        /\ Admit([lists EXCEPT !.t1 = DropTail(@)], k, v, 1)
     \/ /\ lists.t1 = << >>
        /\ Admit(lists, k, v, 0)

PutFreshReplacing(k, v) ==
  /\ Idle /\ Fresh(k)
  /\ ~RecencyFull /\ Directory >= capacity
  /\ \E b \in IF Directory = 2 * capacity THEN ForgetOne(lists.b2) ELSE {lists.b2} :
        Admit(Replace([lists EXCEPT !.b2 = b], p, FALSE), k, v, 1)

PutFreshSpare(k, v) ==
  /\ Idle /\ Fresh(k)
  /\ ~RecencyFull /\ Directory < capacity
  /\ Admit(lists, k, v, 0)

Put(k, v) ==
  \/ PutResident(k, v)
  \/ PutGhostB1(k, v)
  \/ PutGhostB2(k, v)
  \/ PutFreshOverGhost(k, v)
  \/ PutFreshOverT1(k, v)
  \/ PutFreshReplacing(k, v)
  \/ PutFreshSpare(k, v)

Erase(k) ==
  /\ Idle
  /\ lists' = [t1 |-> Unlink(lists.t1, k),
               t2 |-> IF Holds(lists.t1, k) THEN lists.t2 ELSE Unlink(lists.t2, k),
               b1 |-> lists.b1 \ {k},
               b2 |-> lists.b2 \ {k}]
  /\ values' = [x \in Resident(lists') |-> values[x]]
  /\ UNCHANGED <<p, capacity, stats, hints>>

(* resize(): tails of t1_ go first, then of t2_; no ghost is made, none is *)
(* dropped and p_ is left alone.                                           *)
Resize(c) ==
  /\ Idle
  /\ capacity' = c
  /\ LET over  == Larger(Size(lists), c) - c
         fromT1 == Smaller(over, Len(lists.t1))
     IN /\ lists' = Trimmed(lists, Len(lists.t1) - fromT1,
                                   Len(lists.t2) - (over - fromT1))
        /\ stats' = Counted("evictions", over)
  /\ values' = [x \in Resident(lists') |-> values[x]]
  /\ UNCHANGED <<p, hints>>

Clear ==
  /\ Idle
  /\ lists' = NoEntries
  /\ values' = NoValues
  /\ p' = 0
  /\ stats' = NoStats
  /\ UNCHANGED <<capacity, hints>>

(* ContextARCCache::hint_future: takes mu_, then visits each prediction.   *)
HintFuture(ks) ==
  /\ Idle
  /\ hints' = ks
  /\ UNCHANGED <<lists, values, p, capacity, stats>>

HintNext ==
  /\ hints # << >>
  /\ hints' = Tail(hints)
  /\ \/ /\ Head(hints) \in Resident(lists)
        /\ lists' = Promote(lists, Head(hints))
     \/ /\ Head(hints) \notin Resident(lists)
        /\ UNCHANGED lists
  /\ UNCHANGED <<values, p, capacity, stats>>

-----------------------------------------------------------------------------
Init ==
  /\ lists = NoEntries
  /\ values = NoValues
  /\ p = 0
  /\ capacity \in Capacities
  /\ stats = NoStats
  /\ hints = << >>

(* Every method but resize(): the life of a cache of fixed capacity.       *)
FixedNext ==
  \/ \E k \in Keys : Get(k) \/ Erase(k) \/ \E v \in Values : Put(k, v)
  \/ Clear
  \/ \E ks \in Predictions : HintFuture(ks)
  \/ HintNext

Next == FixedNext \/ \E c \in Capacities : Resize(c)

FixedSpec == Init /\ [][FixedNext]_vars
Spec == Init /\ [][Next]_vars

-----------------------------------------------------------------------------
(* Type invariant. *)
TypeOK ==
  /\ lists \in ListRecords
  /\ values \in [Resident(lists) -> Values]
  /\ p \in Nat
  /\ capacity \in Capacities
  /\ stats \in [hits : 0..(StatMod-1), misses : 0..(StatMod-1), evictions : 0..(StatMod-1)]
  /\ hints \in Seq(Keys)

(* A key is in at most one of t1_, t2_, ghost_b1_, ghost_b2_ and has at     *)
(* most one node: the if-chains of put(), erase() and hint_future() stop at *)
(* the first list that holds the key, so a second copy would be an entry    *)
(* that no method ever reaches, under a map iterator that was overwritten.  *)
Disjoint(l) ==
  /\ NoRepeats(l.t1)
  /\ NoRepeats(l.t2)
  /\ T1(l) \cap T2(l) = {}
  /\ l.b1 \cap l.b2 = {}
  /\ Resident(l) \cap (l.b1 \cup l.b2) = {}
OneHome == Disjoint(lists)

(* A cache that is never resized holds at most capacity_ entries: each of   *)
(* the branches of put() that adds one has made room for it, although       *)
(* replace() may find nothing to evict.                                     *)
WithinCapacity == Size(lists) <= capacity

(* The ARC directory of a cache that is never resized: t1_ and its ghosts   *)
(* stay within the capacity, everything remembered within twice the         *)
(* capacity, and the adaptation never takes p_ beyond the capacity.         *)
DirectoryBounded ==
  /\ Len(lists.t1) + Cardinality(lists.b1) <= capacity
  /\ Directory <= 2 * capacity
  /\ p <= capacity

(* With resize() between puts, as tick() calls it, put() goes over the      *)
(* capacity by at most one entry: resize() leaves the ghosts and the target *)
(* of the larger cache behind, so the replace() of a ghost hit may spare a  *)
(* full t1_ while t2_ is empty.  (At capacity 0 there is no such bound:     *)
(* t2_ then gives up nothing.)                                             *)
AtMostOneOver == capacity # 0 => Size(lists) <= capacity + 1

(* README.md: "Bounded memory for every cache / index".  Whatever the       *)
(* resizes, all that the four lists remember is within twice the largest    *)
(* capacity the cache may be given (a cache of capacity 0 counting as 1).   *)
RemembersBounded ==
  \E c \in Capacities : Directory <= 2 * Larger(1, c)

(* Every entry that put() or resize() drops is counted in evictions_.       *)
LossesAreCounted ==
  [][\/ \E k \in Keys, v \in Values : Put(k, v)
     \/ \E c \in Capacities : Resize(c)
     => Cardinality(Resident(lists) \ Resident(lists'))
          <= (stats'.evictions - stats.evictions) % StatMod]_vars

(* The cache is the lossy map that AdaptiveCache promises, call by call:     *)
(* get() and hints lose nothing, put() loses one other entry at most,       *)
(* resize() none that it need not.                                          *)
Contract == INSTANCE CacheContract
            WITH contents <- [k \in Resident(lists) |-> values[k]]
ImplementsContract ==
  /\ Contract!Init
  /\ [][/\ \A k \in Keys :
            /\ Get(k) => Contract!Read
            /\ Erase(k) => Contract!Erase(k)
            /\ \A v \in Values : Put(k, v) => Contract!Put(k, v)
        /\ HintNext \/ (\E ks \in Predictions : HintFuture(ks)) => Contract!Read
        /\ \A c \in Capacities : Resize(c) => Contract!Resize(c)
        /\ Clear => Contract!Clear]_vars
=============================================================================
