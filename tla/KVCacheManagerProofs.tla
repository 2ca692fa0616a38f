------------------------ MODULE KVCacheManagerProofs ------------------------
(***************************************************************************)
(* The ledger of the KV manager and its eviction plans, for any blocks, any *)
(* number of them, any windows, budgets and widths of the integers.        *)
(***************************************************************************)
EXTENDS KVCacheManager, CollectionProofs

(* The blocks the plan is made from. *)
Ledger ==
  /\ IsFiniteSet(Tracked)
  /\ \A i \in Tracked :
        /\ blocks[i].count \in Nat /\ blocks[i].start \in Nat
        /\ blocks[i].salience \in Nat
  /\ total \in Nat

(* Adding up the tokens of tracked blocks.                                   *)
LEMMA TokensOfBlocks ==
  ASSUME Ledger, NEW ids \in SUBSET Tracked
  PROVE  /\ Tokens(ids) \in Nat
         /\ Tokens({}) = 0
         /\ \A i \in Tracked \ ids : Tokens(ids \cup {i}) = Tokens(ids) + blocks[i].count
         /\ \A part \in SUBSET ids : Tokens(part) <= Tokens(ids)
<1>1. IsFiniteSet(ids)
  BY FS_Subset DEF Ledger
<1>2. \A i \in Tracked : Counts[i] = blocks[i].count /\ Counts[i] \in Nat
  BY DEF Counts, Ledger
<1>3. ASSUME NEW i \in Tracked \ ids
      PROVE  Tokens(ids \cup {i}) = Tokens(ids) + blocks[i].count
  <2>1. Integral(Counts, ids \cup {i})
    BY <1>2 DEF Integral
  <2>2. SumFunctionOnSet(Counts, ids \cup {i}) = SumFunctionOnSet(Counts, ids) + Counts[i]
    BY <1>1, <2>1, SumAdd
  <2>. QED BY <1>2, <2>2 DEF Tokens
<1>4. ASSUME NEW part \in SUBSET ids
      PROVE  Tokens(ids) \in Nat /\ Tokens(part) <= Tokens(ids)
  <2>1. \A i \in ids : Counts[i] \in Nat
    BY <1>2
  <2>. QED BY <1>1, <2>1, SumMonotone DEF Tokens
<1>5. Tokens({}) = 0
  BY SumEmpty DEF Tokens
<1>. QED BY <1>3, <1>4, <1>5

-----------------------------------------------------------------------------
(* The loop of plan(), turn by turn.                                        *)
LoopStates == [evict : Seq(Tracked), left : Int, done : BOOLEAN]
LoopStart(budget) == [evict |-> << >>, left |-> total - budget, done |-> FALSE]

IsLoop(f, n, order, budget) ==
  f = [s \in SUBSET (1..n) |->
         IF s = {} THEN LoopStart(budget)
         ELSE Take(f[s \ {Max(s)}], order[Max(s)], budget)]

LEMMA TakeType ==
  ASSUME Ledger, NEW acc \in LoopStates, NEW i \in Tracked, NEW budget
  PROVE  Take(acc, i, budget) \in LoopStates
<1>1. Append(acc.evict, i) \in Seq(Tracked)
  BY DEF LoopStates
<1>. QED BY <1>1 DEF LoopStates, Take, Ledger

LEMMA LoopExists ==
  ASSUME Ledger, NEW n \in Nat, NEW order \in [1..n -> Tracked], NEW budget \in Nat
  PROVE  \E f : IsLoop(f, n, order, budget)
<1>. DEFINE G == [k \in 1..n |-> [acc \in LoopStates |-> Take(acc, order[k], budget)]]
<1>1. G \in [1..n -> [LoopStates -> LoopStates]]
  BY TakeType
<1>2. LoopStart(budget) \in LoopStates
  BY DEF LoopStart, LoopStates, Ledger
<1>3. PICK f \in [SUBSET (1..n) -> LoopStates] : FoldUp(f, n, LoopStart(budget), G)
  <2>. HIDE DEF G
  <2>. QED BY <1>1, <1>2, FoldUpExists
<1>4. ASSUME NEW s \in SUBSET (1..n), s # {}
      PROVE  f[s] = Take(f[s \ {Max(s)}], order[Max(s)], budget)
  <2>1. Max(s) \in 1..n
    BY <1>4, MaxOfPositions
  <2>2. f[s] = G[Max(s)][f[s \ {Max(s)}]]
    BY <1>3, <1>4 DEF FoldUp
  <2>3. f[s \ {Max(s)}] \in LoopStates
    BY <1>3
  <2>. QED BY <2>1, <2>2, <2>3
<1>5. f[{}] = LoopStart(budget)
  BY <1>3 DEF FoldUp
<1>6. IsLoop(f, n, order, budget)
  BY <1>3, <1>4, <1>5 DEF IsLoop
<1>. QED BY <1>6

(* R[k] is the state of the loop after the first k blocks of the order.      *)
IsRun(R, n, order, budget) ==
  /\ R[0] = LoopStart(budget)
  /\ \A k \in 1..n : R[k] = Take(R[k - 1], order[k], budget)

LEMMA PlanIsRun ==
  ASSUME Ledger, NEW n \in Nat, NEW order \in [1..n -> Tracked], NEW budget \in Nat
  PROVE  \E R : IsRun(R, n, order, budget) /\ PlanOf(order, budget) = R[n].evict
<1>. DEFINE f == CHOOSE f : IsLoop(f, n, order, budget)
            R == [k \in 0..n |-> f[1..k]]
<1>1. PlanOf(order, budget) = f[1..n].evict
  BY DOMAIN order = 1..n DEF PlanOf, FoldLeft, MapThenFoldSet, IsLoop, LoopStart
<1>2. IsLoop(f, n, order, budget)
  BY LoopExists
<1>. HIDE DEF f
<1>3. f[{}] = LoopStart(budget)
  BY <1>2 DEF IsLoop
<1>4. ASSUME NEW k \in 1..n
      PROVE  f[1..k] = Take(f[1..(k - 1)], order[k], budget)
  <2>1. 1..k # {} /\ Max(1..k) = k /\ (1..k) \ {k} = 1..(k - 1)
    <3>1. k \in Nat /\ k # 0
      OBVIOUS
    <3>. QED BY <3>1, MaxOfPrefix
  <2>2. 1..k \in SUBSET (1..n)
    OBVIOUS
  <2>. QED BY <1>2, <2>1, <2>2 DEF IsLoop
<1>5. IsRun(R, n, order, budget)
  <2>1. 1..0 = {}
    OBVIOUS
  <2>2. R[0] = LoopStart(budget)
    BY <1>3, <2>1
  <2>3. ASSUME NEW k \in 1..n PROVE R[k] = Take(R[k - 1], order[k], budget)
    <3>1. R[k] = f[1..k] /\ R[k - 1] = f[1..(k - 1)]
      OBVIOUS
    <3>. HIDE DEF R
    <3>. QED BY <1>4, <3>1
  <2>. HIDE DEF R
  <2>. QED BY <2>2, <2>3 DEF IsRun
<1>6. R[n].evict = PlanOf(order, budget)
  BY <1>1
<1>. HIDE DEF R
<1>. QED BY <1>5, <1>6

-----------------------------------------------------------------------------
(* The evictable blocks among the first k of the order.                      *)
Seen(order, k, budget) ==
  {i \in {order[m] : m \in 1..k} : Evictable(blocks[i], budget)}

(* Once the loop is done, it took all evictable ones up to some block; the   *)
(* last of them brought the tokens down to the budget.                      *)
Reached(evict, order, k, budget) ==
  \E p \in 1..k :
     /\ evict # << >>
     /\ ToSet(evict) = Seen(order, p, budget)
     /\ Tokens(ToSet(evict)) >= total - budget
     /\ Tokens(ToSet(Front(evict))) < total - budget

(* The invariant of the loop, after k blocks.                                *)
LoopInv(acc, order, k, budget) ==
  /\ acc \in LoopStates
  /\ IsInjective(acc.evict)
  /\ ~acc.done => /\ ToSet(acc.evict) = Seen(order, k, budget)
                  /\ acc.left = total - budget - Tokens(ToSet(acc.evict))
                  /\ acc.left > 0
  /\ acc.done => Reached(acc.evict, order, k, budget)

IsOrder(order, n) ==
  /\ order \in [1..n -> Tracked]
  /\ \A i, j \in 1..n : order[i] = order[j] => i = j

LEMMA LoopStartInv ==
  ASSUME Ledger, NEW order, NEW budget \in Nat, total > budget
  PROVE  LoopInv(LoopStart(budget), order, 0, budget)
<1>1. LoopStart(budget) \in LoopStates
  BY DEF LoopStart, LoopStates, Ledger
<1>2. LoopStart(budget).evict = << >> /\ LoopStart(budget).left = total - budget
        /\ ~LoopStart(budget).done
  BY DEF LoopStart
<1>3. ToSet(<< >>) = {} /\ IsInjective(<< >>)
  BY DEF ToSet, IsInjective
<1>4. Seen(order, 0, budget) = {}
  <2>1. 1..0 = {}
    OBVIOUS
  <2>. QED BY <2>1 DEF Seen
<1>5. Tokens({}) = 0
  BY TokensOfBlocks
<1>6. total - budget > 0 /\ total - budget = total - budget - 0
  BY DEF Ledger
<1>. QED BY <1>1, <1>2, <1>3, <1>4, <1>5, <1>6 DEF LoopInv

LEMMA TakeKeepsInv ==
  ASSUME Ledger, NEW n \in Nat, NEW order, IsOrder(order, n),
         NEW budget \in Nat, NEW k \in 1..n, NEW acc, LoopInv(acc, order, k - 1, budget)
  PROVE  LoopInv(Take(acc, order[k], budget), order, k, budget)
<1>. DEFINE i == order[k]
            may == Evictable(blocks[i], budget)
            nxt == Take(acc, i, budget)
<1>1. i \in Tracked /\ acc \in LoopStates /\ nxt \in LoopStates
  BY TakeType DEF IsOrder, LoopInv
<1>2. 1..k = (1..(k - 1)) \cup {k} /\ k \notin 1..(k - 1)
  OBVIOUS
<1>3. Seen(order, k, budget) =
        IF may THEN Seen(order, k - 1, budget) \cup {i} ELSE Seen(order, k - 1, budget)
  BY <1>2 DEF Seen
<1>4. i \notin Seen(order, k - 1, budget)
  BY <1>2 DEF Seen, IsOrder
<1>5. CASE acc.done
  <2>1. nxt = acc
    BY <1>5 DEF Take
  <2>2. PICK p \in 1..(k - 1) :
          /\ acc.evict # << >>
          /\ ToSet(acc.evict) = Seen(order, p, budget)
          /\ Tokens(ToSet(acc.evict)) >= total - budget
          /\ Tokens(ToSet(Front(acc.evict))) < total - budget
    BY <1>5 DEF LoopInv, Reached
  <2>3. p \in 1..k
    OBVIOUS
  <2>4. Reached(acc.evict, order, k, budget)
    BY <2>2, <2>3 DEF Reached
  <2>. QED BY <1>5, <2>1, <2>4 DEF LoopInv
<1>6. CASE ~acc.done /\ ~may
  <2>1. nxt = acc
    BY <1>6 DEF Take
  <2>. QED BY <1>3, <1>6, <2>1 DEF LoopInv
<1>7. CASE ~acc.done /\ may
  <2>1. /\ nxt.evict = Append(acc.evict, i)
        /\ nxt.done = (blocks[i].count >= acc.left)
        /\ ~nxt.done => nxt.left = acc.left - blocks[i].count
    BY <1>7 DEF Take
  <2>2. /\ acc.evict \in Seq(Tracked) /\ IsInjective(acc.evict)
        /\ ToSet(acc.evict) = Seen(order, k - 1, budget)
        /\ acc.left = total - budget - Tokens(ToSet(acc.evict))
        /\ acc.left > 0 /\ acc.left \in Int
    BY <1>7 DEF LoopInv, LoopStates
  <2>3. /\ IsInjective(nxt.evict) /\ nxt.evict # << >>
        /\ ToSet(nxt.evict) = ToSet(acc.evict) \cup {i}
        /\ Front(nxt.evict) = acc.evict
    BY <1>1, <1>4, <2>1, <2>2, AppendFresh
  <2>4. ToSet(nxt.evict) = Seen(order, k, budget)
    BY <1>3, <1>7, <2>2, <2>3
  <2>5. ToSet(acc.evict) \in SUBSET Tracked
    BY <2>2, KeysOfList
  <2>6. /\ Tokens(ToSet(acc.evict)) \in Nat
        /\ Tokens(ToSet(nxt.evict)) = Tokens(ToSet(acc.evict)) + blocks[i].count
    <3>1. i \in Tracked \ ToSet(acc.evict)
      BY <1>1, <1>4, <2>2
    <3>. QED BY <2>3, <2>5, <3>1, TokensOfBlocks
  <2>7. blocks[i].count \in Nat /\ total \in Nat
    BY <1>1 DEF Ledger
  <2>. HIDE DEF i, nxt, may
  <2>8. CASE nxt.done
    <3>1. blocks[i].count >= acc.left
      BY <2>1, <2>8
    <3>2. /\ Tokens(ToSet(nxt.evict)) >= total - budget
          /\ Tokens(ToSet(Front(nxt.evict))) < total - budget
      BY <2>2, <2>3, <2>6, <2>7, <3>1
    <3>3. k \in 1..k
      OBVIOUS
    <3>4. Reached(nxt.evict, order, k, budget)
      BY <2>3, <2>4, <3>2, <3>3 DEF Reached
    <3>. QED BY <1>1, <2>3, <2>8, <3>4 DEF LoopInv, nxt, i
  <2>9. CASE ~nxt.done
    <3>1. ~(blocks[i].count >= acc.left) /\ nxt.left = acc.left - blocks[i].count
      BY <2>1, <2>9
    <3>2. nxt.left > 0 /\ nxt.left = total - budget - Tokens(ToSet(nxt.evict))
      BY <2>2, <2>6, <2>7, <3>1
    <3>. QED BY <1>1, <2>3, <2>4, <2>9, <3>2 DEF LoopInv, nxt, i
  <2>. QED BY <2>8, <2>9
<1>. QED BY <1>5, <1>6, <1>7

(* After the last block.                                                     *)
LEMMA PlanAtEnd ==
  ASSUME Ledger, NEW n \in Nat, NEW order, IsOrder(order, n),
         NEW budget \in Nat, total > budget
  PROVE  \E acc : PlanOf(order, budget) = acc.evict /\ LoopInv(acc, order, n, budget)
<1>1. order \in [1..n -> Tracked]
  BY DEF IsOrder
<1>2. PICK R : IsRun(R, n, order, budget) /\ PlanOf(order, budget) = R[n].evict
  BY <1>1, PlanIsRun
<1>. DEFINE N == {k \in Nat : k <= n => LoopInv(R[k], order, k, budget)}
<1>3. 0 \in N
  BY <1>2, LoopStartInv DEF IsRun
<1>4. ASSUME NEW k \in N \cap Nat PROVE k + 1 \in N
  <2>1. ASSUME k + 1 <= n PROVE LoopInv(R[k + 1], order, k + 1, budget)
    <3>1. k + 1 \in 1..n /\ (k + 1) - 1 = k /\ k <= n
      BY <2>1
    <3>2. R[k + 1] = Take(R[k], order[k + 1], budget)
      BY <1>2, <3>1 DEF IsRun
    <3>3. LoopInv(R[k], order, (k + 1) - 1, budget)
      BY <3>1
    <3>. HIDE DEF N
    <3>4. LoopInv(Take(R[k], order[k + 1], budget), order, k + 1, budget)
      BY <3>1, <3>3, TakeKeepsInv
    <3>. QED BY <3>2, <3>4
  <2>. QED BY <2>1
<1>5. Nat \subseteq N
  <2>. HIDE DEF N
  <2>. QED BY <1>3, <1>4, NatInductionOnSet
<1>6. LoopInv(R[n], order, n, budget)
  BY <1>5
<1>. QED BY <1>2, <1>6

-----------------------------------------------------------------------------
(* What the invariant of the loop says of the plan it ends with.             *)
LEMMA PlanFromOrder ==
  ASSUME Ledger, NEW order \in Sorted, NEW budget \in Nat, total > budget
  PROVE  /\ PlanOf(order, budget) \in Seq(Tracked)
         /\ IsInjective(PlanOf(order, budget))
         /\ PlanIsRight(PlanOf(order, budget), budget)
<1>. DEFINE n == Cardinality(Tracked)
            may == {i \in Tracked : Evictable(blocks[i], budget)}
<1>1. /\ n \in Nat /\ IsOrder(order, n)
      /\ \A i \in Tracked : \E k \in 1..n : order[k] = i
  <2>1. order \in SetToSeqs(Tracked) /\ IsFiniteSet(Tracked)
    BY DEF Sorted, Ledger
  <2>. QED BY <2>1, OrderProperties DEF IsOrder
<1>2. \A i, j \in 1..n : i < j => blocks[order[i]].salience <= blocks[order[j]].salience
  <2>1. DOMAIN order = 1..n
    BY <1>1 DEF IsOrder
  <2>. QED BY <2>1 DEF Sorted
<1>. HIDE DEF n
<1>3. PICK acc : PlanOf(order, budget) = acc.evict /\ LoopInv(acc, order, n, budget)
  BY <1>1, PlanAtEnd
<1>4. PICK plan : plan = acc.evict
  OBVIOUS
<1>5. plan \in Seq(Tracked) /\ IsInjective(plan)
  BY <1>3, <1>4 DEF LoopInv, LoopStates
<1>6. ToSet(plan) \in SUBSET Tracked
  BY <1>5, KeysOfList
<1>7. PICK p \in 0..n :
        /\ ToSet(plan) = Seen(order, p, budget)
        /\ \/ p = n
           \/ total - Tokens(ToSet(plan)) <= budget
        /\ plan # << >> => total - Tokens(ToSet(Front(plan))) > budget
  <2>1. CASE ~acc.done
    <3>1. /\ ToSet(plan) = Seen(order, n, budget)
          /\ total - budget - Tokens(ToSet(plan)) > 0
      BY <1>3, <1>4, <2>1 DEF LoopInv
    <3>2. ASSUME plan # << >> PROVE total - Tokens(ToSet(Front(plan))) > budget
      <4>1. ToSet(Front(plan)) \in SUBSET ToSet(plan)
        BY <1>5, <3>2, FrontProperties
      <4>2. /\ Tokens(ToSet(Front(plan))) <= Tokens(ToSet(plan))
            /\ Tokens(ToSet(plan)) \in Nat
        BY <1>6, <4>1, TokensOfBlocks
      <4>3. ToSet(Front(plan)) \in SUBSET Tracked
        BY <1>6, <4>1
      <4>4. Tokens(ToSet(Front(plan))) \in Nat
        BY <4>3, TokensOfBlocks
      <4>. QED BY <3>1, <4>2, <4>4 DEF Ledger
    <3>3. n \in 0..n
      BY <1>1
    <3>. QED BY <3>1, <3>2, <3>3
  <2>2. CASE acc.done
    <3>1. PICK q \in 1..n :
            /\ plan # << >>
            /\ ToSet(plan) = Seen(order, q, budget)
            /\ Tokens(ToSet(plan)) >= total - budget
            /\ Tokens(ToSet(Front(plan))) < total - budget
      BY <1>3, <1>4, <2>2 DEF LoopInv, Reached
    <3>2. Tokens(ToSet(plan)) \in Nat
      BY <1>6, TokensOfBlocks
    <3>3. Tokens(ToSet(Front(plan))) \in Nat
      <4>1. ToSet(Front(plan)) \in SUBSET Tracked
        BY <1>5, <1>6, <3>1, FrontProperties
      <4>. QED BY <4>1, TokensOfBlocks
    <3>4. q \in 0..n
      BY <1>1
    <3>5. total - Tokens(ToSet(plan)) <= budget /\ total - Tokens(ToSet(Front(plan))) > budget
      BY <3>1, <3>2, <3>3 DEF Ledger
    <3>. QED BY <3>1, <3>4, <3>5
  <2>. QED BY <2>1, <2>2
<1>8. ToSet(plan) \subseteq may
  BY <1>6, <1>7 DEF Seen
<1>9. p = n => ToSet(plan) = may
  BY <1>1, <1>6, <1>7 DEF Seen
<1>10. ASSUME NEW i \in ToSet(plan), NEW j \in may \ ToSet(plan)
       PROVE  blocks[i].salience <= blocks[j].salience
  <2>1. PICK a \in 1..p : order[a] = i
    BY <1>7 DEF Seen
  <2>2. PICK b \in 1..n : order[b] = j
    BY <1>1
  <2>3. ~(b \in 1..p)
    BY <1>7, <1>10, <2>2 DEF Seen
  <2>4. a \in 1..n /\ a < b
    BY <1>1, <2>3
  <2>. QED BY <1>2, <2>1, <2>2, <2>4
<1>11. PlanIsRight(plan, budget)
  BY <1>7, <1>8, <1>9, <1>10 DEF PlanIsRight
<1>. QED BY <1>3, <1>4, <1>5, <1>11

(* Every plan, the empty one of a total within the budget included.          *)
LEMMA PlanProperties ==
  ASSUME Ledger, NEW budget \in Nat, NEW plan \in Plans(budget)
  PROVE  /\ plan \in Seq(Tracked)
         /\ IsInjective(plan)
         /\ PlanIsRight(plan, budget)
<1>1. CASE total <= budget
  <2>1. plan = << >>
    BY <1>1 DEF Plans
  <2>2. ToSet(<< >>) = {} /\ IsInjective(<< >>)
    BY DEF ToSet, IsInjective
  <2>3. Tokens({}) = 0
    BY TokensOfBlocks
  <2>4. total - Tokens({}) <= budget
    BY <1>1, <2>3 DEF Ledger
  <2>5. PlanIsRight(<< >>, budget)
    BY <2>2, <2>4 DEF PlanIsRight
  <2>. QED BY <2>1, <2>2, <2>5
<1>2. CASE ~(total <= budget)
  <2>1. PICK order \in Sorted : plan = PlanOf(order, budget)
    BY <1>2 DEF Plans
  <2>2. total > budget
    BY <1>2 DEF Ledger
  <2>. QED BY <2>1, <2>2, PlanFromOrder
<1>. QED BY <1>1, <1>2

-----------------------------------------------------------------------------
(* The inductive invariant: on top of the types, finitely many blocks are    *)
(* tracked and the total never falls below their tokens, which is why no     *)
(* subtraction of release() wraps.                                         *)
IInv ==
  /\ TypeOK
  /\ IsFiniteSet(Tracked)
  /\ Tokens(Tracked) <= total

LEMMA LedgerOfInv ==
  ASSUME KVAssumption, IInv
  PROVE  Ledger
BY DEF KVAssumption, IInv, TypeOK, Ledger

(* Every way to change the ledger: tokens of a block less, or more.          *)
LEMMA ObserveMoves ==
  ASSUME KVAssumption, IInv, NEW b \in Blocks, Observe(b)
  PROVE  /\ IsFiniteSet(Tracked') /\ Tracked' \subseteq Ids
         /\ \A i \in Tracked' : blocks'[i] \in Blocks /\ blocks'[i].id = i
         /\ total' = total + b.count /\ total' \in 0..MaxTotal
         /\ Tokens(Tracked)' = Tokens(Tracked \ {b.id}) + b.count
<1>1. /\ blocks' = [i \in Tracked \cup {b.id} |-> IF i = b.id THEN b ELSE blocks[i]]
      /\ total + b.count <= MaxTotal /\ total' = (total + b.count) % Word64
  BY DEF Observe
<1>2. /\ Tracked \subseteq Ids /\ IsFiniteSet(Tracked)
      /\ \A i \in Tracked : blocks[i] \in Blocks /\ blocks[i].id = i
      /\ total \in 0..MaxTotal
  BY DEF IInv, TypeOK
<1>3. /\ b.count \in Nat /\ MaxTotal \in Nat /\ Word64 \in Nat \ {0} /\ MaxTotal < Word64
      /\ \A i \in Tracked : blocks[i].count \in Nat
  BY <1>2 DEF KVAssumption
<1>4. Tracked' = Tracked \cup {b.id}
  BY <1>1 DEF Tracked
<1>5. total' = total + b.count /\ total' \in 0..MaxTotal
  <2>1. PICK x \in Nat : x = total + b.count /\ x \in 0..MaxTotal /\ x < Word64
    BY <1>1, <1>2, <1>3
  <2>2. x % Word64 = x
    BY <1>3, <2>1, ModSmall
  <2>. QED BY <1>1, <2>1, <2>2
<1>6. PICK rest : rest = Tracked \ {b.id}
  OBVIOUS
<1>7. IsFiniteSet(rest) /\ b.id \notin rest /\ Tracked' = rest \cup {b.id}
  <2>1. rest \in SUBSET Tracked
    BY <1>6
  <2>2. IsFiniteSet(rest)
    BY <1>2, <2>1, FS_Subset
  <2>3. b.id \notin rest /\ Tracked' = rest \cup {b.id}
    BY <1>4, <1>6
  <2>. QED BY <2>2, <2>3
<1>8. Counts' = [i \in Tracked' |-> IF i = b.id THEN b.count ELSE blocks[i].count]
  BY <1>1, <1>4 DEF Counts
<1>9. Integral(Counts', rest \cup {b.id}) /\ Counts'[b.id] = b.count
  BY <1>3, <1>6, <1>7, <1>8 DEF Integral
<1>10. SumFunctionOnSet(Counts', rest \cup {b.id}) = SumFunctionOnSet(Counts', rest) + b.count
  <2>1. PICK f, k : f = Counts' /\ k = b.id
    OBVIOUS
  <2>2. IsFiniteSet(rest) /\ k \notin rest /\ Integral(f, rest \cup {k})
    BY <1>7, <1>9, <2>1
  <2>3. SumFunctionOnSet(f, rest \cup {k}) = SumFunctionOnSet(f, rest) + f[k]
    BY <2>2, SumAdd
  <2>. QED BY <1>9, <2>1, <2>3
<1>11. SumFunctionOnSet(Counts', rest) = SumFunctionOnSet(Counts, rest)
  <2>1. Integral(Counts, rest) /\ \A i \in rest : Counts'[i] = Counts[i]
    BY <1>3, <1>6, <1>7, <1>8 DEF Integral, Counts
  <2>. QED BY <1>7, <2>1, SumSame
<1>12. Tokens(Tracked)' = Tokens(rest) + b.count
  BY <1>7, <1>10, <1>11 DEF Tokens
<1>13. IsFiniteSet(Tracked')
  BY <1>2, <1>4, FS_AddElement
<1>14. Tracked' \subseteq Ids /\ \A i \in Tracked' : blocks'[i] \in Blocks /\ blocks'[i].id = i
  BY <1>1, <1>2, <1>4 DEF Ids
<1>. QED BY <1>5, <1>6, <1>12, <1>13, <1>14

LEMMA ReleaseMoves ==
  ASSUME KVAssumption, IInv, NEW i, Release(i)
  PROVE  /\ IsFiniteSet(Tracked') /\ Tracked' = Tracked \ {i}
         /\ \A j \in Tracked' : blocks'[j] = blocks[j]
         /\ total' \in 0..total
         /\ total' - Tokens(Tracked)' = total - Tokens(Tracked)
<1>1. /\ IsFiniteSet(Tracked) /\ total \in 0..MaxTotal /\ Tokens(Tracked) <= total
  BY DEF IInv, TypeOK
<1>2. Ledger
  BY LedgerOfInv
<1>3. Tokens(Tracked) \in Nat
  BY <1>2, TokensOfBlocks
<1>4. CASE i \in Tracked
  <2>1. /\ total' = (total - blocks[i].count) % Word64
        /\ blocks' = [j \in Tracked \ {i} |-> blocks[j]]
    BY <1>4 DEF Release
  <2>2. PICK rest : rest = Tracked \ {i}
    OBVIOUS
  <2>3. /\ IsFiniteSet(rest) /\ rest \in SUBSET Tracked /\ i \in Tracked \ rest
        /\ rest \cup {i} = Tracked
    BY <1>1, <1>4, <2>2, FS_Subset
  <2>4. Tokens(Tracked) = Tokens(rest) + blocks[i].count /\ Tokens(rest) \in Nat
    <3>1. Tokens(rest \cup {i}) = Tokens(rest) + blocks[i].count /\ Tokens(rest) \in Nat
      BY <1>2, <2>3, TokensOfBlocks
    <3>. QED BY <2>3, <3>1
  <2>5. blocks[i].count \in Nat
    BY <1>2, <1>4 DEF Ledger
  <2>6. total - blocks[i].count \in Nat /\ total - blocks[i].count < Word64
    BY <1>1, <2>4, <2>5 DEF KVAssumption
  <2>7. total' = total - blocks[i].count
    BY <2>1, <2>6, ModSmall DEF KVAssumption
  <2>8. Tracked' = rest /\ \A j \in Tracked' : blocks'[j] = blocks[j]
    BY <2>1, <2>2 DEF Tracked
  <2>9. Tokens(Tracked)' = Tokens(rest)
    <3>1. Integral(Counts, rest) /\ \A j \in rest : Counts'[j] = Counts[j]
      BY <1>2, <2>3, <2>8 DEF Integral, Counts, Ledger
    <3>2. SumFunctionOnSet(Counts', rest) = SumFunctionOnSet(Counts, rest)
      BY <2>3, <3>1, SumSame
    <3>. QED BY <2>8, <3>2 DEF Tokens
  <2>. QED BY <1>1, <2>2, <2>3, <2>4, <2>5, <2>6, <2>7, <2>8, <2>9
<1>5. CASE i \notin Tracked
  <2>1. UNCHANGED <<blocks, total>>
    BY <1>5 DEF Release
  <2>2. Tracked' = Tracked /\ Counts' = Counts
    BY <2>1 DEF Tracked, Counts
  <2>. QED BY <1>1, <1>3, <1>5, <2>1, <2>2 DEF Tokens
<1>. QED BY <1>4, <1>5

LEMMA ResetMoves ==
  ASSUME Reset
  PROVE  /\ Tracked' = {} /\ IsFiniteSet(Tracked') /\ total' = 0 /\ Tokens(Tracked)' = 0
<1>1. Tracked' = {} /\ total' = 0
  BY DEF Reset, NoBlocks, Tracked
<1>2. SumFunctionOnSet(Counts', {}) = 0
  BY SumEmpty
<1>. QED BY <1>1, <1>2, FS_EmptySet DEF Tokens

-----------------------------------------------------------------------------
LEMMA InitIInv == ASSUME KVAssumption PROVE Init => IInv
<1>. SUFFICES ASSUME Init PROVE IInv
  OBVIOUS
<1>1. Tracked = {} /\ total = 0 /\ pending = << >>
  BY DEF Init, NoBlocks, Tracked
<1>2. SumFunctionOnSet(Counts, {}) = 0
  BY SumEmpty
<1>3. IsFiniteSet({})
  BY FS_EmptySet
<1>4. TypeOK
  BY <1>1 DEF TypeOK, KVAssumption, IsInjective
<1>. QED BY <1>1, <1>2, <1>3, <1>4 DEF IInv, Tokens

LEMMA NextIInv == ASSUME KVAssumption PROVE IInv /\ [Next]_vars => IInv'
<1>. SUFFICES ASSUME IInv, [Next]_vars PROVE IInv'
  OBVIOUS
<1>1. /\ Tracked \subseteq Ids /\ IsFiniteSet(Tracked) /\ Tokens(Tracked) <= total
      /\ \A i \in Tracked : blocks[i] \in Blocks /\ blocks[i].id = i
      /\ total \in 0..MaxTotal
      /\ pending \in Seq(Ids) /\ IsInjective(pending)
  BY DEF IInv, TypeOK
<1>2. Ledger
  BY LedgerOfInv
<1>3. Tokens(Tracked) \in Nat /\ MaxTotal \in Nat
  BY <1>2, TokensOfBlocks DEF KVAssumption
<1>4. ASSUME NEW b \in Blocks, Host(Observe(b)) PROVE IInv'
  <2>1. Observe(b) /\ UNCHANGED pending
    BY <1>4 DEF Host
  <2>2. /\ IsFiniteSet(Tracked') /\ Tracked' \subseteq Ids
        /\ \A i \in Tracked' : blocks'[i] \in Blocks /\ blocks'[i].id = i
        /\ total' = total + b.count /\ total' \in 0..MaxTotal
        /\ Tokens(Tracked)' = Tokens(Tracked \ {b.id}) + b.count
    BY <2>1, ObserveMoves
  <2>3. /\ Tokens(Tracked \ {b.id}) \in Nat /\ b.count \in Nat
        /\ Tokens(Tracked \ {b.id}) <= Tokens(Tracked)
    BY <1>2, TokensOfBlocks DEF KVAssumption
  <2>4. Tokens(Tracked)' <= total'
    BY <1>1, <1>3, <2>2, <2>3
  <2>5. TypeOK'
    BY <1>1, <2>1, <2>2 DEF TypeOK
  <2>. QED BY <2>2, <2>4, <2>5 DEF IInv
<1>5. ASSUME NEW i, Release(i), pending' \in Seq(Ids), IsInjective(pending') PROVE IInv'
  <2>1. /\ IsFiniteSet(Tracked') /\ Tracked' = Tracked \ {i}
        /\ \A j \in Tracked' : blocks'[j] = blocks[j]
        /\ total' \in 0..total
        /\ total' - Tokens(Tracked)' = total - Tokens(Tracked)
    BY <1>5, ReleaseMoves
  <2>2. TypeOK'
    BY <1>1, <1>3, <1>5, <2>1 DEF TypeOK
  <2>3. Ledger'
    BY <1>1, <1>2, <2>1 DEF Ledger
  <2>4. Tokens(Tracked)' \in Int
    <3>1. IsFiniteSet(Tracked') /\ \A j \in Tracked' : Counts'[j] \in Nat
      BY <1>2, <2>1 DEF Counts, Ledger
    <3>2. SumFunctionOnSet(Counts', Tracked') \in Nat
      BY <3>1, SumMonotone
    <3>. QED BY <3>2 DEF Tokens
  <2>5. Tokens(Tracked)' <= total'
    BY <1>1, <1>3, <2>1, <2>4
  <2>. QED BY <2>1, <2>2, <2>5 DEF IInv
<1>6. ASSUME NEW i \in Ids, Host(Release(i)) PROVE IInv'
  BY <1>1, <1>5, <1>6 DEF Host
<1>7. ASSUME Host(Reset) PROVE IInv'
  <2>1. /\ Tracked' = {} /\ IsFiniteSet(Tracked') /\ total' = 0 /\ Tokens(Tracked)' = 0
        /\ UNCHANGED pending
    BY <1>7, ResetMoves DEF Host
  <2>2. TypeOK'
    BY <1>1, <1>3, <2>1 DEF TypeOK
  <2>. QED BY <2>1, <2>2 DEF IInv
<1>8. ASSUME NEW budget \in Budgets, Plan(budget) PROVE IInv'
  <2>1. pending' \in Plans(budget) /\ UNCHANGED <<blocks, total>> /\ budget \in Nat
    BY <1>8 DEF Plan, KVAssumption
  <2>2. pending' \in Seq(Tracked) /\ IsInjective(pending')
    BY <1>2, <2>1, PlanProperties
  <2>3. pending' \in Seq(Ids)
    BY <1>1, <2>2, SeqMonotonic
  <2>4. Tracked' = Tracked /\ Counts' = Counts
    BY <2>1 DEF Tracked, Counts
  <2>5. TypeOK'
    BY <1>1, <2>1, <2>2, <2>3, <2>4 DEF TypeOK
  <2>. QED BY <1>1, <2>1, <2>4, <2>5 DEF IInv, Tokens
<1>9. ASSUME ReleaseNext PROVE IInv'
  BY <1>1, <1>5, <1>9, TailInjective DEF ReleaseNext
<1>10. ASSUME UNCHANGED vars PROVE IInv'
  <2>1. Tracked' = Tracked /\ Counts' = Counts /\ total' = total
    BY <1>10 DEF Tracked, Counts, vars
  <2>2. TypeOK'
    BY <1>1, <1>10, <2>1 DEF TypeOK, vars
  <2>. QED BY <1>1, <2>1, <2>2 DEF IInv, Tokens
<1>. QED BY <1>4, <1>6, <1>7, <1>8, <1>9, <1>10 DEF Next

LEMMA Invariance == ASSUME KVAssumption PROVE Spec => []IInv
  BY InitIInv, NextIInv, PTL DEF Spec

-----------------------------------------------------------------------------
(* A tick that carries its plan out while no host interferes: what it has    *)
(* yet to release brings the total within the budget, or is all there is.   *)
StillEnough(budget) ==
  /\ ToSet(pending) \subseteq Tracked
  /\ \/ total - Tokens(ToSet(pending)) <= budget
     \/ \A i \in Tracked \ ToSet(pending) : ~Evictable(blocks[i], budget)

LEMMA PlanIsEnough ==
  ASSUME KVAssumption, IInv, NEW budget \in Nat, Plan(budget)
  PROVE  StillEnough(budget)'
<1>1. PICK plan \in Plans(budget) :
        /\ pending' = plan /\ PlanIsRight(plan, budget)
        /\ UNCHANGED <<blocks, total>>
  BY LedgerOfInv, PlanProperties DEF Plan
<1>2. ToSet(plan) \subseteq Tracked
  BY <1>1 DEF PlanIsRight
<1>3. \/ total - Tokens(ToSet(plan)) <= budget
      \/ \A i \in Tracked \ ToSet(plan) : ~Evictable(blocks[i], budget)
  BY <1>1 DEF PlanIsRight
<1>4. Tracked' = Tracked /\ Counts' = Counts
  BY <1>1 DEF Tracked, Counts
<1>. QED BY <1>1, <1>2, <1>3, <1>4 DEF StillEnough, Tokens

LEMMA ReleaseKeepsEnough ==
  ASSUME KVAssumption, IInv, NEW budget, StillEnough(budget), ReleaseNext
  PROVE  StillEnough(budget)'
<1>1. PICK i : i = Head(pending) /\ Release(i)
  BY DEF ReleaseNext
<1>2. PICK rest : rest = ToSet(Tail(pending))
  OBVIOUS
<1>3. pending \in Seq(Ids) /\ pending # << >> /\ IsInjective(pending)
  BY DEF IInv, TypeOK, ReleaseNext
<1>4. /\ i \in ToSet(pending) /\ ToSet(pending) = rest \cup {i} /\ i \notin rest
  BY <1>1, <1>2, <1>3, TailInjective
<1>5. ToSet(pending') = rest
  BY <1>2 DEF ReleaseNext
<1>6. /\ Tracked' = Tracked \ {i}
      /\ \A j \in Tracked' : blocks'[j] = blocks[j]
      /\ total' - Tokens(Tracked)' = total - Tokens(Tracked)
  BY <1>1, ReleaseMoves
<1>7. i \in Tracked /\ rest \subseteq Tracked \ {i}
  BY <1>4 DEF StillEnough
<1>8. Ledger
  BY LedgerOfInv
<1>9. PICK others : others = Tracked \ {i}
  OBVIOUS
<1>10. others \subseteq Tracked /\ rest \subseteq others /\ i \in Tracked \ others
  BY <1>7, <1>9
<1>11. ASSUME NEW ids \in SUBSET others
       PROVE  /\ Tokens(ids)' = Tokens(ids) /\ Tokens(ids) \in Nat
              /\ Tokens(ids \cup {i}) = Tokens(ids) + blocks[i].count
  <2>1. ids \in SUBSET Tracked /\ i \in Tracked \ ids
    BY <1>10
  <2>2. /\ Tokens(ids) \in Nat
        /\ Tokens(ids \cup {i}) = Tokens(ids) + blocks[i].count
    BY <1>8, <2>1, TokensOfBlocks
  <2>3. IsFiniteSet(ids)
    BY <1>8, <2>1, FS_Subset DEF Ledger
  <2>4. Integral(Counts, ids) /\ \A j \in ids : Counts'[j] = Counts[j]
    BY <1>6, <1>8, <1>9, <2>1 DEF Integral, Counts, Ledger
  <2>5. SumFunctionOnSet(Counts', ids) = SumFunctionOnSet(Counts, ids)
    BY <2>3, <2>4, SumSame
  <2>. QED BY <2>2, <2>5 DEF Tokens
<1>12. total' = total - blocks[i].count
  <2>1. others \cup {i} = Tracked /\ Tracked' = others
    BY <1>6, <1>7, <1>9
  <2>2. Tokens(Tracked)' = Tokens(others)' /\ Tokens(Tracked) = Tokens(others \cup {i})
    BY <2>1 DEF Tokens
  <2>3. total \in Nat /\ total' \in Int /\ blocks[i].count \in Nat
    <3>1. total' \in 0..total
      BY <1>1, ReleaseMoves
    <3>. QED BY <1>7, <1>8, <3>1 DEF Ledger
  <2>. QED BY <1>6, <1>11, <2>2, <2>3
<1>13. Tokens(ToSet(pending))' = Tokens(rest)
  <2>1. Tokens(ToSet(pending))' = Tokens(rest)'
    BY <1>5 DEF Tokens
  <2>. QED BY <1>10, <1>11, <2>1
<1>14. Tokens(ToSet(pending)) = Tokens(rest) + blocks[i].count
  BY <1>4, <1>10, <1>11
<1>15. total' - Tokens(ToSet(pending))' = total - Tokens(ToSet(pending))
  <2>1. total \in Nat /\ blocks[i].count \in Nat /\ Tokens(rest) \in Nat
    BY <1>7, <1>8, <1>10, <1>11 DEF Ledger
  <2>. QED BY <1>12, <1>13, <1>14, <2>1
<1>16. Tracked' \ rest = Tracked \ ToSet(pending)
  BY <1>4, <1>6
<1>17. \A j \in Tracked' \ rest : blocks'[j] = blocks[j]
  BY <1>6
<1>. QED BY <1>4, <1>5, <1>6, <1>7, <1>15, <1>16, <1>17
     DEF StillEnough, Evictable, InSink, RecentFrom

LEMMA EnoughAtEnd ==
  ASSUME KVAssumption, IInv, NEW budget, StillEnough(budget), pending = << >>
  PROVE  \/ total <= budget
         \/ \A i \in Tracked : ~Evictable(blocks[i], budget)
<1>1. ToSet(pending) = {}
  BY DEF ToSet
<1>2. Tokens({}) = 0 /\ total \in Nat
  BY LedgerOfInv, TokensOfBlocks DEF Ledger
<1>. QED BY <1>1, <1>2 DEF StillEnough
-----------------------------------------------------------------------------
(* The ledger is well formed and no plan that tick() carries out names a      *)
(* block twice, for any number of blocks.                                   *)
THEOREM TypeCorrect == ASSUME KVAssumption PROVE Spec => []TypeOK
<1>1. IInv => TypeOK
  BY DEF IInv
<1>. QED BY Invariance, <1>1, PTL

(* Every plan that could be asked for takes the coldest evictable blocks,    *)
(* enough of them and none more, whatever order std::sort leaves ties in.    *)
THEOREM PlansAreAlwaysRight == ASSUME KVAssumption PROVE Spec => []PlansAreRight
<1>1. IInv => PlansAreRight
  <2>. SUFFICES ASSUME IInv, NEW budget \in Budgets, NEW plan \in Plans(budget)
                PROVE  PlanIsRight(plan, budget)
    BY DEF PlansAreRight
  <2>1. budget \in Nat
    BY DEF KVAssumption
  <2>. QED BY <2>1, LedgerOfInv, PlanProperties
<1>. QED BY Invariance, <1>1, PTL

(* Whatever else is called in between, only observing a tracked sequence     *)
(* again makes the total drift from the tokens tracked.                     *)
THEOREM OnlyUpdatesMakeDrift == ASSUME KVAssumption PROVE Spec => OnlyUpdatesDrift
<1>. DEFINE Drifts == total' - Tokens(Tracked)' # total - Tokens(Tracked)
            Cause == \/ \E b \in Blocks : b.id \in Tracked /\ Observe(b)
                     \/ total' = Tokens(Tracked)'
<1>1. IInv /\ [Next]_vars => [Drifts => Cause]_vars
  <2>. SUFFICES ASSUME IInv, Next, Drifts PROVE Cause
    OBVIOUS
  <2>1. Ledger
    BY LedgerOfInv
  <2>2. CASE \E b \in Blocks : Host(Observe(b))
    <3>1. PICK b \in Blocks : Observe(b)
      BY <2>2 DEF Host
    <3>2. CASE b.id \in Tracked
      BY <3>1, <3>2
    <3>3. CASE b.id \notin Tracked
      <4>1. total' = total + b.count /\ Tokens(Tracked)' = Tokens(Tracked \ {b.id}) + b.count
        BY <3>1, ObserveMoves
      <4>2. Tracked \ {b.id} = Tracked
        BY <3>3
      <4>3. Tokens(Tracked) \in Nat /\ total \in Nat /\ b.count \in Nat
        BY <2>1, TokensOfBlocks DEF KVAssumption, Ledger
      <4>. QED BY <4>1, <4>2, <4>3
    <3>. QED BY <3>2, <3>3
  <2>3. CASE \E i \in Ids : Host(Release(i))
    BY <2>3, ReleaseMoves DEF Host
  <2>4. CASE Host(Reset)
    BY <2>4, ResetMoves DEF Host
  <2>5. CASE \E budget \in Budgets : Plan(budget)
    <3>1. UNCHANGED <<blocks, total>>
      BY <2>5 DEF Plan
    <3>2. Tracked' = Tracked /\ Counts' = Counts
      BY <3>1 DEF Tracked, Counts
    <3>. QED BY <3>1, <3>2 DEF Tokens
  <2>6. CASE ReleaseNext
    BY <2>6, ReleaseMoves DEF ReleaseNext
  <2>. QED BY <2>2, <2>3, <2>4, <2>5, <2>6 DEF Next
<1>. QED BY Invariance, <1>1, PTL DEF Spec, OnlyUpdatesDrift

-----------------------------------------------------------------------------
(* Blocks that overlap nowhere have no more tokens than the context they     *)
(* reach into.                                                             *)
LEMMA TokensFitContext ==
  ASSUME Ledger, Apart, NEW n \in Nat,
         \A i \in Tracked : blocks[i].start + blocks[i].count <= n
  PROVE  Tokens(Tracked) <= n
<1>. DEFINE C(i) == Covered(blocks[i])
            U(ids) == UNION {C(i) : i \in ids}
            F == {ids \in SUBSET Tracked :
                    /\ IsFiniteSet(U(ids))
                    /\ Cardinality(U(ids)) = Tokens(ids)}
<1>1. {} \in F
  <2>1. U({}) = {} /\ Tokens({}) = 0
    BY TokensOfBlocks
  <2>. QED BY <2>1, FS_EmptySet
<1>2. ASSUME NEW ids \in SUBSET Tracked, NEW i \in Tracked, ids \in F, i \notin ids
      PROVE  ids \cup {i} \in F
  <2>1. U(ids \cup {i}) = U(ids) \cup C(i)
    OBVIOUS
  <2>2. U(ids) \cap C(i) = {}
    BY <1>2 DEF Apart
  <2>3. IsFiniteSet(C(i)) /\ Cardinality(C(i)) = blocks[i].count
    <3>1. PICK a, c : a = blocks[i].start /\ c = blocks[i].count /\ a \in Nat /\ c \in Nat
      BY DEF Ledger
    <3>2. IsFiniteSet(a..(a + c - 1))
          /\ Cardinality(a..(a + c - 1)) = IF a > a + c - 1 THEN 0 ELSE (a + c - 1) - a + 1
      <4>1. a \in Int /\ a + c - 1 \in Int
        BY <3>1
      <4>. QED BY <4>1, FS_Interval
    <3>. QED BY <3>1, <3>2 DEF Covered
  <2>4. IsFiniteSet(U(ids)) /\ Cardinality(U(ids)) = Tokens(ids)
    BY <1>2
  <2>5. Tokens(ids \cup {i}) = Tokens(ids) + blocks[i].count /\ Tokens(ids) \in Nat
    BY <1>2, TokensOfBlocks
  <2>6. IsFiniteSet(U(ids \cup {i}))
        /\ Cardinality(U(ids \cup {i})) = Tokens(ids \cup {i})
    <3>. HIDE DEF C, U, F
    <3>1. /\ IsFiniteSet(U(ids) \cup C(i))
          /\ Cardinality(U(ids) \cup C(i)) = Tokens(ids) + blocks[i].count - Cardinality({})
      BY <2>2, <2>3, <2>4, FS_Union
    <3>2. Cardinality({}) = 0 /\ blocks[i].count \in Nat
      BY FS_EmptySet DEF Ledger
    <3>3. Tokens(ids) + blocks[i].count - Cardinality({}) = Tokens(ids \cup {i})
      BY <2>5, <3>2
    <3>. QED BY <2>1, <3>1, <3>3, Zenon
  <2>. QED BY <2>6
<1>3. SUBSET Tracked \subseteq F
  <2>1. IsFiniteSet(Tracked)
    BY DEF Ledger
  <2>. HIDE DEF F
  <2>. QED BY <1>1, <1>2, <2>1, FiniteInductionOnSet
<1>4. Cardinality(U(Tracked)) = Tokens(Tracked)
  BY <1>3
<1>5. U(Tracked) \in SUBSET (0..(n - 1))
  BY DEF Ledger, Covered
<1>6. IsFiniteSet(0..(n - 1)) /\ Cardinality(0..(n - 1)) = n
  <2>1. IsFiniteSet(0..(n - 1))
        /\ Cardinality(0..(n - 1)) = IF 0 > n - 1 THEN 0 ELSE (n - 1) - 0 + 1
    <3>1. 0 \in Int /\ n - 1 \in Int
      OBVIOUS
    <3>. QED BY <3>1, FS_Interval
  <2>. QED BY <2>1
<1>. QED
  <2>. HIDE DEF U
  <2>. QED BY <1>4, <1>5, <1>6, FS_Subset

(* As long as the total is exact and no two blocks cover the same tokens, no  *)
(* plan for a budget with room for it takes from the recent window: if it     *)
(* does not wrap, tokens up to the budget less the window are further from    *)
(* the end than the window is long.                                         *)
THEOREM ExactTotalKeepsRecent == ASSUME KVAssumption PROVE Spec => []RecentKept
<1>1. IInv => RecentKept
  <2>. SUFFICES ASSUME IInv, total = Tokens(Tracked), Apart,
                       NEW budget \in Budgets, budget >= Recent,
                       NEW plan \in Plans(budget), NEW i \in ToSet(plan)
                PROVE  ~InRecent(blocks[i])
    BY DEF RecentKept, RecentAlwaysKept, KeepsRecent
  <2>1. Ledger /\ budget \in Nat /\ Recent \in Nat
    BY LedgerOfInv DEF KVAssumption
  <2>2. PlanIsRight(plan, budget)
    BY <2>1, PlanProperties
  <2>3. i \in Tracked /\ Evictable(blocks[i], budget)
    BY <2>2 DEF PlanIsRight
  <2>4. total > budget
    <3>1. CASE total <= budget
      <4>1. plan = << >>
        BY <3>1 DEF Plans
      <4>. QED BY <4>1 DEF ToSet
    <3>. QED BY <2>1, <3>1 DEF Ledger
  <2>. DEFINE Ends == {blocks[j].start + blocks[j].count : j \in Tracked} \cup {0}
  <2>5. LastToken \in Nat /\ \A e \in Ends : e <= LastToken
    <3>1. Ends \in SUBSET Int /\ Ends # {} /\ \A e \in Ends : e \in Nat
      BY <2>1 DEF Ledger
    <3>2. IsFiniteSet(Ends)
      <4>1. IsFiniteSet(Tracked)
        BY <2>1 DEF Ledger
      <4>2. PICK f : f = [j \in Tracked |-> blocks[j].start + blocks[j].count]
        OBVIOUS
      <4>3. PICK E : E = {blocks[j].start + blocks[j].count : j \in Tracked}
        OBVIOUS
      <4>4. f \in Surjection(Tracked, E)
        BY <4>2, <4>3 DEF Surjection
      <4>5. IsFiniteSet(E)
        BY <4>1, <4>4, FS_Surjection
      <4>6. IsFiniteSet(E \cup {0})
        BY <4>5, FS_AddElement
      <4>. QED BY <4>3, <4>6
    <3>3. LastToken = Max(Ends)
      BY DEF LastToken
    <3>. HIDE DEF Ends
    <3>. QED BY <3>1, <3>2, <3>3, MaxOfFinite
  <2>6. Tokens(Tracked) <= LastToken
    <3>1. \A j \in Tracked : blocks[j].start + blocks[j].count <= LastToken
      BY <2>5
    <3>. HIDE DEF Ends
    <3>. QED BY <2>1, <2>5, <3>1, TokensFitContext
  <2>. HIDE DEF Ends
  <2>7. blocks[i].start + blocks[i].count \in Nat
        /\ blocks[i].start + blocks[i].count < Word32
    BY <2>1, <2>3 DEF Ledger, Apart
  <2>8. (blocks[i].start + blocks[i].count) % Word32 = blocks[i].start + blocks[i].count
    BY <2>7, ModSmall DEF KVAssumption
  <2>9. (budget - Recent) % Word64 = budget - Recent
    <3>1. budget - Recent \in Nat /\ budget - Recent < Word64
      BY <2>1, <2>4 DEF KVAssumption, IInv, TypeOK
    <3>. QED BY <3>1, ModSmall DEF KVAssumption
  <2>10. blocks[i].start + blocks[i].count <= budget - Recent
    BY <2>3, <2>8, <2>9 DEF Evictable, RecentFrom
  <2>. QED BY <2>1, <2>4, <2>5, <2>6, <2>7, <2>10 DEF InRecent, Ledger
<1>. QED BY Invariance, <1>1, PTL
=============================================================================
