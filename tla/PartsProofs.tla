----------------------------- MODULE PartsProofs -----------------------------
(***************************************************************************)
(* What the parts of the core promise, each by itself.  The register of     *)
(* models and the swapper's task, for any models of any sizes, any          *)
(* priorities and budgets: what an eviction list is, and that a task nobody *)
(* disturbs fits.  The power policy, for any devices, thresholds and        *)
(* capacities.  The KV manager, as KVCacheManagerProofs has it.  The         *)
(* telemetry, for any samples, tick() reading the counters while the host   *)
(* goes on.  The predictors, for any events, windows and tables of exp():    *)
(* what they hold is what the log says, and what they answer follows.       *)
(***************************************************************************)
EXTENDS Parts, CollectionProofs

(* The register and the swapper's task. *)
Slots ==
  [bytes : Nat, resident : BOOLEAN, used : Int, priority : Int]

Register ==
  /\ DOMAIN slots \subseteq Models
  /\ IsFiniteSet(DOMAIN slots)
  /\ \A id \in DOMAIN slots : slots[id] \in Slots

LEMMA BytesOfModels ==
  ASSUME SwapAssumption, Register, NEW ids \in SUBSET DOMAIN slots
  PROVE  /\ IsFiniteSet(ids)
         /\ SumFunctionOnSet(Bytes, ids) \in Nat
         /\ BytesIn(ids) \in 0..(Word64 - 1)
         /\ BytesIn({}) = 0
         /\ \A id \in DOMAIN slots \ ids :
               BytesIn(ids \cup {id}) = (BytesIn(ids) + slots[id].bytes) % Word64
         /\ \A id \in ids :
               BytesIn(ids \ {id}) = (BytesIn(ids) - slots[id].bytes) % Word64
<1>1. IsFiniteSet(ids) /\ Word64 \in Nat \ {0}
  BY FS_Subset DEF Register, SwapAssumption
<1>2. \A id \in DOMAIN slots : Bytes[id] = slots[id].bytes /\ Bytes[id] \in Nat
  BY DEF Bytes, Register, Slots
<1>3. SumFunctionOnSet(Bytes, ids) \in Nat
  <2>1. \A id \in ids : Bytes[id] \in Nat
    BY <1>2
  <2>. QED BY <1>1, <2>1, SumMonotone
<1>4. ASSUME NEW id \in DOMAIN slots \ ids
      PROVE  BytesIn(ids \cup {id}) = (BytesIn(ids) + slots[id].bytes) % Word64
  <2>1. Integral(Bytes, ids \cup {id})
    BY <1>2 DEF Integral
  <2>2. SumFunctionOnSet(Bytes, ids \cup {id}) = SumFunctionOnSet(Bytes, ids) + Bytes[id]
    BY <1>1, <2>1, SumAdd
  <2>3. PICK x, b : x = SumFunctionOnSet(Bytes, ids) /\ b = slots[id].bytes
    OBVIOUS
  <2>4. x \in Int /\ b \in Int
    BY <1>2, <1>3, <2>3
  <2>5. ((x % Word64) + b) % Word64 = (x + b) % Word64
    BY <1>1, <2>4, ModOfMod
  <2>. QED BY <1>2, <2>2, <2>3, <2>5 DEF BytesIn
<1>5. ASSUME NEW id \in ids
      PROVE  BytesIn(ids \ {id}) = (BytesIn(ids) - slots[id].bytes) % Word64
  <2>1. Integral(Bytes, ids)
    BY <1>2 DEF Integral
  <2>2. SumFunctionOnSet(Bytes, ids) = SumFunctionOnSet(Bytes, ids \ {id}) + Bytes[id]
        /\ SumFunctionOnSet(Bytes, ids \ {id}) \in Int
    BY <1>1, <2>1, SumRemove
  <2>3. SumFunctionOnSet(Bytes, ids \ {id}) = SumFunctionOnSet(Bytes, ids) - slots[id].bytes
        /\ slots[id].bytes \in Int
    BY <1>2, <1>3, <2>2
  <2>4. PICK x, b : x = SumFunctionOnSet(Bytes, ids) /\ b = slots[id].bytes
    OBVIOUS
  <2>5. x \in Int /\ b \in Int
    BY <1>3, <2>3, <2>4
  <2>6. ((x % Word64) - b) % Word64 = (x - b) % Word64
    BY <1>1, <2>5, ModOfMod
  <2>. QED BY <2>3, <2>4, <2>6 DEF BytesIn
<1>6. BytesIn({}) = 0 /\ BytesIn(ids) \in 0..(Word64 - 1)
  BY <1>1, <1>3, SumEmpty DEF BytesIn
<1>. QED BY <1>1, <1>3, <1>4, <1>5, <1>6

-----------------------------------------------------------------------------
(* The loop of plan_evictions(), turn by turn.                              *)
TakeState == [ids : Seq(Resident), total : Int]
TakeStart == [ids |-> << >>, total |-> BytesIn(Resident)]
TakeNext(acc, id, budget) ==
  IF acc.total <= budget THEN acc
  ELSE [ids |-> Append(acc.ids, id),
        total |-> (acc.total - slots[id].bytes) % Word64]

IsTakeLoop(f, n, order, budget) ==
  f = [s \in SUBSET (1..n) |->
         IF s = {} THEN TakeStart
         ELSE TakeNext(f[s \ {Max(s)}], order[Max(s)], budget)]

LEMMA TakeLoopExists ==
  ASSUME SwapAssumption, Register, NEW n \in Nat,
         NEW order \in [1..n -> Resident], NEW budget \in Nat
  PROVE  \E f : IsTakeLoop(f, n, order, budget)
<1>. DEFINE G == [k \in 1..n |-> [acc \in TakeState |-> TakeNext(acc, order[k], budget)]]
<1>1. \A acc \in TakeState, id \in Resident : TakeNext(acc, id, budget) \in TakeState
  BY DEF TakeState, TakeNext, SwapAssumption, Register, Slots, Resident
<1>2. G \in [1..n -> [TakeState -> TakeState]]
  BY <1>1
<1>3. TakeStart \in TakeState
  <2>1. Resident \in SUBSET DOMAIN slots
    BY DEF Resident
  <2>2. BytesIn(Resident) \in Int
    BY <2>1, BytesOfModels
  <2>. QED BY <2>2 DEF TakeStart, TakeState
<1>4. PICK f \in [SUBSET (1..n) -> TakeState] : FoldUp(f, n, TakeStart, G)
  <2>. HIDE DEF G
  <2>. QED BY <1>2, <1>3, FoldUpExists
<1>5. ASSUME NEW s \in SUBSET (1..n), s # {}
      PROVE  f[s] = TakeNext(f[s \ {Max(s)}], order[Max(s)], budget)
  <2>1. Max(s) \in 1..n
    BY <1>5, MaxOfPositions
  <2>2. f[s] = G[Max(s)][f[s \ {Max(s)}]]
    BY <1>4, <1>5 DEF FoldUp
  <2>3. f[s \ {Max(s)}] \in TakeState
    BY <1>4
  <2>. QED BY <2>1, <2>2, <2>3
<1>6. f[{}] = TakeStart
  BY <1>4 DEF FoldUp
<1>7. IsTakeLoop(f, n, order, budget)
  BY <1>4, <1>5, <1>6 DEF IsTakeLoop
<1>. QED BY <1>7

(* R[k] is the state of the loop after the first k models of the order.      *)
IsTakeRun(R, n, order, budget) ==
  /\ R[0] = TakeStart
  /\ \A k \in 1..n : R[k] = TakeNext(R[k - 1], order[k], budget)

LEMMA TakenIsRun ==
  ASSUME SwapAssumption, Register, NEW n \in Nat,
         NEW order \in [1..n -> Resident], NEW budget \in Nat
  PROVE  \E R : IsTakeRun(R, n, order, budget) /\ Taken(order, budget) = R[n].ids
<1>. DEFINE f == CHOOSE f : IsTakeLoop(f, n, order, budget)
            R == [k \in 0..n |-> f[1..k]]
<1>1. Taken(order, budget) = f[1..n].ids
  BY DOMAIN order = 1..n
     DEF Taken, FoldLeft, MapThenFoldSet, IsTakeLoop, TakeStart, TakeNext
<1>2. IsTakeLoop(f, n, order, budget)
  BY TakeLoopExists
<1>. HIDE DEF f
<1>3. f[{}] = TakeStart
  BY <1>2 DEF IsTakeLoop
<1>4. ASSUME NEW k \in 1..n
      PROVE  f[1..k] = TakeNext(f[1..(k - 1)], order[k], budget)
  <2>1. 1..k # {} /\ Max(1..k) = k /\ (1..k) \ {k} = 1..(k - 1)
    <3>1. k \in Nat /\ k # 0
      OBVIOUS
    <3>. QED BY <3>1, MaxOfPrefix
  <2>2. 1..k \in SUBSET (1..n)
    OBVIOUS
  <2>. QED BY <1>2, <2>1, <2>2 DEF IsTakeLoop
<1>5. IsTakeRun(R, n, order, budget)
  <2>1. 1..0 = {}
    OBVIOUS
  <2>2. R[0] = TakeStart
    BY <1>3, <2>1
  <2>3. ASSUME NEW k \in 1..n PROVE R[k] = TakeNext(R[k - 1], order[k], budget)
    <3>1. R[k] = f[1..k] /\ R[k - 1] = f[1..(k - 1)]
      OBVIOUS
    <3>. HIDE DEF R
    <3>. QED BY <1>4, <3>1
  <2>. HIDE DEF R
  <2>. QED BY <2>2, <2>3 DEF IsTakeRun
<1>6. R[n].ids = Taken(order, budget)
  BY <1>1
<1>. HIDE DEF R
<1>. QED BY <1>5, <1>6

(* The invariant of the loop: what was taken is the first models of the      *)
(* order; the total is that of the rest; and the last one taken had to go.   *)
TakeInv(acc, order, k, budget) ==
  /\ acc.ids \in Seq(Resident) /\ IsInjective(acc.ids)
  /\ acc.total = BytesIn(Resident \ ToSet(acc.ids))
  /\ \E p \in 0..k : /\ ToSet(acc.ids) = {order[m] : m \in 1..p}
                     /\ p = k \/ acc.total <= budget
  /\ acc.ids # << >> => BytesIn(Resident \ ToSet(Front(acc.ids))) > budget

IsOrder(order, n) ==
  /\ order \in [1..n -> Resident]
  /\ \A i, j \in 1..n : order[i] = order[j] => i = j

LEMMA TakeKeepsInv ==
  ASSUME SwapAssumption, Register, NEW n \in Nat, NEW order, IsOrder(order, n),
         NEW budget \in Nat, NEW k \in 1..n, NEW acc, TakeInv(acc, order, k - 1, budget)
  PROVE  TakeInv(TakeNext(acc, order[k], budget), order, k, budget)
<1>. DEFINE id == order[k]
            nxt == TakeNext(acc, id, budget)
<1>1. /\ acc.ids \in Seq(Resident) /\ IsInjective(acc.ids)
      /\ acc.total = BytesIn(Resident \ ToSet(acc.ids))
      /\ acc.ids # << >> => BytesIn(Resident \ ToSet(Front(acc.ids))) > budget
  BY DEF TakeInv
<1>2. PICK p \in 0..(k - 1) :
        /\ ToSet(acc.ids) = {order[m] : m \in 1..p}
        /\ p = k - 1 \/ acc.total <= budget
  BY DEF TakeInv
<1>3. CASE acc.total <= budget
  <2>1. nxt = acc
    BY <1>3 DEF TakeNext
  <2>2. p \in 0..k
    OBVIOUS
  <2>. HIDE DEF nxt
  <2>. QED BY <1>1, <1>2, <1>3, <2>1, <2>2 DEF TakeInv, nxt
<1>4. CASE ~(acc.total <= budget)
  <2>1. nxt.ids = Append(acc.ids, id) /\ nxt.total = (acc.total - slots[id].bytes) % Word64
    BY <1>4 DEF TakeNext
  <2>2. p = k - 1
    BY <1>2, <1>4
  <2>3. id \in Resident /\ id \notin ToSet(acc.ids)
    BY <1>2 DEF IsOrder
  <2>4. /\ nxt.ids \in Seq(Resident) /\ IsInjective(nxt.ids)
        /\ ToSet(nxt.ids) = ToSet(acc.ids) \cup {id}
        /\ Front(nxt.ids) = acc.ids
    BY <1>1, <2>1, <2>3, AppendFresh
  <2>5. PICK rest : rest = Resident \ ToSet(acc.ids)
    OBVIOUS
  <2>6. rest \in SUBSET DOMAIN slots /\ id \in rest
    BY <2>3, <2>5 DEF Resident
  <2>7. /\ BytesIn(rest \ {id}) = (BytesIn(rest) - slots[id].bytes) % Word64
        /\ BytesIn(rest) \in Int
    BY <2>6, BytesOfModels DEF SwapAssumption
  <2>8. Resident \ ToSet(nxt.ids) = rest \ {id}
    BY <2>4, <2>5
  <2>9. nxt.total = BytesIn(Resident \ ToSet(nxt.ids))
    BY <1>1, <2>1, <2>5, <2>7, <2>8
  <2>10. ToSet(nxt.ids) = {order[m] : m \in 1..k}
    <3>1. 1..k = (1..(k - 1)) \cup {k}
      OBVIOUS
    <3>. QED BY <1>2, <2>2, <2>4, <3>1
  <2>11. BytesIn(Resident \ ToSet(Front(nxt.ids))) > budget
    BY <1>1, <1>4, <2>4, <2>5, <2>7
  <2>12. k \in 0..k
    OBVIOUS
  <2>. HIDE DEF nxt
  <2>. QED BY <2>4, <2>9, <2>10, <2>11, <2>12 DEF TakeInv, nxt
<1>. QED BY <1>3, <1>4

LEMMA TakenAtEnd ==
  ASSUME SwapAssumption, Register, NEW n \in Nat, NEW order, IsOrder(order, n),
         NEW budget \in Nat
  PROVE  \E acc : Taken(order, budget) = acc.ids /\ TakeInv(acc, order, n, budget)
<1>1. order \in [1..n -> Resident]
  BY DEF IsOrder
<1>2. PICK R : IsTakeRun(R, n, order, budget) /\ Taken(order, budget) = R[n].ids
  BY <1>1, TakenIsRun
<1>. DEFINE N == {k \in Nat : k <= n => TakeInv(R[k], order, k, budget)}
<1>3. TakeInv(TakeStart, order, 0, budget)
  <2>1. TakeStart.ids = << >> /\ TakeStart.total = BytesIn(Resident)
    BY DEF TakeStart
  <2>2. ToSet(<< >>) = {} /\ IsInjective(<< >>) /\ << >> \in Seq(Resident)
    BY DEF ToSet, IsInjective
  <2>3. Resident \ {} = Resident /\ 0 \in 0..0 /\ {order[m] : m \in 1..0} = {}
    OBVIOUS
  <2>. QED BY <2>1, <2>2, <2>3 DEF TakeInv
<1>4. 0 \in N
  BY <1>2, <1>3 DEF IsTakeRun
<1>5. ASSUME NEW k \in N \cap Nat PROVE k + 1 \in N
  <2>1. ASSUME k + 1 <= n PROVE TakeInv(R[k + 1], order, k + 1, budget)
    <3>1. k + 1 \in 1..n /\ (k + 1) - 1 = k /\ k <= n
      BY <2>1
    <3>2. R[k + 1] = TakeNext(R[k], order[k + 1], budget)
      BY <1>2, <3>1 DEF IsTakeRun
    <3>3. TakeInv(R[k], order, (k + 1) - 1, budget)
      BY <3>1
    <3>. HIDE DEF N
    <3>4. TakeInv(TakeNext(R[k], order[k + 1], budget), order, k + 1, budget)
      BY <3>1, <3>3, TakeKeepsInv
    <3>. QED BY <3>2, <3>4
  <2>. QED BY <2>1
<1>6. Nat \subseteq N
  <2>. HIDE DEF N
  <2>. QED BY <1>4, <1>5, NatInductionOnSet
<1>7. TakeInv(R[n], order, n, budget)
  BY <1>6
<1>. QED BY <1>2, <1>7

(* What an eviction plan is: EvictionsAreRight, of one plan.                 *)
EvictionIsRight(list, budget) ==
  LET kept == Resident \ ToSet(list)
  IN  /\ \A i \in kept, j \in ToSet(list) :
           \/ slots[i].priority > slots[j].priority
           \/ /\ slots[i].priority = slots[j].priority
              /\ slots[i].used >= slots[j].used
      /\ BytesIn(kept) <= budget
      /\ list # << >> => BytesIn(kept \cup {Last(list)}) > budget

LEMMA EvictionPlanProperties ==
  ASSUME SwapAssumption, Register, NEW budget \in Nat, NEW list \in EvictionPlans(budget)
  PROVE  /\ list \in Seq(Resident) /\ IsInjective(list)
         /\ EvictionIsRight(list, budget)
<1>1. PICK order \in Sorted : list = Taken(order, budget)
  BY DEF EvictionPlans
<1>. DEFINE n == Cardinality(Resident)
<1>2. IsFiniteSet(Resident) /\ Resident \in SUBSET DOMAIN slots
  BY FS_Subset DEF Register, Resident
<1>3. /\ n \in Nat /\ IsOrder(order, n)
      /\ \A i \in Resident : \E k \in 1..n : order[k] = i
  <2>1. order \in SetToSeqs(Resident)
    BY DEF Sorted
  <2>. QED BY <1>2, <2>1, OrderProperties DEF IsOrder
<1>4. \A i, j \in 1..n : i < j => ~Colder(order[j], order[i])
  <2>1. DOMAIN order = 1..n
    BY <1>3 DEF IsOrder
  <2>. QED BY <2>1 DEF Sorted
<1>. HIDE DEF n
<1>5. PICK acc : list = acc.ids /\ TakeInv(acc, order, n, budget)
  BY <1>1, <1>3, TakenAtEnd
<1>6. list \in Seq(Resident) /\ IsInjective(list)
  BY <1>5 DEF TakeInv
<1>7. PICK p \in 0..n :
        /\ ToSet(list) = {order[m] : m \in 1..p}
        /\ p = n \/ BytesIn(Resident \ ToSet(list)) <= budget
  BY <1>5 DEF TakeInv
<1>8. list # << >> => BytesIn(Resident \ ToSet(Front(list))) > budget
  BY <1>5 DEF TakeInv
<1>9. BytesIn(Resident \ ToSet(list)) <= budget
  <2>1. CASE p = n
    <3>1. Resident \ ToSet(list) = {}
      BY <1>3, <1>7, <2>1
    <3>2. BytesIn({}) = 0
      BY BytesOfModels
    <3>. QED BY <3>1, <3>2
  <2>. QED BY <1>7, <2>1
<1>10. ASSUME NEW i \in Resident \ ToSet(list), NEW j \in ToSet(list)
       PROVE  \/ slots[i].priority > slots[j].priority
              \/ /\ slots[i].priority = slots[j].priority
                 /\ slots[i].used >= slots[j].used
  <2>1. PICK a \in 1..p : order[a] = j
    BY <1>7
  <2>2. PICK b \in 1..n : order[b] = i
    BY <1>3
  <2>3. ~(b \in 1..p)
    BY <1>7, <1>10, <2>2
  <2>4. a \in 1..n /\ a < b
    BY <1>3, <2>3
  <2>5. ~Colder(i, j)
    BY <1>4, <2>1, <2>2, <2>4
  <2>6. j \in DOMAIN slots /\ i \in DOMAIN slots
    BY <1>2, <1>3, <2>1, <2>2, <2>4 DEF IsOrder
  <2>. QED BY <2>5, <2>6 DEF Colder, Register, Slots
<1>11. ASSUME list # << >>
       PROVE  BytesIn((Resident \ ToSet(list)) \cup {Last(list)}) > budget
  <2>1. /\ Last(list) \in ToSet(list)
        /\ ToSet(list) = ToSet(Front(list)) \cup {Last(list)}
    BY <1>6, <1>11, FrontProperties
  <2>2. Last(list) \notin ToSet(Front(list))
    BY <1>6, <1>11, FrontProperties
  <2>3. ToSet(list) \subseteq Resident
    BY <1>6, KeysOfList
  <2>4. (Resident \ ToSet(list)) \cup {Last(list)} = Resident \ ToSet(Front(list))
    BY <2>1, <2>2, <2>3
  <2>. QED BY <1>8, <1>11, <2>4
<1>. QED BY <1>6, <1>9, <1>10, <1>11 DEF EvictionIsRight

-----------------------------------------------------------------------------
(* The loop of plan_preloads(), turn by turn.                               *)
Unloaded == DOMAIN slots \ Resident
ChooseState == [ids : Seq(Unloaded), total : Int, done : BOOLEAN]
ChooseStart == [ids |-> << >>, total |-> BytesIn(Resident), done |-> FALSE]
ChooseNext(acc, id, budget) ==
  IF acc.done \/ id \notin DOMAIN slots \/ id \in Resident THEN acc
  ELSE IF (acc.total + slots[id].bytes) % Word64 > budget
       THEN [acc EXCEPT !.done = TRUE]
       ELSE [acc EXCEPT !.ids = Append(@, id),
                        !.total = (@ + slots[id].bytes) % Word64]

IsChooseLoop(f, n, predicted, budget) ==
  f = [s \in SUBSET (1..n) |->
         IF s = {} THEN ChooseStart
         ELSE ChooseNext(f[s \ {Max(s)}], predicted[Max(s)], budget)]

LEMMA ChooseNextType ==
  ASSUME SwapAssumption, Register, NEW acc \in ChooseState, NEW id, NEW budget
  PROVE  ChooseNext(acc, id, budget) \in ChooseState
<1>1. CASE acc.done \/ id \notin DOMAIN slots \/ id \in Resident
  BY <1>1 DEF ChooseNext
<1>2. CASE ~(acc.done \/ id \notin DOMAIN slots \/ id \in Resident)
  <2>1. id \in Unloaded /\ slots[id].bytes \in Nat
    BY <1>2 DEF Unloaded, Register, Slots
  <2>2. Append(acc.ids, id) \in Seq(Unloaded)
    BY <2>1 DEF ChooseState
  <2>3. (acc.total + slots[id].bytes) % Word64 \in Int
    BY <2>1 DEF ChooseState, SwapAssumption
  <2>. QED BY <1>2, <2>2, <2>3 DEF ChooseNext, ChooseState
<1>. QED BY <1>1, <1>2

LEMMA ChooseLoopExists ==
  ASSUME SwapAssumption, Register, NEW n \in Nat,
         NEW predicted \in [1..n -> Models], NEW budget \in Nat
  PROVE  \E f : IsChooseLoop(f, n, predicted, budget)
<1>. DEFINE G == [k \in 1..n |->
                    [acc \in ChooseState |-> ChooseNext(acc, predicted[k], budget)]]
<1>2. G \in [1..n -> [ChooseState -> ChooseState]]
  BY ChooseNextType
<1>3. ChooseStart \in ChooseState
  <2>1. Resident \in SUBSET DOMAIN slots
    BY DEF Resident
  <2>2. BytesIn(Resident) \in Int
    BY <2>1, BytesOfModels
  <2>. QED BY <2>2 DEF ChooseStart, ChooseState
<1>4. PICK f \in [SUBSET (1..n) -> ChooseState] : FoldUp(f, n, ChooseStart, G)
  <2>. HIDE DEF G
  <2>. QED BY <1>2, <1>3, FoldUpExists
<1>5. ASSUME NEW s \in SUBSET (1..n), s # {}
      PROVE  f[s] = ChooseNext(f[s \ {Max(s)}], predicted[Max(s)], budget)
  <2>1. Max(s) \in 1..n
    BY <1>5, MaxOfPositions
  <2>2. f[s] = G[Max(s)][f[s \ {Max(s)}]]
    BY <1>4, <1>5 DEF FoldUp
  <2>3. f[s \ {Max(s)}] \in ChooseState
    BY <1>4
  <2>. QED BY <2>1, <2>2, <2>3
<1>6. f[{}] = ChooseStart
  BY <1>4 DEF FoldUp
<1>7. IsChooseLoop(f, n, predicted, budget)
  BY <1>4, <1>5, <1>6 DEF IsChooseLoop
<1>. QED BY <1>7

IsChooseRun(R, n, predicted, budget) ==
  /\ R[0] = ChooseStart
  /\ \A k \in 1..n : R[k] = ChooseNext(R[k - 1], predicted[k], budget)

LEMMA ChosenIsRun ==
  ASSUME SwapAssumption, Register, NEW n \in Nat,
         NEW predicted \in [1..n -> Models], NEW budget \in Nat
  PROVE  \E R : IsChooseRun(R, n, predicted, budget) /\ Chosen(predicted, budget) = R[n].ids
<1>. DEFINE f == CHOOSE f : IsChooseLoop(f, n, predicted, budget)
            R == [k \in 0..n |-> f[1..k]]
<1>1. Chosen(predicted, budget) = f[1..n].ids
  BY DOMAIN predicted = 1..n
     DEF Chosen, FoldLeft, MapThenFoldSet, IsChooseLoop, ChooseStart, ChooseNext
<1>2. IsChooseLoop(f, n, predicted, budget)
  BY ChooseLoopExists
<1>. HIDE DEF f
<1>3. f[{}] = ChooseStart
  BY <1>2 DEF IsChooseLoop
<1>4. ASSUME NEW k \in 1..n
      PROVE  f[1..k] = ChooseNext(f[1..(k - 1)], predicted[k], budget)
  <2>1. 1..k # {} /\ Max(1..k) = k /\ (1..k) \ {k} = 1..(k - 1)
    <3>1. k \in Nat /\ k # 0
      OBVIOUS
    <3>. QED BY <3>1, MaxOfPrefix
  <2>2. 1..k \in SUBSET (1..n)
    OBVIOUS
  <2>. QED BY <1>2, <2>1, <2>2 DEF IsChooseLoop
<1>5. IsChooseRun(R, n, predicted, budget)
  <2>1. 1..0 = {}
    OBVIOUS
  <2>2. R[0] = ChooseStart
    BY <1>3, <2>1
  <2>3. ASSUME NEW k \in 1..n PROVE R[k] = ChooseNext(R[k - 1], predicted[k], budget)
    <3>1. R[k] = f[1..k] /\ R[k - 1] = f[1..(k - 1)]
      OBVIOUS
    <3>. HIDE DEF R
    <3>. QED BY <1>4, <3>1
  <2>. HIDE DEF R
  <2>. QED BY <2>2, <2>3 DEF IsChooseRun
<1>6. R[n].ids = Chosen(predicted, budget)
  BY <1>1
<1>. HIDE DEF R
<1>. QED BY <1>5, <1>6

(* Loaded one by one, each model of a list fits.                             *)
Fits(ids, budget) ==
  \A p \in 1..Len(ids) : BytesIn(Resident \cup {ids[q] : q \in 1..p}) <= budget

ChooseInv(acc, predicted, k, budget) ==
  /\ acc.ids \in Seq(Unloaded) /\ IsInjective(acc.ids)
  /\ ToSet(acc.ids) \subseteq {predicted[m] : m \in 1..k}
  /\ acc.total = BytesIn(Resident \cup ToSet(acc.ids))
  /\ Fits(acc.ids, budget)

LEMMA ChooseKeepsInv ==
  ASSUME SwapAssumption, Register, NEW n \in Nat, NEW predicted \in [1..n -> Models],
         \A i, j \in 1..n : predicted[i] = predicted[j] => i = j,
         NEW budget \in Nat, NEW k \in 1..n, NEW acc, ChooseInv(acc, predicted, k - 1, budget)
  PROVE  ChooseInv(ChooseNext(acc, predicted[k], budget), predicted, k, budget)
<1>. DEFINE id == predicted[k]
            nxt == ChooseNext(acc, id, budget)
            Past(j) == {predicted[m] : m \in 1..j}
<1>1. /\ acc.ids \in Seq(Unloaded) /\ IsInjective(acc.ids)
      /\ ToSet(acc.ids) \subseteq Past(k - 1)
      /\ acc.total = BytesIn(Resident \cup ToSet(acc.ids))
      /\ Fits(acc.ids, budget)
  BY DEF ChooseInv
<1>2. Past(k) = Past(k - 1) \cup {id} /\ id \notin Past(k - 1)
  <2>1. 1..k = (1..(k - 1)) \cup {k} /\ k \notin 1..(k - 1)
    OBVIOUS
  <2>. QED BY <2>1
<1>. HIDE DEF Past
<1>3. CASE acc.done \/ id \notin DOMAIN slots \/ id \in Resident
  <2>1. nxt = acc
    BY <1>3 DEF ChooseNext
  <2>. QED BY <1>1, <1>2, <2>1 DEF ChooseInv, Past
<1>4. CASE /\ ~(acc.done \/ id \notin DOMAIN slots \/ id \in Resident)
           /\ (acc.total + slots[id].bytes) % Word64 > budget
  <2>1. nxt.ids = acc.ids /\ nxt.total = acc.total
    <3>1. nxt = [acc EXCEPT !.done = TRUE]
      BY <1>4 DEF ChooseNext
    <3>. QED BY <3>1
  <2>. QED BY <1>1, <1>2, <2>1 DEF ChooseInv, Past
<1>5. CASE /\ ~(acc.done \/ id \notin DOMAIN slots \/ id \in Resident)
           /\ ~((acc.total + slots[id].bytes) % Word64 > budget)
  <2>1. /\ nxt.ids = Append(acc.ids, id)
        /\ nxt.total = (acc.total + slots[id].bytes) % Word64
    <3>1. nxt = [acc EXCEPT !.ids = Append(@, id), !.total = (@ + slots[id].bytes) % Word64]
      BY <1>5 DEF ChooseNext
    <3>. QED BY <3>1
  <2>. HIDE DEF nxt
  <2>2. id \in Unloaded /\ id \notin ToSet(acc.ids)
    BY <1>1, <1>2, <1>5 DEF Unloaded
  <2>3. /\ nxt.ids \in Seq(Unloaded) /\ IsInjective(nxt.ids)
        /\ ToSet(nxt.ids) = ToSet(acc.ids) \cup {id}
    BY <1>1, <2>1, <2>2, AppendFresh
  <2>4. PICK all : all = Resident \cup ToSet(acc.ids)
    OBVIOUS
  <2>5. ToSet(acc.ids) \subseteq Unloaded
    BY <1>1, KeysOfList
  <2>6. all \in SUBSET DOMAIN slots /\ id \in DOMAIN slots \ all
    BY <2>2, <2>4, <2>5 DEF Resident, Unloaded
  <2>7. BytesIn(all \cup {id}) = (BytesIn(all) + slots[id].bytes) % Word64
    BY <2>6, BytesOfModels
  <2>8. Resident \cup ToSet(nxt.ids) = all \cup {id}
    BY <2>3, <2>4
  <2>9. nxt.total = BytesIn(Resident \cup ToSet(nxt.ids))
        /\ BytesIn(Resident \cup ToSet(nxt.ids)) <= budget
    <3>1. (acc.total + slots[id].bytes) % Word64 \in Int
      <4>1. BytesIn(all) \in Int
        BY <2>6, BytesOfModels DEF SwapAssumption
      <4>2. slots[id].bytes \in Int
        BY <2>6 DEF Register, Slots
      <4>. QED BY <1>1, <2>4, <4>1, <4>2 DEF SwapAssumption
    <3>2. (acc.total + slots[id].bytes) % Word64 <= budget
      BY <1>5, <3>1
    <3>. QED BY <1>1, <2>1, <2>4, <2>7, <2>8, <3>2
  <2>10. Fits(nxt.ids, budget)
    <3>1. /\ Len(nxt.ids) = Len(acc.ids) + 1 /\ Len(acc.ids) \in Nat
          /\ \A i \in 1..Len(acc.ids) : nxt.ids[i] = acc.ids[i]
          /\ DOMAIN nxt.ids = 1..Len(nxt.ids)
      BY <1>1, <2>1, <2>2, <2>3, AppendProperties, LenProperties
    <3>2. ASSUME NEW p \in 1..Len(nxt.ids)
          PROVE  BytesIn(Resident \cup {nxt.ids[q] : q \in 1..p}) <= budget
      <4>1. CASE p = Len(nxt.ids)
        <5>1. {nxt.ids[q] : q \in 1..p} = ToSet(nxt.ids)
          BY <3>1, <4>1 DEF ToSet
        <5>. QED BY <2>9, <5>1
      <4>2. CASE p # Len(nxt.ids)
        <5>1. p \in 1..Len(acc.ids)
          BY <3>1, <4>2
        <5>2. \A q \in 1..p : nxt.ids[q] = acc.ids[q]
          BY <3>1, <5>1
        <5>3. {nxt.ids[q] : q \in 1..p} = {acc.ids[q] : q \in 1..p}
          BY <5>2
        <5>4. BytesIn(Resident \cup {acc.ids[q] : q \in 1..p}) <= budget
          BY <1>1, <5>1 DEF Fits
        <5>. QED BY <5>3, <5>4
      <4>. QED BY <4>1, <4>2
    <3>. QED BY <3>2 DEF Fits
  <2>11. ToSet(nxt.ids) \subseteq Past(k)
    BY <1>1, <1>2, <2>3
  <2>. QED BY <2>3, <2>9, <2>10, <2>11 DEF ChooseInv, Past, nxt
<1>. QED BY <1>3, <1>4, <1>5

LEMMA ChosenProperties ==
  ASSUME SwapAssumption, Register, NEW s \in SUBSET Models,
         NEW predicted \in SetToSeqs(s), NEW budget \in Nat
  PROVE  LET ids == Chosen(predicted, budget)
         IN  /\ ids \in Seq(Unloaded) /\ IsInjective(ids)
             /\ Fits(ids, budget)
<1>. DEFINE n == Cardinality(s)
<1>1. /\ n \in Nat /\ predicted \in [1..n -> Models]
      /\ \A i, j \in 1..n : predicted[i] = predicted[j] => i = j
  <2>1. IsFiniteSet(s)
    BY FS_Subset DEF SwapAssumption
  <2>. QED BY <2>1, OrderProperties
<1>. HIDE DEF n
<1>2. PICK R : IsChooseRun(R, n, predicted, budget) /\ Chosen(predicted, budget) = R[n].ids
  BY <1>1, ChosenIsRun
<1>. DEFINE N == {k \in Nat : k <= n => ChooseInv(R[k], predicted, k, budget)}
<1>3. ChooseInv(ChooseStart, predicted, 0, budget)
  <2>1. ChooseStart.ids = << >> /\ ChooseStart.total = BytesIn(Resident)
    BY DEF ChooseStart
  <2>2. ToSet(<< >>) = {} /\ IsInjective(<< >>) /\ << >> \in Seq(Unloaded) /\ Len(<< >>) = 0
    BY DEF ToSet, IsInjective
  <2>3. Resident \cup {} = Resident /\ 1..0 = {}
    OBVIOUS
  <2>4. Fits(<< >>, budget)
    BY <2>2, <2>3 DEF Fits
  <2>. QED BY <2>1, <2>2, <2>3, <2>4 DEF ChooseInv
<1>4. 0 \in N
  BY <1>2, <1>3 DEF IsChooseRun
<1>5. ASSUME NEW k \in N \cap Nat PROVE k + 1 \in N
  <2>1. ASSUME k + 1 <= n PROVE ChooseInv(R[k + 1], predicted, k + 1, budget)
    <3>1. k + 1 \in 1..n /\ (k + 1) - 1 = k /\ k <= n
      BY <1>1, <2>1
    <3>2. R[k + 1] = ChooseNext(R[k], predicted[k + 1], budget)
      BY <1>2, <3>1 DEF IsChooseRun
    <3>3. ChooseInv(R[k], predicted, (k + 1) - 1, budget)
      BY <3>1
    <3>. HIDE DEF N
    <3>4. ChooseInv(ChooseNext(R[k], predicted[k + 1], budget), predicted, k + 1, budget)
      BY <1>1, <3>1, <3>3, ChooseKeepsInv
    <3>. QED BY <3>2, <3>4
  <2>. QED BY <2>1
<1>6. Nat \subseteq N
  <2>. HIDE DEF N
  <2>. QED BY <1>4, <1>5, NatInductionOnSet
<1>7. ChooseInv(R[n], predicted, n, budget)
  BY <1>1, <1>6
<1>. QED BY <1>2, <1>7 DEF ChooseInv

-----------------------------------------------------------------------------
(* The inductive invariant: the register is finite and typed; a plan names   *)
(* known models; and a plan that nobody disturbed still says what it said    *)
(* when it was made, of the models it has left to do.                       *)
TaskKinds == {"idle", "load", "evict"}
SwapType ==
  /\ Register
  /\ now \in Nat
  /\ task \in [kind : TaskKinds, budget : Nat, ids : Seq(DOMAIN slots), quiet : BOOLEAN]
  /\ task.kind = "idle" => task = Idle

TaskPlanned ==
  task.quiet =>
    /\ task.kind = "load" =>
         /\ task.ids \in Seq(Unloaded) /\ IsInjective(task.ids)
         /\ Fits(task.ids, task.budget)
    /\ task.kind = "evict" =>
         /\ task.ids \in Seq(Resident) /\ IsInjective(task.ids)
         /\ BytesIn(Resident \ ToSet(task.ids)) <= task.budget

IInv == SwapType /\ TaskPlanned

LEMMA InitIInv == ASSUME SwapAssumption PROVE Init => IInv
<1>. SUFFICES ASSUME Init PROVE IInv
  OBVIOUS
<1>1. DOMAIN slots = {} /\ now = 0 /\ task = Idle
  BY DEF Init
<1>2. Register
  BY <1>1, FS_EmptySet DEF Register
<1>3. /\ task \in [kind : TaskKinds, budget : Nat, ids : Seq(DOMAIN slots), quiet : BOOLEAN]
      /\ task.kind = "idle"
  BY <1>1 DEF Idle, TaskKinds
<1>. QED BY <1>1, <1>2, <1>3 DEF IInv, SwapType, TaskPlanned

(* Registering any model keeps the register; whoever does it disturbs a plan. *)
LEMMA RegisterKeeps ==
  ASSUME SwapAssumption, Register, NEW id \in Models, NEW slot \in Slots,
         RegisterModel(id, slot)
  PROVE  /\ Register' /\ DOMAIN slots' = DOMAIN slots \cup {id}
         /\ slots' = [i \in DOMAIN slots \cup {id} |-> IF i = id THEN slot ELSE slots[i]]
<1>1. slots' = [i \in DOMAIN slots \cup {id} |-> IF i = id THEN slot ELSE slots[i]]
  BY DEF RegisterModel, With
<1>2. IsFiniteSet(DOMAIN slots')
  BY <1>1, FS_AddElement DEF Register
<1>. QED BY <1>1, <1>2 DEF Register

LEMMA DisturbedKeeps ==
  ASSUME SwapAssumption, IInv, NEW id \in Models, NEW slot \in Slots,
         RegisterModel(id, slot), Disturb, UNCHANGED now
  PROVE  IInv'
<1>1. Register' /\ DOMAIN slots' = DOMAIN slots \cup {id}
  BY RegisterKeeps DEF IInv, SwapType
<1>2. task' = [task EXCEPT !.quiet = (task = Idle)]
  BY DEF Disturb
<1>3. task \in [kind : TaskKinds, budget : Nat, ids : Seq(DOMAIN slots), quiet : BOOLEAN]
      /\ (task.kind = "idle" => task = Idle)
  BY DEF IInv, SwapType
<1>4. task.ids \in Seq(DOMAIN slots')
  BY <1>1, <1>3, SeqMonotonic
<1>5. CASE task = Idle
  <2>1. task' = Idle /\ task'.kind = "idle"
    BY <1>2, <1>5 DEF Idle
  <2>. QED BY <1>1, <1>3, <1>4, <1>5, <2>1 DEF IInv, SwapType, TaskPlanned
<1>6. CASE task # Idle
  <2>1. /\ task'.kind = task.kind /\ task'.budget = task.budget /\ task'.ids = task.ids
        /\ task'.quiet = FALSE
        /\ task' \in [kind : TaskKinds, budget : Nat, ids : Seq(DOMAIN slots'), quiet : BOOLEAN]
    BY <1>2, <1>3, <1>4, <1>6
  <2>2. task'.kind # "idle"
    BY <1>3, <1>6, <2>1
  <2>3. SwapType'
    BY <1>1, <2>1, <2>2 DEF IInv, SwapType
  <2>4. TaskPlanned'
    BY <2>1 DEF TaskPlanned
  <2>. QED BY <2>3, <2>4 DEF IInv
<1>. QED BY <1>5, <1>6

(* The swapper's step: one model of the plan changes its place.              *)
LEMMA SwapMoves ==
  ASSUME SwapAssumption, IInv, Swap
  PROVE  LET id == Head(task.ids)
         IN  /\ id \in DOMAIN slots
             /\ Register' /\ DOMAIN slots' = DOMAIN slots /\ Bytes' = Bytes
             /\ Resident' = IF task.kind = "load" THEN Resident \cup {id}
                            ELSE Resident \ {id}
             /\ task.ids # << >> /\ UNCHANGED now
             /\ task' = [task EXCEPT !.ids = Tail(task.ids)]
<1>. DEFINE id == Head(task.ids)
            slot == [slots[id] EXCEPT !.resident = (task.kind = "load")]
<1>1. /\ task.ids # << >> /\ RegisterModel(id, slot) /\ UNCHANGED now
      /\ task' = [task EXCEPT !.ids = Tail(task.ids)]
  BY DEF Swap
<1>2. Register /\ task.ids \in Seq(DOMAIN slots)
  BY DEF IInv, SwapType
<1>3. id \in DOMAIN slots
  BY <1>1, <1>2, HeadTailProperties
<1>4. slot \in Slots /\ slot.bytes = slots[id].bytes /\ slot.resident = (task.kind = "load")
  BY <1>2, <1>3 DEF Register, Slots
<1>5. id \in Models
  BY <1>2, <1>3 DEF Register
<1>. HIDE DEF id, slot
<1>6. /\ Register' /\ DOMAIN slots' = DOMAIN slots \cup {id}
      /\ slots' = [i \in DOMAIN slots \cup {id} |-> IF i = id THEN slot ELSE slots[i]]
  BY <1>1, <1>2, <1>4, <1>5, RegisterKeeps
<1>7. DOMAIN slots' = DOMAIN slots
  BY <1>3, <1>6
<1>8. Bytes' = Bytes
  BY <1>4, <1>6, <1>7 DEF Bytes
<1>9. Resident' = IF task.kind = "load" THEN Resident \cup {id} ELSE Resident \ {id}
  BY <1>3, <1>4, <1>6, <1>7 DEF Resident
<1>. QED BY <1>1, <1>3, <1>6, <1>7, <1>8, <1>9 DEF id

(* A sequence of values that are all in T is a sequence of T.                *)
LEMMA SeqOfKeys ==
  ASSUME NEW S, NEW s \in Seq(S), NEW T, ToSet(s) \subseteq T
  PROVE  s \in Seq(T)
<1>1. DOMAIN s = 1..Len(s) /\ Len(s) \in Nat /\ s \in [1..Len(s) -> S]
  BY LenProperties
<1>2. \A i \in 1..Len(s) : s[i] \in T
  BY <1>1 DEF ToSet
<1>3. s \in [1..Len(s) -> T]
  BY <1>1, <1>2
<1>. QED BY <1>1, <1>3, SeqDef

LEMMA LoadKeeps ==
  ASSUME SwapAssumption, IInv, Swap, task.quiet, task.kind = "load"
  PROVE  /\ task'.ids \in Seq(Unloaded') /\ IsInjective(task'.ids)
         /\ Fits(task.ids, task.budget)' /\ (BytesIn(Resident) <= task.budget)'
<1>. DEFINE id == Head(task.ids)
            rest == Tail(task.ids)
<1>1. /\ id \in DOMAIN slots /\ DOMAIN slots' = DOMAIN slots /\ Bytes' = Bytes
      /\ Resident' = Resident \cup {id} /\ task.ids # << >>
      /\ task' = [task EXCEPT !.ids = rest]
  BY SwapMoves
<1>2. /\ task.ids \in Seq(Unloaded) /\ IsInjective(task.ids)
      /\ Fits(task.ids, task.budget)
  BY DEF IInv, TaskPlanned
<1>3. task'.ids = rest /\ task'.budget = task.budget
  BY <1>1 DEF IInv, SwapType
<1>4. /\ rest \in Seq(Unloaded) /\ IsInjective(rest)
      /\ ToSet(rest) = ToSet(task.ids) \ {id}
  BY <1>1, <1>2, TailInjective
<1>5. ToSet(task.ids) \subseteq Unloaded
  BY <1>2, KeysOfList
<1>6. ToSet(rest) \subseteq Unloaded'
  BY <1>1, <1>4, <1>5 DEF Unloaded
<1>7. rest \in Seq(Unloaded')
  <2>1. PICK T : T = Unloaded'
    OBVIOUS
  <2>. QED BY <1>4, <1>6, <2>1, SeqOfKeys
<1>8. /\ Len(task.ids) \in Nat /\ Len(task.ids) # 0 /\ id = task.ids[1]
      /\ Len(rest) = Len(task.ids) - 1
      /\ \A i \in 1..Len(rest) : rest[i] = task.ids[i + 1]
  BY <1>1, <1>2, HeadTailProperties, LenProperties, EmptySeq
<1>. HIDE DEF id, rest
<1>9. ASSUME NEW p \in 1..Len(rest)
      PROVE  SumFunctionOnSet(Bytes', Resident' \cup {rest[q] : q \in 1..p}) % Word64
               <= task.budget
  <2>1. p + 1 \in 1..Len(task.ids)
    BY <1>8
  <2>2. Resident' \cup {rest[q] : q \in 1..p} = Resident \cup {task.ids[q] : q \in 1..(p + 1)}
    <3>1. \A q \in 1..p : rest[q] = task.ids[q + 1]
      BY <1>8
    <3>2. {rest[q] : q \in 1..p} \cup {id} = {task.ids[q] : q \in 1..(p + 1)}
      <4>1. \A q \in 2..(p + 1) : q - 1 \in 1..p /\ (q - 1) + 1 = q
        OBVIOUS
      <4>2. \A q \in 1..p : q + 1 \in 1..(p + 1)
        OBVIOUS
      <4>3. 1 \in 1..(p + 1) /\ \A q \in 1..(p + 1) : q = 1 \/ q \in 2..(p + 1)
        OBVIOUS
      <4>4. ASSUME NEW x
            PROVE  x \in {rest[q] : q \in 1..p} \cup {id}
                     <=> x \in {task.ids[q] : q \in 1..(p + 1)}
        <5>1. ASSUME NEW q \in 1..p PROVE rest[q] \in {task.ids[r] : r \in 1..(p + 1)}
          BY <3>1, <4>2
        <5>2. id \in {task.ids[r] : r \in 1..(p + 1)}
          BY <1>8, <4>3
        <5>3. ASSUME NEW q \in 2..(p + 1) PROVE task.ids[q] \in {rest[r] : r \in 1..p}
          <6>1. task.ids[q] = rest[q - 1] /\ q - 1 \in 1..p
            BY <3>1, <4>1
          <6>. QED BY <6>1
        <5>. QED BY <1>8, <4>3, <5>1, <5>2, <5>3
      <4>. QED BY <4>4
    <3>. QED BY <1>1, <3>2
  <2>3. BytesIn(Resident \cup {task.ids[q] : q \in 1..(p + 1)}) <= task.budget
    BY <1>2, <2>1 DEF Fits
  <2>. QED BY <1>1, <2>2, <2>3 DEF BytesIn
<1>10. Fits(task.ids, task.budget)'
  BY <1>3, <1>9 DEF Fits, BytesIn
<1>11. (BytesIn(Resident) <= task.budget)'
  <2>1. 1 \in 1..Len(task.ids)
    BY <1>8
  <2>2. {task.ids[q] : q \in 1..1} = {id}
    BY <1>8
  <2>3. BytesIn(Resident \cup {task.ids[q] : q \in 1..1}) <= task.budget
    BY <1>2, <2>1 DEF Fits
  <2>. QED BY <1>1, <1>3, <2>2, <2>3 DEF BytesIn
<1>. QED BY <1>3, <1>4, <1>7, <1>10, <1>11

LEMMA EvictKeeps ==
  ASSUME SwapAssumption, IInv, Swap, task.quiet, task.kind = "evict"
  PROVE  /\ task'.ids \in Seq(Resident') /\ IsInjective(task'.ids)
         /\ (BytesIn(Resident \ ToSet(task.ids)) <= task.budget)'
<1>. DEFINE id == Head(task.ids)
            rest == Tail(task.ids)
<1>1. /\ Bytes' = Bytes /\ Resident' = Resident \ {id} /\ task.ids # << >>
      /\ task' = [task EXCEPT !.ids = rest]
  BY SwapMoves
<1>2. /\ task.ids \in Seq(Resident) /\ IsInjective(task.ids)
      /\ BytesIn(Resident \ ToSet(task.ids)) <= task.budget
  BY DEF IInv, TaskPlanned
<1>3. task'.ids = rest /\ task'.budget = task.budget
  BY <1>1 DEF IInv, SwapType
<1>4. /\ rest \in Seq(Resident) /\ IsInjective(rest)
      /\ ToSet(rest) = ToSet(task.ids) \ {id} /\ id \in ToSet(task.ids)
  BY <1>1, <1>2, TailInjective
<1>5. ToSet(task.ids) \subseteq Resident
  BY <1>2, KeysOfList
<1>6. ToSet(rest) \subseteq Resident'
  BY <1>1, <1>4, <1>5
<1>7. rest \in Seq(Resident')
  <2>1. PICK T : T = Resident'
    OBVIOUS
  <2>. QED BY <1>4, <1>6, <2>1, SeqOfKeys
<1>8. Resident' \ ToSet(rest) = Resident \ ToSet(task.ids)
  BY <1>1, <1>4
<1>. HIDE DEF id, rest
<1>. QED BY <1>1, <1>2, <1>3, <1>4, <1>7, <1>8 DEF BytesIn

LEMMA NextIInv == ASSUME SwapAssumption PROVE IInv /\ [Next]_vars => IInv'
<1>. SUFFICES ASSUME IInv, [Next]_vars PROVE IInv'
  OBVIOUS
<1>1. /\ Register /\ now \in Nat
      /\ task \in [kind : TaskKinds, budget : Nat, ids : Seq(DOMAIN slots), quiet : BOOLEAN]
      /\ (task.kind = "idle" => task = Idle)
  BY DEF IInv, SwapType
<1>2. ASSUME NEW id \in Models, RecordModelLoad(id) PROVE IInv'
  <2>. DEFINE slot == [bytes |-> BytesOf[id], resident |-> TRUE, used |-> now, priority |-> 0]
  <2>1. slot \in Slots
    BY <1>1 DEF Slots, SwapAssumption
  <2>2. RegisterModel(id, slot) /\ Disturb /\ UNCHANGED now
    BY <1>2 DEF RecordModelLoad
  <2>. HIDE DEF slot
  <2>. QED BY <2>1, <2>2, DisturbedKeeps
<1>3. ASSUME NEW id \in Models, NEW r \in BOOLEAN, NEW p \in Priorities, Announce(id, r, p)
      PROVE  IInv'
  <2>. DEFINE slot == [bytes |-> BytesOf[id], resident |-> r, used |-> now, priority |-> p]
  <2>1. slot \in Slots
    BY <1>1 DEF Slots, SwapAssumption
  <2>2. RegisterModel(id, slot) /\ Disturb /\ UNCHANGED now
    BY <1>3 DEF Announce
  <2>. HIDE DEF slot
  <2>. QED BY <2>1, <2>2, DisturbedKeeps
<1>4. ASSUME NEW id \in Models, MarkUsed(id) PROVE IInv'
  <2>1. /\ now' = now + 1 /\ task' = task
        /\ slots' = IF id \in DOMAIN slots THEN [slots EXCEPT ![id].used = now + 1] ELSE slots
    BY <1>4 DEF MarkUsed
  <2>2. /\ DOMAIN slots' = DOMAIN slots
        /\ \A i \in DOMAIN slots : /\ slots'[i] \in Slots
                                   /\ slots'[i].bytes = slots[i].bytes
                                   /\ slots'[i].resident = slots[i].resident
    <3>1. CASE id \in DOMAIN slots
      <4>1. slots' = [slots EXCEPT ![id] = [slots[id] EXCEPT !.used = now + 1]]
        BY <2>1, <3>1
      <4>2. /\ [slots[id] EXCEPT !.used = now + 1] \in Slots
            /\ [slots[id] EXCEPT !.used = now + 1].bytes = slots[id].bytes
            /\ [slots[id] EXCEPT !.used = now + 1].resident = slots[id].resident
        BY <1>1, <3>1 DEF Register, Slots
      <4>. QED BY <1>1, <4>1, <4>2 DEF Register
    <3>2. CASE id \notin DOMAIN slots
      BY <1>1, <2>1, <3>2 DEF Register
    <3>. QED BY <3>1, <3>2
  <2>3. Register' /\ Resident' = Resident /\ Bytes' = Bytes
    BY <1>1, <2>2 DEF Register, Resident, Bytes
  <2>4. Unloaded' = Unloaded
    BY <2>2, <2>3 DEF Unloaded
  <2>5. SwapType'
    BY <1>1, <2>1, <2>2, <2>3 DEF SwapType
  <2>6. TaskPlanned'
    BY <2>1, <2>3, <2>4 DEF IInv, TaskPlanned, Fits, BytesIn
  <2>. QED BY <2>5, <2>6 DEF IInv
<1>5. ASSUME NEW budget \in Budgets, PlanEvictions(budget) PROVE IInv'
  <2>1. PICK list \in EvictionPlans(budget) :
          task' = [kind |-> "evict", budget |-> budget, ids |-> list, quiet |-> TRUE]
    BY <1>5 DEF PlanEvictions
  <2>2. slots' = slots /\ now' = now /\ budget \in Nat
    BY <1>5 DEF PlanEvictions, SwapAssumption
  <2>3. list \in Seq(Resident) /\ IsInjective(list) /\ BytesIn(Resident \ ToSet(list)) <= budget
    BY <1>1, <2>2, EvictionPlanProperties DEF EvictionIsRight
  <2>4. list \in Seq(DOMAIN slots)
    <3>1. Resident \subseteq DOMAIN slots
      BY DEF Resident
    <3>. QED BY <2>3, <3>1, SeqMonotonic
  <2>5. Register' /\ Resident' = Resident /\ Bytes' = Bytes
    BY <1>1, <2>2 DEF Register, Resident, Bytes
  <2>6. SwapType'
    BY <1>1, <2>1, <2>2, <2>4, <2>5 DEF SwapType, TaskKinds
  <2>7. TaskPlanned'
    BY <2>1, <2>3, <2>5 DEF TaskPlanned, BytesIn
  <2>. QED BY <2>6, <2>7 DEF IInv
<1>6. ASSUME NEW s \in SUBSET Models, NEW predicted \in SetToSeqs(s),
             NEW budget \in Budgets, PlanPreloads(predicted, budget)
      PROVE  IInv'
  <2>1. PICK ids : ids = Chosen(predicted, budget)
    OBVIOUS
  <2>2. /\ task' = [kind |-> "load", budget |-> budget, ids |-> ids, quiet |-> TRUE]
        /\ slots' = slots /\ now' = now /\ budget \in Nat
    BY <1>6, <2>1 DEF PlanPreloads, SwapAssumption
  <2>3. ids \in Seq(Unloaded) /\ IsInjective(ids) /\ Fits(ids, budget)
    BY <1>1, <2>1, <2>2, ChosenProperties
  <2>4. ids \in Seq(DOMAIN slots)
    <3>1. Unloaded \subseteq DOMAIN slots
      BY DEF Unloaded
    <3>. QED BY <2>3, <3>1, SeqMonotonic
  <2>5. Register' /\ Resident' = Resident /\ Bytes' = Bytes /\ Unloaded' = Unloaded
    BY <1>1, <2>2 DEF Register, Resident, Bytes, Unloaded
  <2>6. SwapType'
    BY <1>1, <2>2, <2>4, <2>5 DEF SwapType, TaskKinds
  <2>7. Fits(task.ids, task.budget)'
    BY <2>2, <2>3, <2>5 DEF Fits, BytesIn
  <2>8. TaskPlanned'
    BY <2>2, <2>3, <2>5, <2>7 DEF TaskPlanned
  <2>. QED BY <2>6, <2>8 DEF IInv
<1>7. ASSUME Swap PROVE IInv'
  <2>1. /\ Register' /\ DOMAIN slots' = DOMAIN slots /\ task.ids # << >> /\ now' = now
        /\ task' = [task EXCEPT !.ids = Tail(task.ids)]
    BY <1>7, SwapMoves
  <2>2. Tail(task.ids) \in Seq(DOMAIN slots)
    BY <1>1, <2>1, HeadTailProperties
  <2>3. /\ task' \in [kind : TaskKinds, budget : Nat, ids : Seq(DOMAIN slots), quiet : BOOLEAN]
        /\ task'.kind = task.kind /\ task'.quiet = task.quiet
    BY <1>1, <2>1, <2>2
  <2>4. task.kind # "idle"
    BY <1>1, <2>1 DEF Idle
  <2>5. SwapType'
    BY <1>1, <2>1, <2>3, <2>4 DEF SwapType
  <2>6. TaskPlanned'
    BY <1>7, <2>3, LoadKeeps, EvictKeeps DEF TaskPlanned
  <2>. QED BY <2>5, <2>6 DEF IInv
<1>8. ASSUME Done PROVE IInv'
  <2>1. task' = Idle /\ slots' = slots /\ now' = now
    BY <1>8 DEF Done
  <2>2. /\ task' \in [kind : TaskKinds, budget : Nat, ids : Seq(DOMAIN slots), quiet : BOOLEAN]
        /\ task'.kind = "idle"
    BY <2>1 DEF Idle, TaskKinds
  <2>3. SwapType'
    BY <1>1, <2>1, <2>2 DEF SwapType, Register
  <2>4. TaskPlanned'
    BY <2>2 DEF TaskPlanned
  <2>. QED BY <2>3, <2>4 DEF IInv
<1>9. ASSUME UNCHANGED vars PROVE IInv'
  <2>1. slots' = slots /\ now' = now /\ task' = task
    BY <1>9 DEF vars
  <2>2. Register' /\ Resident' = Resident /\ Bytes' = Bytes /\ Unloaded' = Unloaded
    BY <1>1, <2>1 DEF Register, Resident, Bytes, Unloaded
  <2>3. SwapType'
    BY <1>1, <2>1, <2>2 DEF SwapType
  <2>4. TaskPlanned'
    BY <2>1, <2>2 DEF IInv, TaskPlanned, Fits, BytesIn
  <2>. QED BY <2>3, <2>4 DEF IInv
<1>. QED BY <1>2, <1>3, <1>4, <1>5, <1>6, <1>7, <1>8, <1>9 DEF Next

LEMMA Invariance == ASSUME SwapAssumption PROVE Spec => []IInv
  BY InitIInv, NextIInv, PTL DEF Spec

(* Every plan of evictions that could be asked for, for any budget and any   *)
(* order std::sort leaves ties in, lets the least important and oldest go,   *)
(* enough of them and none more, also when sums of sizes wrap.              *)
THEOREM EvictionsAreAlwaysRight == ASSUME SwapAssumption PROVE Spec => []EvictionsAreRight
<1>1. IInv => EvictionsAreRight
  <2>. SUFFICES ASSUME IInv, NEW budget \in Budgets, NEW list \in EvictionPlans(budget)
                PROVE  EvictionIsRight(list, budget)
    BY DEF EvictionsAreRight, EvictionIsRight
  <2>1. budget \in Nat /\ Register
    BY DEF SwapAssumption, IInv, SwapType
  <2>. QED BY <2>1, EvictionPlanProperties
<1>. QED BY Invariance, <1>1, PTL

(* A swapper that nobody disturbs never loads beyond its budget, at any of    *)
(* its steps, and its evictions make the resident models fit.               *)
THEOREM UndisturbedTaskFits == ASSUME SwapAssumption PROVE Spec => TaskFits
<1>. DEFINE Fit ==
       task.quiet =>
         /\ Swap /\ task.kind = "load" => (BytesIn(Resident) <= task.budget)'
         /\ Done /\ task.kind = "evict" => BytesIn(Resident) <= task.budget
<1>1. IInv /\ [Next]_vars => [Fit]_vars
  <2>. SUFFICES ASSUME IInv, task.quiet
                PROVE  /\ Swap /\ task.kind = "load" => (BytesIn(Resident) <= task.budget)'
                       /\ Done /\ task.kind = "evict" => BytesIn(Resident) <= task.budget
    OBVIOUS
  <2>1. ASSUME Swap, task.kind = "load" PROVE (BytesIn(Resident) <= task.budget)'
    BY <2>1, LoadKeeps
  <2>2. ASSUME Done, task.kind = "evict" PROVE BytesIn(Resident) <= task.budget
    <3>1. task.ids = << >> /\ BytesIn(Resident \ ToSet(task.ids)) <= task.budget
      BY <2>2 DEF Done, IInv, TaskPlanned
    <3>2. ToSet(<< >>) = {} /\ Resident \ {} = Resident
      BY DEF ToSet
    <3>. QED BY <3>1, <3>2
  <2>. QED BY <2>1, <2>2
<1>. QED BY Invariance, <1>1, PTL DEF Spec, TaskFits

-----------------------------------------------------------------------------
(* Room enough that each stricter mode can take something away.             *)
Roomy(c) ==
  /\ c.app >= 8
  /\ c.model >= 1
  /\ c.kv >= 2 * (c.sink + c.recent)

(* The plan in force was decided for this configuration.                    *)
PlanMade ==
  \E confident \in BOOLEAN : plan = Policy!Decide(plan.mode, confident, config)

PolicyInv == Policy!TypeOK /\ PlanMade

-----------------------------------------------------------------------------
(* What the assumption says of a configuration's numbers.                   *)
LEMMA ConfigNumbers ==
  ASSUME Policy!PowerAssumption, NEW c \in Configs
  PROVE  /\ {c.app, c.model, c.kv, c.sink, c.recent} \subseteq 0..(Word64 - 1)
         /\ {c.thermalPaused, c.thermalMinimal, c.thermalReduced,
             c.batteryPaused, c.batteryMinimal, c.batteryReduced,
             c.ramPaused, c.ramMinimal} \subseteq Int
         /\ c.preload \in BOOLEAN
  <1>1. \A f \in Policy!Threshold : c[f] \in Int
    BY DEF Policy!PowerAssumption
  <1>2. \A f \in Policy!Capacity : c[f] \in 0..(Word64 - 1)
    BY DEF Policy!PowerAssumption
  <1>3. c.preload \in BOOLEAN
    BY DEF Policy!PowerAssumption
  <1> QED
    BY <1>1, <1>2, <1>3 DEF Policy!Threshold, Policy!Capacity

LEMMA ModesAreNumbers == Policy!Modes = {0, 1, 2, 3}
  BY DEF Policy!Modes, Policy!Full, Policy!Reduced, Policy!Minimal, Policy!Paused

(* decide() gives numbers, in every mode. *)
LEMMA DecideTyped ==
  ASSUME Policy!PowerAssumption, NEW c \in Configs, NEW m \in Policy!Modes,
         NEW confident \in BOOLEAN
  PROVE  /\ Policy!Decide(m, confident, c) \in
              [mode : Policy!Modes, app : Nat, model : Nat, kv : Nat,
               preload : BOOLEAN, consolidation : BOOLEAN]
         /\ Policy!Decide(m, confident, c).mode = m
  <1>1. /\ c.app \in Nat /\ c.model \in Nat /\ c.kv \in Nat
        /\ c.sink \in Nat /\ c.recent \in Nat
        /\ Word64 \in Nat \ {0}
    BY ConfigNumbers DEF Policy!PowerAssumption
  <1>2. m \in {0, 1, 2, 3}
    BY ModesAreNumbers
  <1>3. Policy!AppSlots(m, c) \in Nat
    BY <1>1, <1>2
       DEF Policy!AppSlots, Policy!AtLeast, Policy!Full, Policy!Reduced,
           Policy!Minimal, Policy!Paused
  <1>4. Policy!ModelSlots(m, c) \in Nat
    <2>1. (c.model - 1) % Word64 \in Nat
      BY <1>1
    <2> QED
      BY <1>1, <1>2, <2>1
         DEF Policy!ModelSlots, Policy!AtLeast, Policy!Full, Policy!Reduced,
             Policy!Minimal, Policy!Paused
  <1>5. Policy!KVBudget(m, c) \in Nat
    BY <1>1, <1>2
       DEF Policy!KVBudget, Policy!Full, Policy!Reduced, Policy!Minimal, Policy!Paused
  <1>6. (IF confident /\ m <= Policy!Reduced THEN 1 ELSE 0) \in Nat
    OBVIOUS
  <1>7. Policy!AppSlots(m, c) + (IF confident /\ m <= Policy!Reduced THEN 1 ELSE 0) \in Nat
    BY <1>3, <1>6
  <1>8. (c.preload /\ m <= Policy!Reduced) \in BOOLEAN /\ (m # Policy!Paused) \in BOOLEAN
    OBVIOUS
  <1> QED
    BY <1>4, <1>5, <1>7, <1>8 DEF Policy!Decide

LEMMA ClassifyTyped ==
  ASSUME NEW d, NEW c
  PROVE  Policy!Classify(d, c) \in Policy!Modes
  BY DEF Policy!Classify, Policy!Modes

(* A worse device is critical, strained or warm if the better one is.       *)
LEMMA ClassifyMonotone ==
  ASSUME Policy!PowerAssumption, NEW c \in Configs, NEW d \in Devices,
         NEW e \in Devices, Policy!Worse(e, d)
  PROVE  Policy!Classify(e, c) >= Policy!Classify(d, c)
  <1>1. /\ {d.thermal, d.battery, d.ram, e.thermal, e.battery, e.ram} \subseteq Int
        /\ {d.charging, d.saver, e.charging, e.saver} \subseteq BOOLEAN
    BY DEF Policy!PowerAssumption
  <1>2. Policy!Draining(d) => Policy!Draining(e)
    BY <1>1 DEF Policy!Draining, Policy!Worse
  <1>3. Policy!Critical(d, c) => Policy!Critical(e, c)
    BY <1>1, <1>2, ConfigNumbers DEF Policy!Critical, Policy!Worse
  <1>4. Policy!Strained(d, c) => Policy!Strained(e, c)
    BY <1>1, <1>2, ConfigNumbers DEF Policy!Strained, Policy!Worse
  <1>5. Policy!Warm(d, c) => Policy!Warm(e, c)
    BY <1>1, <1>2, ConfigNumbers DEF Policy!Warm, Policy!Worse
  <1> QED
    BY <1>3, <1>4, <1>5
       DEF Policy!Classify, Policy!Full, Policy!Reduced, Policy!Minimal, Policy!Paused

-----------------------------------------------------------------------------
LEMMA PolicyInit ==
  ASSUME Policy!PowerAssumption PROVE Policy!Init => PolicyInv
  <1> SUFFICES ASSUME Policy!Init PROVE PolicyInv
    OBVIOUS
  <1>1. config \in Configs /\ device \in Devices /\ mode \in Policy!Modes
    BY ModesAreNumbers DEF Policy!PowerAssumption, Policy!Init, Policy!Full
  <1>2. Policy!Full \in Policy!Modes
    BY DEF Policy!Modes
  <1>3. plan = Policy!Decide(Policy!Full, FALSE, config) /\ plan.mode = Policy!Full
    BY <1>1, <1>2, DecideTyped DEF Policy!Init
  <1>4. Policy!TypeOK
    BY <1>1, <1>2, <1>3, DecideTyped DEF Policy!TypeOK
  <1>5. PlanMade
    BY <1>3 DEF PlanMade
  <1> QED
    BY <1>4, <1>5 DEF PolicyInv

LEMMA PolicyNext ==
  ASSUME Policy!PowerAssumption
  PROVE  PolicyInv /\ [Policy!Next]_(Policy!vars) => PolicyInv'
  <1> SUFFICES ASSUME PolicyInv, [Policy!Next]_(Policy!vars) PROVE PolicyInv'
    OBVIOUS
  <1> USE DEF PolicyInv
  <1>1. ASSUME NEW d \in Devices, Policy!UpdateDeviceState(d) PROVE PolicyInv'
    <2>1. Policy!TypeOK'
      BY <1>1, ClassifyTyped DEF Policy!TypeOK, Policy!UpdateDeviceState
    <2>2. PlanMade'
      BY <1>1 DEF PlanMade, Policy!UpdateDeviceState
    <2> QED
      BY <2>1, <2>2
  <1>2. ASSUME NEW confident \in BOOLEAN, Policy!Tick(confident) PROVE PolicyInv'
    <2>1. plan' = Policy!Decide(mode, confident, config) /\ plan'.mode = mode
      BY <1>2, DecideTyped DEF Policy!Tick, Policy!TypeOK
    <2>2. Policy!TypeOK'
      BY <1>2, <2>1, DecideTyped DEF Policy!Tick, Policy!TypeOK
    <2>3. PlanMade'
      BY <1>2, <2>1 DEF Policy!Tick, PlanMade
    <2> QED
      BY <2>2, <2>3
  <1>3. CASE UNCHANGED Policy!vars
    BY <1>3 DEF Policy!vars, Policy!TypeOK, PlanMade
  <1> QED
    BY <1>1, <1>2, <1>3 DEF Policy!Next

(* The type invariant: no mode asks for a negative capacity.                *)
THEOREM PolicyTypeCorrect ==
  ASSUME Policy!PowerAssumption PROVE Policy!Spec => []PolicyTypeOK
  <1>1. PolicyInv => PolicyTypeOK
    BY DEF PolicyInv, PolicyTypeOK
  <1> QED
    BY PolicyInit, PolicyNext, <1>1, PTL DEF Policy!Spec

(* A device that gets worse never gets a milder mode, for any thresholds,   *)
(* in whatever order they are configured.                                  *)
THEOREM WorseIsNeverMilder ==
  ASSUME Policy!PowerAssumption PROVE Policy!Spec => WorseNeverMilder
  <1>1. Policy!TypeOK /\ [Policy!Next]_(Policy!vars) =>
          [mode = Policy!Classify(device, config) /\ Policy!Worse(device', device)
             => mode' >= mode]_(Policy!vars)
    <2> SUFFICES ASSUME Policy!TypeOK, Policy!Next, mode = Policy!Classify(device, config),
                        Policy!Worse(device', device)
                 PROVE  mode' >= mode
      OBVIOUS
    <2>1. ASSUME NEW d \in Devices, Policy!UpdateDeviceState(d) PROVE mode' >= mode
      BY <2>1, ClassifyMonotone DEF Policy!UpdateDeviceState, Policy!TypeOK
    <2>2. ASSUME NEW confident \in BOOLEAN, Policy!Tick(confident) PROVE mode' >= mode
      BY <2>2, ModesAreNumbers DEF Policy!Tick, Policy!TypeOK
    <2> QED
      BY <2>1, <2>2 DEF Policy!Next
  <1>2. PolicyInv => Policy!TypeOK
    BY DEF PolicyInv
  <1> QED
    BY PolicyInit, PolicyNext, <1>1, <1>2, PTL
       DEF Policy!Spec, WorseNeverMilder, Policy!WorseNeverMilder

-----------------------------------------------------------------------------
(* Whole-number arithmetic of the plans, one lemma per resource.            *)
LEMMA StricterTakesAppSlots ==
  ASSUME Policy!PowerAssumption, NEW c \in Configs, Roomy(c), NEW m \in Policy!Modes,
         NEW n \in Policy!Modes, n > m
  PROVE  /\ Policy!AppSlots(n, c) + (IF n <= Policy!Reduced THEN 1 ELSE 0)
              <= Policy!AppSlots(m, c)
         /\ Policy!AppSlots(m, c) \in Nat
         /\ Policy!AppSlots(n, c) \in Nat
  <1>1. c.app \in Nat /\ c.app >= 8
    BY ConfigNumbers DEF Roomy
  <1>2. /\ (c.app * 3) \div 4 + 1 <= c.app
        /\ c.app \div 2 <= (c.app * 3) \div 4
        /\ c.app \div 4 <= c.app \div 2
        /\ 4 <= c.app \div 2
    BY <1>1
  <1>3. m \in {0, 1, 2, 3} /\ n \in {0, 1, 2, 3}
    BY ModesAreNumbers
  <1> QED
    BY <1>1, <1>2, <1>3
       DEF Policy!AppSlots, Policy!AtLeast, Policy!Full, Policy!Reduced,
           Policy!Minimal, Policy!Paused

LEMMA StricterTakesModelSlots ==
  ASSUME Policy!PowerAssumption, NEW c \in Configs, Roomy(c), NEW m \in Policy!Modes,
         NEW n \in Policy!Modes, n > m
  PROVE  Policy!ModelSlots(n, c) <= Policy!ModelSlots(m, c)
  <1>1. c.model \in 1..(Word64 - 1) /\ Word64 \in Nat
    BY ConfigNumbers DEF Roomy, Policy!PowerAssumption
  <1>2. (c.model - 1) % Word64 = c.model - 1
    BY <1>1
  <1>3. m \in {0, 1, 2, 3} /\ n \in {0, 1, 2, 3}
    BY ModesAreNumbers
  <1> QED
    BY <1>1, <1>2, <1>3
       DEF Policy!ModelSlots, Policy!AtLeast, Policy!Full, Policy!Reduced,
           Policy!Minimal, Policy!Paused

LEMMA StricterTakesTokens ==
  ASSUME Policy!PowerAssumption, NEW c \in Configs, Roomy(c), NEW m \in Policy!Modes,
         NEW n \in Policy!Modes, n > m
  PROVE  Policy!KVBudget(n, c) <= Policy!KVBudget(m, c)
  <1>1. c.kv \in Nat /\ c.sink \in Nat /\ c.recent \in Nat
    BY ConfigNumbers
  <1>2. /\ (c.kv * 3) \div 4 <= c.kv
        /\ c.kv \div 2 <= (c.kv * 3) \div 4
        /\ c.sink + c.recent <= c.kv \div 2
    BY <1>1 DEF Roomy
  <1>3. m \in {0, 1, 2, 3} /\ n \in {0, 1, 2, 3}
    BY ModesAreNumbers
  <1> QED
    BY <1>1, <1>2, <1>3
       DEF Policy!KVBudget, Policy!Full, Policy!Reduced, Policy!Minimal, Policy!Paused

LEMMA BudgetCovers ==
  ASSUME Policy!PowerAssumption, NEW c \in Configs, Roomy(c), NEW m \in Policy!Modes
  PROVE  Policy!KVBudget(m, c) >= c.sink + c.recent
  <1>1. c.kv \in Nat /\ c.sink \in Nat /\ c.recent \in Nat
    BY ConfigNumbers
  <1>2. /\ (c.kv * 3) \div 4 >= c.kv \div 2
        /\ c.kv >= c.kv \div 2
        /\ c.sink + c.recent <= c.kv \div 2
    BY <1>1 DEF Roomy
  <1>3. m \in {0, 1, 2, 3}
    BY ModesAreNumbers
  <1> QED
    BY <1>1, <1>2, <1>3
       DEF Policy!KVBudget, Policy!Full, Policy!Reduced, Policy!Minimal, Policy!Paused

(* A plan of a stricter mode takes more of nothing, whatever the two        *)
(* predictions were.                                                       *)
LEMMA DecideDegrades ==
  ASSUME Policy!PowerAssumption, NEW c \in Configs, Roomy(c), NEW m \in Policy!Modes,
         NEW n \in Policy!Modes, n > m,
         NEW s \in BOOLEAN, NEW t \in BOOLEAN
  PROVE  /\ Policy!Decide(n, t, c).app <= Policy!Decide(m, s, c).app
         /\ Policy!Decide(n, t, c).model <= Policy!Decide(m, s, c).model
         /\ Policy!Decide(n, t, c).kv <= Policy!Decide(m, s, c).kv
         /\ Policy!Decide(n, t, c).preload => Policy!Decide(m, s, c).preload
         /\ Policy!Decide(n, t, c).consolidation => Policy!Decide(m, s, c).consolidation
  <1>1. Policy!AppSlots(n, c) + (IF t /\ n <= Policy!Reduced THEN 1 ELSE 0)
          <= Policy!AppSlots(m, c) + (IF s /\ m <= Policy!Reduced THEN 1 ELSE 0)
    BY StricterTakesAppSlots
  <1>2. m \in {0, 1, 2, 3} /\ n \in {0, 1, 2, 3}
    BY ModesAreNumbers
  <1>3. /\ n <= Policy!Reduced => m <= Policy!Reduced
        /\ (n # Policy!Paused => m # Policy!Paused)
    BY <1>2 DEF Policy!Reduced, Policy!Paused
  <1> QED
    BY <1>1, <1>3, StricterTakesModelSlots, StricterTakesTokens DEF Policy!Decide

(* With room enough, every stricter plan takes more of nothing.             *)
THEOREM RoomyDegradesGracefully ==
  ASSUME Policy!PowerAssumption, \A c \in Configs : Roomy(c)
  PROVE  Policy!Spec => DegradesGracefully
  <1> DEFINE Degrades ==
        /\ plan'.app <= plan.app
        /\ plan'.model <= plan.model
        /\ plan'.kv <= plan.kv
        /\ plan'.preload => plan.preload
        /\ plan'.consolidation => plan.consolidation
  <1>1. PolicyInv /\ [Policy!Next]_(Policy!vars) =>
          [plan'.mode > plan.mode => Degrades]_(Policy!vars)
    <2> SUFFICES ASSUME PolicyInv, Policy!Next, plan'.mode > plan.mode PROVE Degrades
      OBVIOUS
    <2>1. config \in Configs /\ mode \in Policy!Modes /\ plan.mode \in Policy!Modes
      BY DEF PolicyInv, Policy!TypeOK
    <2>2. PICK s \in BOOLEAN : plan = Policy!Decide(plan.mode, s, config)
      BY DEF PolicyInv, PlanMade
    <2>3. ASSUME NEW d \in Devices, Policy!UpdateDeviceState(d) PROVE FALSE
      <3>1. plan' = plan
        BY <2>3 DEF Policy!UpdateDeviceState
      <3> QED
        BY <2>1, <3>1, ModesAreNumbers
    <2>4. ASSUME NEW t \in BOOLEAN, Policy!Tick(t) PROVE Degrades
      <3>1. plan' = Policy!Decide(mode, t, config) /\ plan'.mode = mode
        BY <2>1, <2>4, DecideTyped DEF Policy!Tick
      <3>2. mode > plan.mode /\ Roomy(config)
        BY <2>1, <3>1
      <3> HIDE DEF Degrades
      <3>3. DEFINE old == Policy!Decide(plan.mode, s, config)
                   new == Policy!Decide(mode, t, config)
      <3>4. /\ new.app <= old.app /\ new.model <= old.model /\ new.kv <= old.kv
            /\ new.preload => old.preload
            /\ new.consolidation => old.consolidation
        BY <2>1, <3>2, DecideDegrades
      <3>5. plan = old /\ plan' = new
        BY <2>2, <3>1
      <3> HIDE DEF old, new
      <3> QED
        BY <3>4, <3>5 DEF Degrades
    <2> QED
      BY <2>3, <2>4 DEF Policy!Next
  <1> QED
    BY PolicyInit, PolicyNext, <1>1, PTL
       DEF Policy!Spec, DegradesGracefully, Policy!DegradesGracefully

(* With room enough, KVCacheManager::plan() never gets a budget below the   *)
(* windows it subtracts.                                                   *)
THEOREM RoomyBudgetCoversWindows ==
  ASSUME Policy!PowerAssumption, \A c \in Configs : Roomy(c)
  PROVE  Policy!Spec => []BudgetCoversWindows
  <1>1. PolicyInv => BudgetCoversWindows
    <2> SUFFICES ASSUME PolicyInv PROVE BudgetCoversWindows
      OBVIOUS
    <2>1. config \in Configs /\ plan.mode \in Policy!Modes
      BY DEF PolicyInv, Policy!TypeOK
    <2>2. PICK s \in BOOLEAN : plan = Policy!Decide(plan.mode, s, config)
      BY DEF PolicyInv, PlanMade
    <2>3. plan.kv = Policy!KVBudget(plan.mode, config)
      BY <2>2 DEF Policy!Decide
    <2> QED
      BY <2>1, <2>3, BudgetCovers DEF BudgetCoversWindows, Policy!BudgetCoversWindows
  <1> QED
    BY PolicyInit, PolicyNext, <1>1, PTL DEF Policy!Spec

-----------------------------------------------------------------------------
(* The KV manager as its own proofs describe it.  Their operators are those  *)
(* of KV, instance for instance.                                           *)
KVP == INSTANCE KVCacheManagerProofs WITH Budgets <- TokenBudgets

LEMMA SameTokens ==
  ASSUME NEW ids
  PROVE  KVP!Tokens(ids) = KV!Tokens(ids)
BY DEF KVP!Tokens, KVP!Counts, KVP!Tracked, KVP!SumFunctionOnSet,
       KVP!FoldFunctionOnSet, KVP!MapThenFoldSet,
       KV!Tokens, KV!Counts, KV!Tracked, KV!SumFunctionOnSet,
       KV!FoldFunctionOnSet, KV!MapThenFoldSet

LEMMA SameTests ==
  /\ KVP!Tracked = KV!Tracked
  /\ \A b, budget : KVP!Evictable(b, budget) <=> KV!Evictable(b, budget)
BY DEF KVP!Tracked, KVP!Evictable, KVP!InSink, KVP!RecentFrom,
       KV!Tracked, KV!Evictable, KV!InSink, KV!RecentFrom

LEMMA SamePlans ==
  ASSUME NEW budget
  PROVE  KVP!Plans(budget) = KV!Plans(budget)
<1>1. KVP!Sorted = KV!Sorted
  BY DEF KVP!Sorted, KVP!Tracked, KVP!SetToSeqs, KVP!Cardinality,
         KV!Sorted, KV!Tracked, KV!SetToSeqs, KV!Cardinality
<1>2. ASSUME NEW order PROVE KVP!PlanOf(order, budget) = KV!PlanOf(order, budget)
  BY DEF KVP!PlanOf, KVP!Take, KVP!Evictable, KVP!InSink, KVP!RecentFrom,
         KVP!FoldLeft, KVP!MapThenFoldSet, KVP!Max,
         KV!PlanOf, KV!Take, KV!Evictable, KV!InSink, KV!RecentFrom,
         KV!FoldLeft, KV!MapThenFoldSet, KV!Max
<1>. QED BY <1>1, <1>2 DEF KVP!Plans, KV!Plans

LEMMA SameSteps == [KV!Next]_(KV!vars) => [KVP!Next]_(KVP!vars)
<1>1. \A budget : KVP!Plans(budget) = KV!Plans(budget)
  BY SamePlans
<1>. QED BY <1>1 DEF KVP!Next, KVP!Host, KVP!Observe, KVP!Release, KVP!Reset, KVP!Plan,
                     KVP!ReleaseNext, KVP!NoBlocks, KVP!Tracked, KVP!Ids, KVP!vars,
                     KV!Next, KV!Host, KV!Observe, KV!Release, KV!Reset, KV!Plan,
                     KV!ReleaseNext, KV!NoBlocks, KV!Tracked, KV!Ids, KV!vars

LEMMA SameSpec ==
  /\ KV!KVAssumption => KVP!KVAssumption
  /\ KV!Spec => KVP!Spec
<1>1. KV!KVAssumption => KVP!KVAssumption
  BY DEF KV!KVAssumption, KVP!KVAssumption
<1>2. KV!Init => KVP!Init
  BY DEF KV!Init, KVP!Init, KV!NoBlocks, KVP!NoBlocks
<1>. QED BY <1>1, <1>2, SameSteps, PTL DEF KV!Spec, KVP!Spec

LEMMA SamePlanIsRight ==
  ASSUME NEW s, NEW budget
  PROVE  KVP!PlanIsRight(s, budget) <=> KV!PlanIsRight(s, budget)
<1>1. KVP!ToSet(s) = KV!ToSet(s) /\ KVP!Front(s) = KV!Front(s)
  BY DEF KVP!ToSet, KV!ToSet, KVP!Front, KV!Front
<1>2. KVP!ToSet(KVP!Front(s)) = KV!ToSet(KV!Front(s))
  BY <1>1 DEF KVP!ToSet, KV!ToSet
<1>. QED BY <1>1, <1>2, SameTokens, SameTests DEF KVP!PlanIsRight, KV!PlanIsRight

LEMMA SameRecent ==
  KVP!RecentKept <=> KV!RecentKept
<1>1. KVP!LastToken = KV!LastToken
  BY DEF KVP!LastToken, KV!LastToken, KVP!Tracked, KV!Tracked, KVP!Max, KV!Max
<1>2. \A budget : KVP!KeepsRecent(budget) <=> KV!KeepsRecent(budget)
  BY <1>1, SamePlans DEF KVP!KeepsRecent, KV!KeepsRecent, KVP!InRecent, KV!InRecent,
                         KVP!ToSet, KV!ToSet
<1>3. KVP!RecentAlwaysKept <=> KV!RecentAlwaysKept
  BY <1>2 DEF KVP!RecentAlwaysKept, KV!RecentAlwaysKept
<1>4. KVP!Apart <=> KV!Apart
  BY DEF KVP!Apart, KV!Apart, KVP!Tracked, KV!Tracked, KVP!Covered, KV!Covered
<1>. QED BY <1>3, <1>4, SameTokens, SameTests DEF KVP!RecentKept, KV!RecentKept

(* Every plan that could be asked for takes the coldest evictable blocks,    *)
(* enough of them and none more, whatever order std::sort leaves ties in.    *)
THEOREM KVPlansAreRight ==
  ASSUME KV!KVAssumption PROVE KV!Spec => []PlansAreRight
<1>1. KVP!PlansAreRight => PlansAreRight
  BY SamePlans, SamePlanIsRight DEF PlansAreRight, KVP!PlansAreRight, KV!PlansAreRight
<1>2. KVP!Spec => []KVP!PlansAreRight
  BY SameSpec, KVP!PlansAreAlwaysRight
<1>. QED BY <1>1, <1>2, SameSpec, PTL

(* As long as the total is exact and blocks overlap nowhere, no plan for a   *)
(* budget with room for it takes from the recent window.                    *)
THEOREM KVRecentIsKept ==
  ASSUME KV!KVAssumption PROVE KV!Spec => []RecentKept
<1>1. KVP!RecentKept => RecentKept
  BY SameRecent DEF RecentKept
<1>2. KVP!Spec => []KVP!RecentKept
  BY SameSpec, KVP!ExactTotalKeepsRecent
<1>. QED BY <1>1, <1>2, SameSpec, PTL

(* Whatever else is called in between, only observing a tracked sequence     *)
(* again makes the total drift from the tokens tracked.                     *)
THEOREM KVOnlyUpdatesDrift ==
  ASSUME KV!KVAssumption PROVE KV!Spec => OnlyUpdatesDrift
<1>1. KVP!Spec => KVP!OnlyUpdatesDrift
  BY SameSpec, KVP!OnlyUpdatesMakeDrift
<1>2. /\ KVP!Tracked = KV!Tracked
      /\ KVP!Tokens(KVP!Tracked) = KV!Tokens(KV!Tracked)
      /\ KVP!vars = KV!vars /\ KVP!vars' = KV!vars'
  BY SameTokens, SameTests DEF KVP!vars, KV!vars
<1>3. KVP!Tokens(KVP!Tracked)' = KV!Tokens(KV!Tracked)'
  BY DEF KVP!Tokens, KVP!Counts, KVP!Tracked, KVP!SumFunctionOnSet,
         KVP!FoldFunctionOnSet, KVP!MapThenFoldSet,
         KV!Tokens, KV!Counts, KV!Tracked, KV!SumFunctionOnSet,
         KV!FoldFunctionOnSet, KV!MapThenFoldSet
<1>4. \A b : KVP!Observe(b) <=> KV!Observe(b)
  BY SameTests DEF KVP!Observe, KV!Observe
<1>5. [total' - KVP!Tokens(KVP!Tracked)' # total - KVP!Tokens(KVP!Tracked) =>
         \/ \E b \in Blocks : b.id \in KVP!Tracked /\ KVP!Observe(b)
         \/ total' = KVP!Tokens(KVP!Tracked)']_(KVP!vars)
      => [total' - KV!Tokens(KV!Tracked)' # total - KV!Tokens(KV!Tracked) =>
         \/ \E b \in Blocks : b.id \in KV!Tracked /\ KV!Observe(b)
         \/ total' = KV!Tokens(KV!Tracked)']_(KV!vars)
  BY <1>2, <1>3, <1>4
<1>. QED BY <1>1, <1>5, SameSpec, PTL
        DEF OnlyUpdatesDrift, KV!OnlyUpdatesDrift, KVP!OnlyUpdatesDrift
-----------------------------------------------------------------------------
(* The telemetry: what it has is typed, and what tick() has read of a cache  *)
(* lies between the counters it started from and those of now.              *)
Counters == {"hits", "misses"}

StatsType == stats \in [Metrics!PoolSet -> [Counters -> Nat]]

ReadSoFar ==
  /\ tick.left # << >>
  /\ tick.left \in Seq(Metrics!PoolSet)
  /\ tick.toRead \subseteq Counters
  /\ tick.read \in [Counters -> Nat] /\ tick.from \in [Counters -> Nat]
  /\ tick.cleared \in BOOLEAN
  /\ ~tick.cleared =>
       \A f \in Counters :
          IF f \in tick.toRead
          THEN tick.from[f] <= stats[Head(tick.left)][f]
          ELSE tick.from[f] <= tick.read[f] /\ tick.read[f] <= stats[Head(tick.left)][f]

TickFields == {"left", "toRead", "read", "from", "cleared"}

TelemetryInv ==
  /\ Metrics!TypeOK
  /\ StatsType
  /\ tick = [left |-> tick.left, toRead |-> tick.toRead, read |-> tick.read,
             from |-> tick.from, cleared |-> tick.cleared]
  /\ tick = Metrics!NoTick \/ ReadSoFar
  /\ latencies \in Seq(Nat)
  /\ predictions \in [total : Nat, top1 : Nat, top3 : Nat]
  /\ predictions.top1 <= predictions.top3 /\ predictions.top3 <= predictions.total
  /\ IsFiniteSet(DOMAIN cache)

LEMMA ZeroTyped == Metrics!Zero \in [Counters -> Nat]
BY DEF Metrics!Zero, Counters

LEMMA TelemetryInit ==
  ASSUME Metrics!TelemetryAssumption, Metrics!Init
  PROVE  TelemetryInv
<1>1. /\ buffer = << >> /\ latencies = << >> /\ thrash = 0 /\ issues = 0 /\ calls = 0
      /\ predictions = [total |-> 0, top1 |-> 0, top3 |-> 0]
      /\ DOMAIN cache = {}
      /\ stats = [p \in Metrics!PoolSet |-> Metrics!Zero]
      /\ tick = Metrics!NoTick
  BY DEF Metrics!Init
<1>2. TelemetryBuffer \in Nat /\ MaxCalls \in Nat
  BY DEF Metrics!TelemetryAssumption
<1>3. Metrics!TypeOK
  BY <1>1, <1>2 DEF Metrics!TypeOK
<1>4. StatsType
  BY <1>1, ZeroTyped DEF StatsType
<1>. QED BY <1>1, <1>3, <1>4, FS_EmptySet DEF TelemetryInv, Metrics!NoTick

LEMMA TrimProperties ==
  ASSUME Metrics!TelemetryAssumption, NEW s \in Seq(Kinds)
  PROVE  Metrics!Trim(s) \in Seq(Kinds) /\ Len(Metrics!Trim(s)) <= TelemetryBuffer
<1>1. PICK n \in Nat, b \in Nat : n = Len(s) /\ b = TelemetryBuffer
  BY DEF Metrics!TelemetryAssumption
<1>2. CASE n > b
  <2>1. n - b + 1 \in 1..(n + 1)
    BY <1>1, <1>2
  <2>2. PICK t : t = SubSeq(s, n - b + 1, n)
    OBVIOUS
  <2>3. t \in Seq(Kinds) /\ Len(t) = n - (n - b + 1) + 1
    BY <1>1, <1>2, <2>1, <2>2
  <2>4. Metrics!Trim(s) = t
    BY <1>1, <1>2, <2>2 DEF Metrics!Trim
  <2>. QED BY <1>1, <2>3, <2>4
<1>3. CASE ~(n > b)
  BY <1>1, <1>3 DEF Metrics!Trim
<1>. QED BY <1>2, <1>3

(* What no step of tick() nor of the caches touches. *)
LEMMA RecorderKeeps ==
  ASSUME Metrics!TelemetryAssumption, TelemetryInv, Metrics!Call,
         UNCHANGED <<stats, tick, cache>>,
         buffer' \in Seq(Kinds), Len(buffer') <= TelemetryBuffer,
         latencies' = latencies,
         predictions' \in [total : Nat, top1 : Nat, top3 : Nat],
         predictions'.top1 <= predictions'.top3, predictions'.top3 <= predictions'.total,
         thrash' \in Nat, issues' \in Nat
  PROVE  TelemetryInv'
<1>1. calls' \in 0..MaxCalls
  BY DEF Metrics!Call, Metrics!TelemetryAssumption, TelemetryInv, Metrics!TypeOK
<1>2. Metrics!TypeOK'
  BY <1>1 DEF TelemetryInv, Metrics!TypeOK, Metrics!PoolSet
<1>3. StatsType'
  BY DEF TelemetryInv, StatsType
<1>4. (tick = Metrics!NoTick \/ ReadSoFar)'
  BY DEF TelemetryInv, ReadSoFar, Metrics!NoTick
<1>. QED BY <1>2, <1>3, <1>4 DEF TelemetryInv

LEMMA RecordersKeep ==
  ASSUME Metrics!TelemetryAssumption, TelemetryInv,
         \/ \E kind \in Kinds : Metrics!RecordEvent(kind)
         \/ \E top1, top3 \in BOOLEAN : (top1 => top3) /\ Metrics!RecordPrediction(top1, top3)
         \/ Metrics!RecordThrash(1)
         \/ Metrics!RecordStabilityIssue
  PROVE  TelemetryInv'
<1>0. /\ buffer \in Seq(Kinds) /\ Len(buffer) <= TelemetryBuffer
      /\ thrash \in Nat /\ issues \in Nat
      /\ predictions \in [total : Nat, top1 : Nat, top3 : Nat]
      /\ predictions.top1 <= predictions.top3 /\ predictions.top3 <= predictions.total
  BY DEF TelemetryInv, Metrics!TypeOK
<1>1. ASSUME NEW kind \in Kinds, Metrics!RecordEvent(kind) PROVE TelemetryInv'
  <2>1. Append(buffer, kind) \in Seq(Kinds)
    BY <1>0
  <2>2. buffer' \in Seq(Kinds) /\ Len(buffer') <= TelemetryBuffer
    BY <1>1, <2>1, TrimProperties DEF Metrics!RecordEvent
  <2>. QED BY <1>0, <1>1, <2>2, RecorderKeeps DEF Metrics!RecordEvent, Metrics!tickVars
<1>2. ASSUME NEW top1 \in BOOLEAN, NEW top3 \in BOOLEAN, top1 => top3,
             Metrics!RecordPrediction(top1, top3)
      PROVE  TelemetryInv'
  <2>1. PICK a \in Nat, b \in Nat, c \in Nat :
           /\ predictions.top1 = a /\ predictions.top3 = b /\ predictions.total = c
           /\ a <= b /\ b <= c
    BY <1>0
  <2>2. PICK x \in {0, 1}, y \in {0, 1} :
           /\ predictions' = [total |-> c + 1, top1 |-> a + x, top3 |-> b + y]
           /\ x <= y
    BY <1>2, <2>1 DEF Metrics!RecordPrediction, Metrics!One
  <2>3. /\ predictions' \in [total : Nat, top1 : Nat, top3 : Nat]
        /\ predictions'.top1 <= predictions'.top3 /\ predictions'.top3 <= predictions'.total
    BY <2>1, <2>2
  <2>4. /\ Metrics!Call /\ UNCHANGED <<stats, tick, cache>>
        /\ buffer' = buffer /\ latencies' = latencies /\ thrash' = thrash /\ issues' = issues
    BY <1>2 DEF Metrics!RecordPrediction, Metrics!tickVars
  <2>. QED BY <1>0, <2>3, <2>4, RecorderKeeps
<1>3. CASE Metrics!RecordThrash(1)
  <2>1. thrash' \in Nat
    BY <1>0, <1>3 DEF Metrics!RecordThrash
  <2>. QED BY <1>0, <1>3, <2>1, RecorderKeeps DEF Metrics!RecordThrash, Metrics!tickVars
<1>4. CASE Metrics!RecordStabilityIssue
  <2>1. issues' \in Nat
    BY <1>0, <1>4 DEF Metrics!RecordStabilityIssue
  <2>. QED BY <1>0, <1>4, <2>1, RecorderKeeps DEF Metrics!RecordStabilityIssue, Metrics!tickVars
<1>. QED BY <1>1, <1>2, <1>3, <1>4

(* Other threads only count up what a tick has yet to read, or clear it.     *)
LEMMA LookupKeeps ==
  ASSUME Metrics!TelemetryAssumption, TelemetryInv,
         NEW p \in Metrics!PoolSet, NEW field \in Counters, Metrics!Lookup(p, field)
  PROVE  TelemetryInv'
<1>1. stats' = [stats EXCEPT ![p][field] = stats[p][field] + 1] /\ Metrics!Call
  BY DEF Metrics!Lookup
<1>2. StatsType
  BY DEF TelemetryInv
<1>3. StatsType'
  BY <1>1, <1>2 DEF StatsType
<1>4. \A q \in Metrics!PoolSet, f \in Counters : stats[q][f] <= stats'[q][f]
  BY <1>1, <1>2 DEF StatsType
<1>5. UNCHANGED <<buffer, latencies, predictions, cache, thrash, issues, tick>>
  BY DEF Metrics!Lookup, Metrics!telemetryVars
<1>6. calls' \in 0..MaxCalls
  BY <1>1 DEF Metrics!Call, Metrics!TelemetryAssumption, TelemetryInv, Metrics!TypeOK
<1>7. Metrics!TypeOK'
  BY <1>5, <1>6 DEF TelemetryInv, Metrics!TypeOK, Metrics!PoolSet
<1>8. ASSUME ReadSoFar PROVE ReadSoFar'
  <2>1. Head(tick.left) \in Metrics!PoolSet
    BY <1>8 DEF ReadSoFar
  <2>2. \A f \in Counters : /\ stats[Head(tick.left)][f] <= stats'[Head(tick.left)][f]
                            /\ stats[Head(tick.left)][f] \in Nat
                            /\ stats'[Head(tick.left)][f] \in Nat
                            /\ tick.from[f] \in Nat /\ tick.read[f] \in Nat
    BY <1>2, <1>3, <1>4, <1>8, <2>1 DEF StatsType, ReadSoFar
  <2>3. \A f \in Counters :
          ~tick.cleared =>
            IF f \in tick.toRead
            THEN tick.from[f] <= stats'[Head(tick.left)][f]
            ELSE tick.from[f] <= tick.read[f] /\ tick.read[f] <= stats'[Head(tick.left)][f]
    BY <1>8, <2>2 DEF ReadSoFar
  <2>. QED BY <1>5, <1>8, <2>3 DEF ReadSoFar, Metrics!PoolSet
<1>9. (tick = Metrics!NoTick \/ ReadSoFar)'
  BY <1>5, <1>8 DEF TelemetryInv, Metrics!NoTick, Metrics!Zero
<1>. QED BY <1>3, <1>5, <1>7, <1>9 DEF TelemetryInv

LEMMA ClearCacheKeeps ==
  ASSUME Metrics!TelemetryAssumption, TelemetryInv,
         NEW p \in Metrics!PoolSet, Metrics!ClearCache(p)
  PROVE  TelemetryInv'
<1>1. stats' = [stats EXCEPT ![p] = Metrics!Zero] /\ Metrics!Call
  BY DEF Metrics!ClearCache
<1>2. StatsType /\ StatsType'
  BY <1>1, ZeroTyped DEF TelemetryInv, StatsType
<1>3. UNCHANGED <<buffer, latencies, predictions, cache, thrash, issues>>
  BY DEF Metrics!ClearCache, Metrics!telemetryVars
<1>4. calls' \in 0..MaxCalls
  BY <1>1 DEF Metrics!Call, Metrics!TelemetryAssumption, TelemetryInv, Metrics!TypeOK
<1>5. Metrics!TypeOK'
  BY <1>3, <1>4 DEF TelemetryInv, Metrics!TypeOK, Metrics!PoolSet
<1>6. /\ tick' = [left |-> tick.left, toRead |-> tick.toRead, read |-> tick.read,
                  from |-> tick.from,
                  cleared |-> tick.cleared \/ (tick.left # << >> /\ Head(tick.left) = p)]
  BY DEF Metrics!ClearCache, TelemetryInv
<1>7. ASSUME ReadSoFar PROVE ReadSoFar'
  <2>1. Head(tick.left) \in Metrics!PoolSet
    BY <1>7 DEF ReadSoFar
  <2>2. CASE Head(tick.left) = p
    BY <1>6, <1>7, <2>2 DEF ReadSoFar, Metrics!PoolSet
  <2>3. CASE Head(tick.left) # p
    <3>1. stats'[Head(tick.left)] = stats[Head(tick.left)]
      BY <1>1, <1>2, <2>1, <2>3 DEF StatsType
    <3>. QED BY <1>6, <1>7, <2>3, <3>1 DEF ReadSoFar, Metrics!PoolSet
  <2>. QED BY <2>2, <2>3
<1>8. ASSUME tick = Metrics!NoTick PROVE tick' = Metrics!NoTick
  BY <1>6, <1>8 DEF Metrics!NoTick
<1>9. (tick = Metrics!NoTick \/ ReadSoFar)'
  BY <1>7, <1>8 DEF TelemetryInv, Metrics!NoTick, Metrics!Zero
<1>. QED BY <1>2, <1>3, <1>5, <1>6, <1>9 DEF TelemetryInv

(* A pass over the pools begins with what the first cache has counted.       *)
LEMMA ReadingBegins ==
  ASSUME StatsType', stats' = stats, NEW left \in Seq(Metrics!PoolSet),
         tick' = Metrics!Reading(left)
  PROVE  /\ tick' = [left |-> tick'.left, toRead |-> tick'.toRead, read |-> tick'.read,
                     from |-> tick'.from, cleared |-> tick'.cleared]
         /\ tick' = Metrics!NoTick \/ ReadSoFar'
         /\ tick'.left = left
<1>1. CASE left = << >>
  BY <1>1 DEF Metrics!Reading, Metrics!NoTick
<1>2. CASE left # << >>
  <2>1. tick' = [left |-> left, toRead |-> Counters, read |-> Metrics!Zero,
                 from |-> stats[Head(left)], cleared |-> FALSE]
    BY <1>2 DEF Metrics!Reading, Counters
  <2>2. Head(left) \in Metrics!PoolSet
    BY <1>2
  <2>3. stats[Head(left)] \in [Counters -> Nat]
    BY <2>2 DEF StatsType
  <2>4. ReadSoFar'
    BY <1>2, <2>1, <2>2, <2>3, ZeroTyped DEF ReadSoFar, Metrics!PoolSet
  <2>. QED BY <2>1, <2>4
<1>. QED BY <1>1, <1>2

LEMMA RecordLatencyKeeps ==
  ASSUME Metrics!TelemetryAssumption, TelemetryInv,
         NEW ms \in Samples, Metrics!RecordLatency(ms)
  PROVE  TelemetryInv'
<1>1. /\ Metrics!Call /\ latencies' = Append(latencies, ms)
      /\ tick' = Metrics!Reading(<<"app", "model">>)
      /\ UNCHANGED <<buffer, predictions, cache, thrash, issues, stats>>
  BY DEF Metrics!RecordLatency
<1>2. calls' \in 0..MaxCalls
  BY <1>1 DEF Metrics!Call, Metrics!TelemetryAssumption, TelemetryInv, Metrics!TypeOK
<1>3. latencies' \in Seq(Samples) /\ latencies' \in Seq(Nat)
  BY <1>1 DEF TelemetryInv, Metrics!TypeOK, Metrics!TelemetryAssumption
<1>4. Metrics!TypeOK' /\ StatsType'
  BY <1>1, <1>2, <1>3 DEF TelemetryInv, Metrics!TypeOK, Metrics!PoolSet, StatsType
<1>5. <<"app", "model">> \in Seq(Metrics!PoolSet)
  BY DEF Metrics!PoolSet, Metrics!ToSet
<1>. QED BY <1>1, <1>3, <1>4, <1>5, ReadingBegins DEF TelemetryInv

LEMMA ReadStatsKeeps ==
  ASSUME Metrics!TelemetryAssumption, TelemetryInv,
         NEW field \in Counters, Metrics!ReadStats(field)
  PROVE  TelemetryInv'
<1>1. /\ field \in tick.toRead
      /\ UNCHANGED <<buffer, latencies, predictions, cache, thrash, issues, stats, calls>>
  BY DEF Metrics!ReadStats, Metrics!telemetryVars
<1>2. ReadSoFar
  BY <1>1 DEF TelemetryInv, Metrics!NoTick
<1>3. PICK read : read = [tick.read EXCEPT ![field] = stats[Head(tick.left)][field]]
  OBVIOUS
<1>4. tick' = [left |-> tick.left, toRead |-> tick.toRead \ {field}, read |-> read,
               from |-> tick.from, cleared |-> tick.cleared]
  BY <1>3 DEF Metrics!ReadStats, TelemetryInv
<1>5. Head(tick.left) \in Metrics!PoolSet
  BY <1>2 DEF ReadSoFar
<1>6. \A f \in Counters : stats[Head(tick.left)][f] \in Nat
  BY <1>5 DEF TelemetryInv, StatsType
<1>7. /\ read \in [Counters -> Nat]
      /\ \A f \in Counters :
            read[f] = IF f = field THEN stats[Head(tick.left)][f] ELSE tick.read[f]
  BY <1>2, <1>3, <1>6 DEF ReadSoFar
<1>8. ~tick.cleared =>
         \A f \in Counters :
            IF f \in tick.toRead \ {field}
            THEN tick.from[f] <= stats[Head(tick.left)][f]
            ELSE tick.from[f] <= read[f] /\ read[f] <= stats[Head(tick.left)][f]
  BY <1>1, <1>2, <1>6, <1>7 DEF ReadSoFar
<1>9. ReadSoFar'
  BY <1>1, <1>2, <1>4, <1>7, <1>8 DEF ReadSoFar, Metrics!PoolSet
<1>10. Metrics!TypeOK' /\ StatsType'
  BY <1>1 DEF TelemetryInv, Metrics!TypeOK, Metrics!PoolSet, StatsType
<1>. QED BY <1>1, <1>4, <1>9, <1>10 DEF TelemetryInv

LEMMA RecordCacheKeeps ==
  ASSUME Metrics!TelemetryAssumption, TelemetryInv, Metrics!RecordCache
  PROVE  /\ TelemetryInv'
         /\ ReadSoFar /\ tick.toRead = {} /\ cache'[Head(tick.left)] = tick.read
<1>1. /\ tick.left # << >> /\ tick.toRead = {}
      /\ tick' = Metrics!Reading(Tail(tick.left))
      /\ UNCHANGED <<buffer, latencies, predictions, thrash, issues, stats, calls>>
  BY DEF Metrics!RecordCache
<1>2. ReadSoFar
  BY <1>1 DEF TelemetryInv, Metrics!NoTick
<1>3. Head(tick.left) \in Metrics!PoolSet /\ Tail(tick.left) \in Seq(Metrics!PoolSet)
  BY <1>2 DEF ReadSoFar
<1>4. cache' = [q \in DOMAIN cache \cup {Head(tick.left)} |->
                  IF q = Head(tick.left) THEN tick.read ELSE cache[q]]
  BY DEF Metrics!RecordCache
<1>5. \A q \in DOMAIN cache' : q \in Metrics!PoolSet /\ cache'[q] \in [Counters -> Nat]
  BY <1>2, <1>3, <1>4 DEF TelemetryInv, Metrics!TypeOK, Counters, ReadSoFar
<1>6. IsFiniteSet(DOMAIN cache')
  BY <1>4, FS_AddElement DEF TelemetryInv
<1>7. Metrics!TypeOK' /\ StatsType'
  BY <1>1, <1>5 DEF TelemetryInv, Metrics!TypeOK, Metrics!PoolSet, StatsType, Counters
<1>8. TelemetryInv'
  BY <1>1, <1>3, <1>6, <1>7, ReadingBegins DEF TelemetryInv
<1>. QED BY <1>1, <1>2, <1>4, <1>8

LEMMA TelemetryNext ==
  ASSUME Metrics!TelemetryAssumption
  PROVE  TelemetryInv /\ [Metrics!Next]_(Metrics!vars) => TelemetryInv'
<1>. SUFFICES ASSUME TelemetryInv, [Metrics!Next]_(Metrics!vars) PROVE TelemetryInv'
  OBVIOUS
<1>1. CASE \/ \E kind \in Kinds : Metrics!RecordEvent(kind)
           \/ \E top1, top3 \in BOOLEAN : (top1 => top3) /\ Metrics!RecordPrediction(top1, top3)
           \/ Metrics!RecordThrash(1)
           \/ Metrics!RecordStabilityIssue
  BY <1>1, RecordersKeep
<1>2. CASE \E p \in Metrics!PoolSet : Metrics!ClearCache(p)
  BY <1>2, ClearCacheKeeps
<1>3. CASE \E p \in Metrics!PoolSet, f \in Counters : Metrics!Lookup(p, f)
  BY <1>3, LookupKeeps
<1>4. CASE \E ms \in Samples : Metrics!RecordLatency(ms)
  BY <1>4, RecordLatencyKeeps
<1>5. CASE \E f \in Counters : Metrics!ReadStats(f)
  BY <1>5, ReadStatsKeeps
<1>6. CASE Metrics!RecordCache
  BY <1>6, RecordCacheKeeps
<1>7. CASE UNCHANGED Metrics!vars
  <2>1. UNCHANGED <<buffer, latencies, predictions, cache, thrash, issues, stats, tick, calls>>
    BY <1>7 DEF Metrics!vars, Metrics!telemetryVars, Metrics!tickVars
  <2>2. Metrics!TypeOK' /\ StatsType'
    BY <2>1 DEF TelemetryInv, Metrics!TypeOK, Metrics!PoolSet, StatsType
  <2>3. (tick = Metrics!NoTick \/ ReadSoFar)'
    BY <2>1 DEF TelemetryInv, ReadSoFar, Metrics!NoTick, Metrics!Zero, Metrics!PoolSet
  <2>. QED BY <2>1, <2>2, <2>3 DEF TelemetryInv
<1>8. CASE Metrics!Next
  BY <1>1, <1>2, <1>3, <1>4, <1>5, <1>6, <1>7, <1>8
     DEF Metrics!Next, Metrics!Snapshot, Counters
<1>. QED BY <1>7, <1>8

LEMMA TelemetryInvariance ==
  ASSUME Metrics!TelemetryAssumption PROVE Metrics!Spec => []TelemetryInv
BY TelemetryInit, TelemetryNext, PTL DEF Metrics!Spec

(* Whatever is looked up or cleared between the two reads, tick() records of *)
(* each counter a value between that at the first read and that of now.     *)
THEOREM TickRecordsWhatItRead ==
  ASSUME Metrics!TelemetryAssumption PROVE Metrics!Spec => RecordsWhatItRead
<1>. DEFINE InBetween ==
       tick.left # << >> /\ tick'.left # tick.left /\ ~tick.cleared =>
         \A f \in {"hits", "misses"} :
            cache'[Head(tick.left)][f] \in tick.from[f]..stats[Head(tick.left)][f]
<1>1. TelemetryInv /\ [Metrics!Next]_(Metrics!vars) => [InBetween]_(Metrics!vars)
  <2>. SUFFICES ASSUME TelemetryInv, Metrics!Next,
                       tick.left # << >>, tick'.left # tick.left, ~tick.cleared,
                       NEW f \in {"hits", "misses"}
                PROVE  cache'[Head(tick.left)][f] \in tick.from[f]..stats[Head(tick.left)][f]
    OBVIOUS
  <2>1. Metrics!RecordCache
    <3>1. tick # Metrics!NoTick
      BY DEF Metrics!NoTick
    <3>2. ASSUME NEW p \in Metrics!PoolSet, Metrics!ClearCache(p) PROVE tick'.left = tick.left
      BY <3>2 DEF Metrics!ClearCache, TelemetryInv
    <3>3. ASSUME NEW g \in {"hits", "misses"}, Metrics!ReadStats(g) PROVE tick'.left = tick.left
      BY <3>3 DEF Metrics!ReadStats, TelemetryInv
    <3>. QED BY <3>1, <3>2, <3>3
         DEF Metrics!Next, Metrics!RecordEvent, Metrics!RecordPrediction, Metrics!RecordThrash,
             Metrics!RecordStabilityIssue, Metrics!Lookup, Metrics!RecordLatency,
             Metrics!Snapshot, Metrics!vars, Metrics!tickVars
  <2>2. ReadSoFar /\ tick.toRead = {} /\ cache'[Head(tick.left)] = tick.read
    BY <2>1, RecordCacheKeeps
  <2>3. Head(tick.left) \in Metrics!PoolSet
    BY <2>2 DEF ReadSoFar
  <2>4. f \in Counters /\ stats[Head(tick.left)][f] \in Nat
    BY <2>3 DEF Counters, TelemetryInv, StatsType
  <2>. QED BY <2>2, <2>4 DEF ReadSoFar
<1>. QED BY <1>1, TelemetryInvariance, PTL
        DEF Metrics!Spec, RecordsWhatItRead, Metrics!RecordsWhatItRead

(* Two instances of the library's operators. *)
LEMMA RecordedIsSum ==
  ASSUME NEW field
  PROVE  Metrics!Recorded(field)
           = SumFunctionOnSet([p \in DOMAIN cache |-> cache[p][field]], DOMAIN cache)
BY DEF Metrics!Recorded, Metrics!SumFunction, Metrics!SumFunctionOnSet,
       Metrics!FoldFunctionOnSet, Metrics!MapThenFoldSet,
       SumFunctionOnSet, FoldFunctionOnSet, MapThenFoldSet

LEMMA RecordedTyped ==
  ASSUME TelemetryInv, NEW field \in Counters
  PROVE  Metrics!Recorded(field) \in Nat
<1>. DEFINE f == [p \in DOMAIN cache |-> cache[p][field]]
<1>1. IsFiniteSet(DOMAIN cache) /\ \A p \in DOMAIN cache : f[p] \in Nat
  BY DEF TelemetryInv, Metrics!TypeOK, Counters
<1>. HIDE DEF f
<1>2. SumFunctionOnSet(f, DOMAIN cache) \in Nat
  BY <1>1, SumMonotone
<1>. QED BY <1>2, RecordedIsSum DEF f

LEMMA SortedIsOrder ==
  ASSUME TelemetryInv
  PROVE  /\ Metrics!Sorted \in SetToSeqs(1..Len(latencies))
         /\ InOrder(Metrics!Sorted, 1..Len(latencies), latencies)
<1>0. PICK n \in Nat : n = Len(latencies)
  BY DEF TelemetryInv
<1>1. PICK S : /\ S = 1..n /\ S = DOMAIN latencies
               /\ \A x \in S : latencies[x] \in Int
  BY <1>0 DEF TelemetryInv
<1>2. IsFiniteSet(S) /\ Cardinality(S) = n
  BY <1>1, FS_Interval
<1>3. PICK o \in SetToSeqs(S) : InOrder(o, S, latencies)
  BY <1>1, <1>2, OrderExists
<1>4. Metrics!SetToSeqs(S) = SetToSeqs(S)
  BY DEF Metrics!SetToSeqs, SetToSeqs, Metrics!Cardinality, Cardinality
<1>5. \A q \in SetToSeqs(S) : DOMAIN q = 1..Cardinality(S)
  BY DEF SetToSeqs
<1>6. \A q : q \in Metrics!Ascending <=> q \in SetToSeqs(S) /\ InOrder(q, S, latencies)
  BY <1>1, <1>4, <1>5 DEF Metrics!Ascending, InOrder
<1>7. Metrics!Sorted \in Metrics!Ascending
  BY <1>3, <1>6 DEF Metrics!Sorted
<1>. QED BY <1>0, <1>1, <1>6, <1>7

IsRank(n, p, r) == r \in 1..n /\ 100 * r >= p * n /\ 100 * (r - 1) <= p * n

LEMMA RankBounds ==
  ASSUME NEW n \in Nat, n # 0, NEW p \in {50, 95, 99}
  PROVE  IsRank(n, p, Metrics!Rank(n, p))
<1>1. PICK x \in Nat : x = p * n /\ x <= 100 * n
  <2>1. CASE p = 50
    BY <2>1
  <2>2. CASE p = 95
    BY <2>2
  <2>3. CASE p = 99
    BY <2>3
  <2>. QED BY <2>1, <2>2, <2>3
<1>2. PICK q \in Nat : q = x \div 100 /\ 100 * q <= x /\ x < 100 * q + 100
  BY <1>1
<1>3. n * p = x
  <2>1. CASE p = 50
    BY <1>1, <2>1
  <2>2. CASE p = 95
    BY <1>1, <2>2
  <2>3. CASE p = 99
    BY <1>1, <2>3
  <2>. QED BY <2>1, <2>2, <2>3
<1>4. Metrics!Rank(n, p) = Metrics!Min({n, q + 1})
  BY <1>2, <1>3 DEF Metrics!Rank
<1>5. Metrics!Min({n, q + 1}) = IF n <= q + 1 THEN n ELSE q + 1
  BY DEF Metrics!Min
<1>6. CASE n <= q + 1
  BY <1>1, <1>2, <1>4, <1>5, <1>6 DEF IsRank
<1>7. CASE ~(n <= q + 1)
  BY <1>1, <1>2, <1>4, <1>5, <1>7 DEF IsRank
<1>. QED BY <1>6, <1>7

LEMMA PercentileRight ==
  ASSUME TelemetryInv, NEW p \in {50, 95, 99}, NEW n \in Nat, n = Len(latencies), n # 0,
         NEW v, v = Metrics!Percentile(p)
  PROVE  /\ 100 * Cardinality(PlacesUpTo(n, latencies, v)) >= p * n
         /\ 100 * Cardinality(PlacesBelow(n, latencies, v)) <= p * n
<1>1. IsRank(n, p, Metrics!Rank(n, p))
  BY RankBounds
<1>2. PICK r : r = Metrics!Rank(n, p) /\ IsRank(n, p, r)
  BY <1>1
<1>3. PICK x : x = p * n
  OBVIOUS
<1>4. r \in 1..n /\ 100 * r >= x /\ 100 * (r - 1) <= x
  BY <1>2, <1>3 DEF IsRank
<1>5. x \in Int
  <2>1. CASE p = 50
    BY <1>3, <2>1
  <2>2. CASE p = 95
    BY <1>3, <2>2
  <2>3. CASE p = 99
    BY <1>3, <2>3
  <2>. QED BY <2>1, <2>2, <2>3
<1>6. PICK o : o = Metrics!Sorted /\ o \in SetToSeqs(1..n) /\ InOrder(o, 1..n, latencies)
  BY SortedIsOrder
<1>7. \A i \in 1..n : latencies[i] \in Int
  BY DEF TelemetryInv
<1>8. v = latencies[o[r]]
  BY <1>2, <1>6 DEF Metrics!Percentile
<1>9. HasRank(n, latencies, latencies[o[r]], r)
  <2>1. PICK S, key : S = 1..n /\ key = latencies
    OBVIOUS
  <2>2. (\A i \in S : key[i] \in Int) /\ o \in SetToSeqs(S) /\ InOrder(o, S, key) /\ r \in S
    BY <1>4, <1>6, <1>7, <2>1
  <2>3. HasRank(n, key, key[o[r]], r)
    BY <2>1, <2>2, RankProperties
  <2>. QED BY <2>1, <2>3
<1>10. PICK a \in Nat, b \in Nat :
          /\ a = Cardinality(PlacesUpTo(n, latencies, v)) /\ a >= r
          /\ b = Cardinality(PlacesBelow(n, latencies, v)) /\ b <= r - 1
  BY <1>8, <1>9 DEF HasRank
<1>11. 100 * a >= x /\ 100 * b <= x
  BY <1>4, <1>5, <1>10
<1>. QED BY <1>3, <1>10, <1>11

(* The figures of a snapshot are those of what was recorded: at least p      *)
(* percent of the decisions took no longer than the p-th percentile and no   *)
(* more than that were faster, however std::sort orders equal samples; top-1 *)
(* never exceeds top-3, nor hits the lookups.                              *)
THEOREM KpisAreAlwaysRight ==
  ASSUME Metrics!TelemetryAssumption PROVE Metrics!Spec => []KpisAreRight
<1>1. TelemetryInv => KpisAreRight
  <2>. SUFFICES ASSUME TelemetryInv PROVE Metrics!KpisAreRight
    BY DEF KpisAreRight
  <2>1. PICK n \in Nat : n = Len(latencies)
    BY DEF TelemetryInv
  <2>2. ASSUME NEW p \in {50, 95, 99}, NEW v, v = Metrics!Kpis.decision[p]
        PROVE  /\ 100 * Cardinality(PlacesUpTo(n, latencies, v)) >= p * n
               /\ 100 * Cardinality(PlacesBelow(n, latencies, v)) <= p * n
    <3>1. v = Metrics!Percentile(p)
      BY <2>2 DEF Metrics!Kpis
    <3>2. CASE n = 0
      <4>1. PlacesUpTo(n, latencies, v) = {} /\ PlacesBelow(n, latencies, v) = {}
        BY <3>2 DEF PlacesUpTo, PlacesBelow
      <4>2. p * n = 0
        BY <3>2
      <4>3. Cardinality({}) = 0
        BY FS_EmptySet
      <4>. QED BY <4>1, <4>2, <4>3
    <3>3. CASE n # 0
      BY <2>1, <3>1, <3>3, PercentileRight
    <3>. QED BY <3>2, <3>3
  <2>3. Metrics!Kpis.top1 <= Metrics!Kpis.top3 /\ Metrics!Kpis.top3 <= Metrics!Kpis.total
    BY DEF TelemetryInv, Metrics!Kpis
  <2>4. Metrics!Kpis.hits <= Metrics!Kpis.lookups
    <3>1. PICK h \in Nat, m \in Nat :
             h = Metrics!Recorded("hits") /\ m = Metrics!Recorded("misses")
      BY RecordedTyped DEF Counters
    <3>2. Metrics!Kpis.hits = h /\ Metrics!Kpis.lookups = h + m
      BY <3>1 DEF Metrics!Kpis
    <3>. QED BY <3>2
  <2>5. ASSUME NEW p \in {50, 95, 99}
        PROVE  /\ 100 * Metrics!Cardinality(Metrics!AtMost(Metrics!Kpis.decision[p])) >= p * Len(latencies)
               /\ 100 * Metrics!Cardinality(Metrics!Faster(Metrics!Kpis.decision[p])) <= p * Len(latencies)
    <3>1. PICK v : v = Metrics!Kpis.decision[p]
      OBVIOUS
    <3>2. /\ 100 * Cardinality(PlacesUpTo(n, latencies, v)) >= p * n
          /\ 100 * Cardinality(PlacesBelow(n, latencies, v)) <= p * n
      BY <2>2, <3>1
    <3>3. /\ PlacesUpTo(n, latencies, v) = Metrics!AtMost(v)
          /\ PlacesBelow(n, latencies, v) = Metrics!Faster(v)
      BY <2>1 DEF PlacesUpTo, PlacesBelow, Metrics!AtMost, Metrics!Faster
    <3>4. /\ Metrics!Cardinality(Metrics!AtMost(v)) = Cardinality(Metrics!AtMost(v))
          /\ Metrics!Cardinality(Metrics!Faster(v)) = Cardinality(Metrics!Faster(v))
      BY DEF Metrics!Cardinality, Cardinality
    <3>. QED BY <2>1, <3>1, <3>2, <3>3, <3>4
  <2>. QED BY <2>3, <2>4, <2>5 DEF Metrics!KpisAreRight
<1>. QED BY <1>1, TelemetryInvariance, PTL

-----------------------------------------------------------------------------
LEMMA SameTypes ==
  KVP!TypeOK => KV!TypeOK
<1>1. KVP!IsInjective(pending) => KV!IsInjective(pending)
  BY DEF KVP!IsInjective, KV!IsInjective
<1>. QED BY <1>1 DEF KVP!TypeOK, KV!TypeOK, KVP!Tracked, KV!Tracked, KVP!Ids, KV!Ids

(* The ledger of the KV manager is well formed, a plan of tick() names no    *)
(* block twice, and the telemetry keeps no more events than its buffer      *)
(* holds, whatever is called.                                              *)
THEOREM PartsTypeCorrect ==
  ASSUME KV!KVAssumption, Metrics!TelemetryAssumption
  PROVE  KV!Spec /\ Metrics!Spec => []PartsTypeOK
<1>1. KVP!Spec => []KVP!TypeOK
  BY SameSpec, KVP!TypeCorrect
<1>2. TelemetryInv => Metrics!TypeOK
  BY DEF TelemetryInv
<1>. QED BY <1>1, <1>2, SameSpec, SameTypes, TelemetryInvariance, PTL DEF PartsTypeOK

-----------------------------------------------------------------------------
(* The apps and hours of a log, and what the predictors make of it.          *)
StepsOf(l) == {i \in DOMAIN l : i < Len(l) /\ Apps(l)[i] # NoApp}
Nexts(l) == [i \in StepsOf(l) |-> Apps(l)[i + 1]]
TimedOf(l) == {i \in DOMAIN l : Hours(l)[i] # NoHour}
LastApp(l) == IF l = << >> THEN NoApp ELSE Apps(l)[Len(l)]
LastTime(l) == IF l = << >> THEN 0 ELSE l[Len(l)].time
Latest(l, x) == l[Max({i \in DOMAIN l : Apps(l)[i] = x})].time
LatestOf(l) == [x \in KeysAt(DOMAIN l, Apps(l)) |-> Latest(l, x)]

LEMMA AppsOfMore ==
  ASSUME NEW l, NEW m, NEW ev, NEW p, OneMore(l, m, ev, p)
  PROVE  /\ \A i \in DOMAIN l : Apps(m)[i] = Apps(l)[i] /\ Hours(m)[i] = Hours(l)[i]
         /\ Apps(m)[p] = ev.app /\ Hours(m)[p] = ev.hour
         /\ LastApp(m) = ev.app /\ LastTime(m) = ev.time
         /\ KeysAt(DOMAIN m, Apps(m)) = KeysAt(DOMAIN l, Apps(l)) \cup {ev.app}
<1>1. \A i \in DOMAIN l : Apps(m)[i] = Apps(l)[i] /\ Hours(m)[i] = Hours(l)[i]
  BY DEF OneMore, Apps, Hours
<1>2. Apps(m)[p] = ev.app /\ Hours(m)[p] = ev.hour
  BY DEF OneMore, Apps, Hours
<1>3. LastApp(m) = ev.app /\ LastTime(m) = ev.time
  BY <1>2 DEF OneMore, LastApp, LastTime
<1>4. KeysAt(DOMAIN m, Apps(m)) = KeysAt(DOMAIN l, Apps(l)) \cup {ev.app}
  BY <1>1, <1>2 DEF OneMore, KeysAt
<1>. QED BY <1>1, <1>2, <1>3, <1>4

LEMMA UsesOfMore ==
  ASSUME NEW l, NEW m, NEW ev, NEW p, OneMore(l, m, ev, p)
  PROVE  Tally(DOMAIN m, Apps(m)) = Increment(Tally(DOMAIN l, Apps(l)), ev.app)
<1>1. PICK D, f, g : D = DOMAIN l /\ f = Apps(l) /\ g = Apps(m)
  OBVIOUS
<1>2. IsFiniteSet(D) /\ p \notin D /\ (\A i \in D : g[i] = f[i]) /\ g[p] = ev.app
      /\ DOMAIN m = D \cup {p}
  BY <1>1, AppsOfMore DEF OneMore
<1>3. Tally(D \cup {p}, g) = Increment(Tally(D, f), g[p])
  BY <1>2, TallyAdd
<1>. QED BY <1>1, <1>2, <1>3

(* The last app has found its follower.                                     *)
LEMMA StepsOfMore ==
  ASSUME NEW l, NEW m, NEW ev, NEW p, OneMore(l, m, ev, p)
  PROVE  /\ IsFiniteSet(StepsOf(l))
         /\ \A i \in StepsOf(l) : Apps(m)[i] = Apps(l)[i] /\ Nexts(m)[i] = Nexts(l)[i]
         /\ LastApp(l) = NoApp => StepsOf(m) = StepsOf(l)
         /\ LastApp(l) # NoApp =>
              /\ StepsOf(m) = StepsOf(l) \cup {p - 1} /\ p - 1 \notin StepsOf(l)
              /\ Apps(m)[p - 1] = LastApp(l) /\ Nexts(m)[p - 1] = ev.app
<1>1. /\ \A i \in DOMAIN l : Apps(m)[i] = Apps(l)[i]
      /\ Apps(m)[p] = ev.app
  BY AppsOfMore
<1>2. /\ p \in Nat /\ p # 0 /\ Len(m) = p /\ Len(l) = p - 1
      /\ DOMAIN l = 1..(p - 1) /\ DOMAIN m = 1..p /\ IsFiniteSet(DOMAIN l)
      /\ (l = << >>) <=> (p = 1)
  BY DEF OneMore
<1>3. ASSUME NEW i PROVE i \in StepsOf(l) <=> (i \in 1..(p - 2) /\ Apps(l)[i] # NoApp)
  BY <1>2 DEF StepsOf
<1>4. ASSUME NEW i PROVE i \in StepsOf(m) <=> (i \in 1..(p - 1) /\ Apps(m)[i] # NoApp)
  BY <1>2 DEF StepsOf
<1>5. IsFiniteSet(StepsOf(l))
  <2>1. StepsOf(l) \in SUBSET DOMAIN l
    BY DEF StepsOf
  <2>. QED BY <1>2, <2>1, FS_Subset
<1>6. ASSUME NEW i \in StepsOf(l) PROVE Apps(m)[i] = Apps(l)[i] /\ Nexts(m)[i] = Nexts(l)[i]
  <2>1. i \in 1..(p - 2) /\ i \in DOMAIN l /\ i + 1 \in DOMAIN l /\ Apps(l)[i] # NoApp
    BY <1>2, <1>3
  <2>2. Apps(m)[i] = Apps(l)[i] /\ Apps(m)[i + 1] = Apps(l)[i + 1]
    BY <1>1, <2>1
  <2>3. i \in StepsOf(m)
    BY <1>2, <1>4, <2>1, <2>2
  <2>. QED BY <2>2, <2>3 DEF Nexts
<1>7. p = 1 => LastApp(l) = NoApp
  BY <1>2 DEF LastApp
<1>8. p # 1 => LastApp(l) = Apps(l)[p - 1] /\ p - 1 \in DOMAIN l
  BY <1>2 DEF LastApp
<1>9. ASSUME LastApp(l) = NoApp PROVE StepsOf(m) = StepsOf(l)
  <2>1. ASSUME NEW i PROVE i \in StepsOf(m) <=> i \in StepsOf(l)
    <3>1. CASE i \in 1..(p - 2)
      <4>1. i \in DOMAIN l /\ i \in 1..(p - 1)
        BY <1>2, <3>1
      <4>. QED BY <1>1, <1>3, <1>4, <3>1, <4>1
    <3>2. CASE i = p - 1 /\ p # 1
      <4>1. Apps(m)[i] = NoApp
        BY <1>1, <1>8, <1>9, <3>2
      <4>2. i \notin 1..(p - 2)
        BY <1>2, <3>2
      <4>. QED BY <1>3, <1>4, <4>1, <4>2
    <3>3. CASE i \notin 1..(p - 2) /\ ~(i = p - 1 /\ p # 1)
      <4>1. i \notin 1..(p - 1)
        BY <1>2, <3>3
      <4>. QED BY <1>3, <1>4, <3>3, <4>1
    <3>. QED BY <3>1, <3>2, <3>3
  <2>. QED BY <2>1
<1>10. ASSUME LastApp(l) # NoApp
       PROVE  /\ StepsOf(m) = StepsOf(l) \cup {p - 1} /\ p - 1 \notin StepsOf(l)
              /\ Apps(m)[p - 1] = LastApp(l) /\ Nexts(m)[p - 1] = ev.app
  <2>1. p # 1
    BY <1>7, <1>10
  <2>2. Apps(m)[p - 1] = LastApp(l) /\ p - 1 \in 1..(p - 1) /\ p - 1 \notin 1..(p - 2)
    BY <1>1, <1>2, <1>8, <2>1
  <2>3. p - 1 \in StepsOf(m) /\ p - 1 \notin StepsOf(l)
    BY <1>3, <1>4, <1>10, <2>2
  <2>4. Nexts(m)[p - 1] = ev.app
    <3>1. (p - 1) + 1 = p
      BY <1>2
    <3>2. Nexts(m)[p - 1] = Apps(m)[(p - 1) + 1]
      BY <2>3 DEF Nexts
    <3>. QED BY <1>1, <3>1, <3>2
  <2>5. ASSUME NEW i, i # p - 1 PROVE i \in StepsOf(m) <=> i \in StepsOf(l)
    <3>1. i \in 1..(p - 1) <=> i \in 1..(p - 2)
      BY <1>2, <2>5
    <3>2. i \in 1..(p - 2) => i \in DOMAIN l
      BY <1>2
    <3>. QED BY <1>1, <1>3, <1>4, <3>1, <3>2
  <2>. QED BY <2>2, <2>3, <2>4, <2>5
<1>. QED BY <1>5, <1>6, <1>9, <1>10

LEMMA TimedOfMore ==
  ASSUME NEW l, NEW m, NEW ev, NEW p, OneMore(l, m, ev, p)
  PROVE  /\ IsFiniteSet(TimedOf(l)) /\ p \notin TimedOf(l)
         /\ \A i \in TimedOf(l) : Hours(m)[i] = Hours(l)[i] /\ Apps(m)[i] = Apps(l)[i]
         /\ ev.hour = NoHour => TimedOf(m) = TimedOf(l)
         /\ ev.hour # NoHour => TimedOf(m) = TimedOf(l) \cup {p}
<1>1. /\ \A i \in DOMAIN l : Apps(m)[i] = Apps(l)[i] /\ Hours(m)[i] = Hours(l)[i]
      /\ Hours(m)[p] = ev.hour
  BY AppsOfMore
<1>2. DOMAIN m = DOMAIN l \cup {p} /\ p \notin DOMAIN l /\ IsFiniteSet(DOMAIN l)
  BY DEF OneMore
<1>3. TimedOf(l) \in SUBSET DOMAIN l
  BY DEF TimedOf
<1>4. IsFiniteSet(TimedOf(l)) /\ p \notin TimedOf(l)
  BY <1>2, <1>3, FS_Subset
<1>. QED BY <1>1, <1>2, <1>3, <1>4 DEF TimedOf

(* The latest place of an app. *)
LEMMA LatestOfMore ==
  ASSUME NEW l, NEW m, NEW ev, NEW p, OneMore(l, m, ev, p)
  PROVE  LatestOf(m) = Assign(LatestOf(l), ev.app, ev.time)
<1>1. /\ \A i \in DOMAIN l : Apps(m)[i] = Apps(l)[i]
      /\ Apps(m)[p] = ev.app
      /\ KeysAt(DOMAIN m, Apps(m)) = KeysAt(DOMAIN l, Apps(l)) \cup {ev.app}
  BY AppsOfMore
<1>2. /\ p \in Nat /\ p # 0 /\ DOMAIN l = 1..(p - 1) /\ DOMAIN m = 1..p
      /\ DOMAIN m = DOMAIN l \cup {p} /\ m[p] = ev /\ \A i \in DOMAIN l : m[i] = l[i]
  BY DEF OneMore
<1>3. Latest(m, ev.app) = ev.time
  <2>1. PICK S : S = {i \in DOMAIN m : Apps(m)[i] = ev.app}
    OBVIOUS
  <2>2. p \in S /\ S \in SUBSET (1..p)
    BY <1>1, <1>2, <2>1
  <2>3. Max(S) \in S /\ \A i \in S : i <= Max(S)
    BY <1>2, <2>2, MaxOfPositions
  <2>4. Max(S) = p
    BY <1>2, <2>2, <2>3
  <2>. QED BY <1>2, <2>1, <2>4 DEF Latest
<1>4. ASSUME NEW x \in KeysAt(DOMAIN l, Apps(l)), x # ev.app
      PROVE  Latest(m, x) = Latest(l, x)
  <2>1. PICK S : S = {i \in DOMAIN l : Apps(l)[i] = x}
    OBVIOUS
  <2>2. S = {i \in DOMAIN m : Apps(m)[i] = x}
    BY <1>1, <1>2, <1>4, <2>1
  <2>3. S # {} /\ S \in SUBSET (1..(p - 1))
    BY <1>2, <2>1 DEF KeysAt
  <2>4. Max(S) \in S
    <3>1. PICK n \in Nat : n = p - 1
      BY <1>2
    <3>. QED BY <2>3, <3>1, MaxOfPositions
  <2>5. m[Max(S)] = l[Max(S)]
    BY <1>2, <2>1, <2>4
  <2>. QED BY <2>1, <2>2, <2>5 DEF Latest
<1>. QED BY <1>1, <1>3, <1>4 DEF LatestOf, Assign

-----------------------------------------------------------------------------
(* The tables that a log gives.                                             *)
TablesMatch(l) ==
  /\ counts = Tally(DOMAIN l, Apps(l))
  /\ unigram = Tally(DOMAIN l, Apps(l)) /\ grandTotal = Len(l) /\ last = LastApp(l)
  /\ transitions = Table(StepsOf(l), Apps(l), Nexts(l))
  /\ totals = Tally(StepsOf(l), Apps(l))
  /\ uses = Tally(DOMAIN l, Apps(l)) /\ lastSeen = LatestOf(l) /\ lastTs = LastTime(l)
  /\ hourCounts = Table(TimedOf(l), Hours(l), Apps(l))
  /\ hourTotals = Tally(TimedOf(l), Hours(l))

TableVars == <<counts, transitions, totals, unigram, grandTotal, last,
               uses, lastSeen, lastTs, hourCounts, hourTotals>>

(* What one event that is learned from does to the tables.                  *)
LearnedStep(ev) ==
  /\ counts' = Increment(counts, ev.app)
  /\ \/ last = NoApp /\ UNCHANGED <<transitions, totals>>
     \/ /\ last # NoApp
        /\ transitions' = Assign(transitions, last, Increment(RowOf(transitions, last), ev.app))
        /\ totals' = Increment(totals, last)
  /\ unigram' = Increment(unigram, ev.app)
  /\ grandTotal' = grandTotal + 1 /\ last' = ev.app
  /\ uses' = Increment(uses, ev.app)
  /\ lastSeen' = Assign(lastSeen, ev.app, ev.time) /\ lastTs' = ev.time
  /\ \/ ev.hour = NoHour /\ UNCHANGED <<hourCounts, hourTotals>>
     \/ /\ ev.hour # NoHour
        /\ hourCounts' = Assign(hourCounts, ev.hour,
                                Increment(RowOf(hourCounts, ev.hour), ev.app))
        /\ hourTotals' = Increment(hourTotals, ev.hour)

LEMMA ObservedSteps ==
  ASSUME NEW ev, Record!RecordEvent(ev)
  PROVE  /\ Learns(ev) => LearnedStep(ev)
         /\ ~Learns(ev) => UNCHANGED TableVars /\ UNCHANGED history
         /\ events' = Append(events, ev) /\ Len(events) < MaxEvents
<1>1. Record!Learns(ev) <=> Learns(ev)
  BY DEF Record!Learns, Learns
<1>2. Record!Window!Observe(ev) /\ Record!Markov!Observe(ev) /\ Record!FreqRecency!Observe(ev)
      /\ Record!Store!AppendEvent(ev) /\ Len(events) < MaxEvents
  BY DEF Record!RecordEvent
<1>3. events' = Append(events, ev)
  BY <1>2 DEF Record!Store!AppendEvent
<1>4. ASSUME Learns(ev) PROVE LearnedStep(ev)
  <2>1. counts' = Increment(counts, ev.app)
    BY <1>2, <1>4 DEF Record!Window!Observe, Record!Window!Learns, Learns,
       Record!Window!Increment, Record!Window!Assign, Record!Window!Count,
       Increment, Assign, Count
  <2>2. /\ \/ last = NoApp /\ UNCHANGED <<transitions, totals>>
           \/ /\ last # NoApp
              /\ transitions' = Assign(transitions, last,
                                       Increment(RowOf(transitions, last), ev.app))
              /\ totals' = Increment(totals, last)
        /\ unigram' = Increment(unigram, ev.app)
        /\ grandTotal' = grandTotal + 1 /\ last' = ev.app
    BY <1>2, <1>4 DEF Record!Markov!Observe, Record!Markov!Learns, Learns,
       Record!Markov!Increment, Record!Markov!Assign, Record!Markov!Count,
       Record!Markov!Followers, Record!Markov!NoCounts, RowOf, NoCounts,
       Increment, Assign, Count
  <2>3. /\ uses' = Increment(uses, ev.app)
        /\ lastSeen' = Assign(lastSeen, ev.app, ev.time) /\ lastTs' = ev.time
        /\ \/ ev.hour = NoHour /\ UNCHANGED <<hourCounts, hourTotals>>
           \/ /\ ev.hour # NoHour
              /\ hourCounts' = Assign(hourCounts, ev.hour,
                                      Increment(RowOf(hourCounts, ev.hour), ev.app))
              /\ hourTotals' = Increment(hourTotals, ev.hour)
    BY <1>2, <1>4 DEF Record!FreqRecency!Observe, Record!FreqRecency!Learns, Learns,
       Record!FreqRecency!Increment, Record!FreqRecency!Assign, Record!FreqRecency!Count,
       Record!FreqRecency!CountsOf, Record!FreqRecency!NoCounts, RowOf, NoCounts,
       Increment, Assign, Count
  <2>. QED BY <2>1, <2>2, <2>3 DEF LearnedStep
<1>5. ASSUME ~Learns(ev) PROVE UNCHANGED TableVars /\ UNCHANGED history
  BY <1>2, <1>5 DEF Record!Window!Observe, Record!Window!Learns, Learns,
     Record!Window!windowVars, Record!Markov!Observe, Record!Markov!Learns,
     Record!Markov!markovVars, Record!FreqRecency!Observe, Record!FreqRecency!Learns,
     Record!FreqRecency!frequencyVars, TableVars
<1>. QED BY <1>2, <1>3, <1>4, <1>5

LEMMA TablesFollow ==
  ASSUME NEW l, NEW m, NEW ev, NEW p, OneMore(l, m, ev, p), TablesMatch(l), LearnedStep(ev)
  PROVE  TablesMatch(m)'
<1>1. Tally(DOMAIN m, Apps(m)) = Increment(Tally(DOMAIN l, Apps(l)), ev.app)
  BY UsesOfMore
<1>2. counts' = Tally(DOMAIN m, Apps(m)) /\ unigram' = Tally(DOMAIN m, Apps(m))
      /\ uses' = Tally(DOMAIN m, Apps(m))
  BY <1>1 DEF TablesMatch, LearnedStep
<1>3. grandTotal' = Len(m) /\ last' = LastApp(m) /\ lastTs' = LastTime(m)
  <2>1. LastApp(m) = ev.app /\ LastTime(m) = ev.time
    BY AppsOfMore
  <2>2. Len(m) = Len(l) + 1
    BY DEF OneMore
  <2>. QED BY <2>1, <2>2 DEF TablesMatch, LearnedStep
<1>4. lastSeen' = LatestOf(m)
  BY LatestOfMore DEF TablesMatch, LearnedStep
<1>5. PICK S, f, g, f2, g2 : /\ S = StepsOf(l) /\ f = Apps(l) /\ g = Nexts(l)
                             /\ f2 = Apps(m) /\ g2 = Nexts(m)
  OBVIOUS
<1>6. IsFiniteSet(S) /\ \A i \in S : f2[i] = f[i] /\ g2[i] = g[i]
  BY <1>5, StepsOfMore
<1>7. transitions' = Table(StepsOf(m), Apps(m), Nexts(m)) /\ totals' = Tally(StepsOf(m), Apps(m))
  <2>1. CASE last = NoApp
    <3>1. StepsOf(m) = S
      BY <1>5, <2>1, StepsOfMore DEF TablesMatch
    <3>2. Table(S, f2, g2) = Table(S, f, g)
      BY <1>6, TableSame
    <3>3. Tally(S, f2) = Tally(S, f)
      BY <1>6, TallySame
    <3>4. UNCHANGED <<transitions, totals>>
      BY <2>1 DEF LearnedStep
    <3>5. transitions = Table(S, f, g) /\ totals = Tally(S, f)
      BY <1>5 DEF TablesMatch
    <3>. QED BY <1>5, <3>1, <3>2, <3>3, <3>4, <3>5
  <2>2. CASE last # NoApp
    <3>1. PICK q : q = p - 1
      OBVIOUS
    <3>2. /\ StepsOf(m) = S \cup {q} /\ q \notin S
          /\ f2[q] = last /\ g2[q] = ev.app
      BY <1>5, <2>2, <3>1, StepsOfMore DEF TablesMatch
    <3>3. RowGrows(Table(S, f, g), Table(S \cup {q}, f2, g2), f2[q], g2[q])
      BY <1>6, <3>2, TableAdd
    <3>4. Tally(S \cup {q}, f2) = Increment(Tally(S, f), f2[q])
      BY <1>6, <3>2, TallyAdd
    <3>5. transitions = Table(S, f, g) /\ totals = Tally(S, f)
      BY <1>5 DEF TablesMatch
    <3>6. /\ transitions' = Assign(transitions, last,
                                   Increment(RowOf(transitions, last), ev.app))
          /\ totals' = Increment(totals, last)
      BY <2>2 DEF LearnedStep
    <3>. QED BY <1>5, <3>2, <3>3, <3>4, <3>5, <3>6 DEF RowGrows
  <2>. QED BY <2>1, <2>2
<1>8. PICK T, h, h2 : T = TimedOf(l) /\ h = Hours(l) /\ h2 = Hours(m)
  OBVIOUS
<1>9. IsFiniteSet(T) /\ p \notin T /\ \A i \in T : h2[i] = h[i] /\ f2[i] = f[i]
  BY <1>5, <1>8, TimedOfMore
<1>10. hourCounts' = Table(TimedOf(m), Hours(m), Apps(m)) /\ hourTotals' = Tally(TimedOf(m), Hours(m))
  <2>1. hourCounts = Table(T, h, f) /\ hourTotals = Tally(T, h)
    BY <1>5, <1>8 DEF TablesMatch
  <2>2. h2[p] = ev.hour /\ f2[p] = ev.app
    BY <1>5, <1>8, AppsOfMore
  <2>3. CASE ev.hour = NoHour
    <3>1. TimedOf(m) = T
      BY <1>8, <2>3, TimedOfMore
    <3>2. Table(T, h2, f2) = Table(T, h, f)
      BY <1>9, TableSame
    <3>3. Tally(T, h2) = Tally(T, h)
      BY <1>9, TallySame
    <3>4. UNCHANGED <<hourCounts, hourTotals>>
      BY <2>3 DEF LearnedStep
    <3>. QED BY <1>5, <1>8, <2>1, <3>1, <3>2, <3>3, <3>4
  <2>4. CASE ev.hour # NoHour
    <3>1. TimedOf(m) = T \cup {p}
      BY <1>8, <2>4, TimedOfMore
    <3>2. RowGrows(Table(T, h, f), Table(T \cup {p}, h2, f2), h2[p], f2[p])
      BY <1>9, TableAdd
    <3>3. Tally(T \cup {p}, h2) = Increment(Tally(T, h), h2[p])
      BY <1>9, TallyAdd
    <3>4. /\ hourCounts' = Assign(hourCounts, ev.hour,
                                  Increment(RowOf(hourCounts, ev.hour), ev.app))
          /\ hourTotals' = Increment(hourTotals, ev.hour)
      BY <2>4 DEF LearnedStep
    <3>. QED BY <1>5, <1>8, <2>1, <2>2, <3>1, <3>2, <3>3, <3>4 DEF RowGrows
  <2>. QED BY <2>3, <2>4
<1>. QED BY <1>2, <1>3, <1>4, <1>7, <1>10 DEF TablesMatch

(* No event at all: empty tables.                                           *)
LEMMA EmptyTables ==
  /\ DOMAIN << >> = {} /\ Tally({}, Apps(<< >>)) = NoCounts
  /\ StepsOf(<< >>) = {} /\ TimedOf(<< >>) = {} /\ LatestOf(<< >>) = NoCounts
  /\ LastApp(<< >>) = NoApp /\ LastTime(<< >>) = 0 /\ Len(<< >>) = 0
  /\ Table({}, Apps(<< >>), Nexts(<< >>)) = NoCounts /\ Tally({}, Hours(<< >>)) = NoCounts
  /\ Table({}, Hours(<< >>), Apps(<< >>)) = NoCounts
<1>1. PICK e : e = << >>
  OBVIOUS
<1>2. DOMAIN e = {} /\ Len(e) = 0
  BY <1>1
<1>3. StepsOf(e) = {} /\ TimedOf(e) = {}
  BY <1>2 DEF StepsOf, TimedOf
<1>4. LatestOf(e) = NoCounts
  BY <1>2 DEF LatestOf, KeysAt, NoCounts
<1>5. LastApp(e) = NoApp /\ LastTime(e) = 0
  BY <1>1 DEF LastApp, LastTime
<1>6. \A row, col : Table({}, row, col) = NoCounts
  BY DEF Table, NoCounts
<1>. QED BY <1>1, <1>2, <1>3, <1>4, <1>5, <1>6, TallyEmpty

EmptyPredictors ==
  /\ counts = NoCounts /\ history = << >>
  /\ transitions = NoCounts /\ totals = NoCounts /\ unigram = NoCounts
  /\ grandTotal = 0 /\ last = NoApp
  /\ uses = NoCounts /\ lastSeen = NoCounts /\ lastTs = 0
  /\ hourCounts = NoCounts /\ hourTotals = NoCounts

LEMMA EmptyMatches == EmptyPredictors => TablesMatch(<< >>)
<1>1. PICK e : e = << >>
  OBVIOUS
<1>2. /\ DOMAIN e = {} /\ Tally({}, Apps(e)) = NoCounts
      /\ StepsOf(e) = {} /\ TimedOf(e) = {} /\ LatestOf(e) = NoCounts
      /\ LastApp(e) = NoApp /\ LastTime(e) = 0 /\ Len(e) = 0
      /\ Table({}, Apps(e), Nexts(e)) = NoCounts /\ Tally({}, Hours(e)) = NoCounts
      /\ Table({}, Hours(e), Apps(e)) = NoCounts
  BY <1>1, EmptyTables
<1>3. EmptyPredictors => TablesMatch(e)
  BY <1>2 DEF EmptyPredictors, TablesMatch
<1>. QED BY <1>1, <1>3

LEMMA RecordInit == Record!Init => EmptyPredictors /\ events = << >>
BY DEF Record!Init, Record!Window!Init, Record!Markov!Init, Record!FreqRecency!Init,
   Record!Store!Init, EmptyPredictors, Record!Window!NoCounts, Record!Markov!NoCounts,
   Record!FreqRecency!NoCounts, NoCounts

LEMMA RecordReset == Record!Reset => EmptyPredictors' /\ events' = << >>
BY DEF Record!Reset, Record!Window!Reset, Record!Markov!Reset, Record!FreqRecency!Reset,
   Record!Store!Reset, EmptyPredictors, Record!Window!NoCounts, Record!Markov!NoCounts,
   Record!FreqRecency!NoCounts, NoCounts

LEMMA RecordOther ==
  ASSUME NEW name \in Names,
         Record!Persist(name) \/ Record!Restore(name) \/ \E v \in Values : Record!SaveKV(name, v)
  PROVE  UNCHANGED TableVars /\ UNCHANGED <<history, events>>
BY DEF Record!Persist, Record!Restore, Record!SaveKV, Record!predictorVars, Record!vars,
   Record!Store!SavePredictorState, Record!Store!SaveKV, TableVars

LEMMA TablesKept ==
  ASSUME NEW l, TablesMatch(l), UNCHANGED TableVars
  PROVE  TablesMatch(l)'
BY DEF TablesMatch, TableVars

-----------------------------------------------------------------------------
(* The invariant of the predictors and storage.                             *)
AppIds == {ev.app : ev \in Events}

HistoryMatches(l) == IsWindow(history, l, Len(history), Len(l), HistoryCap)

RecordInv ==
  /\ events \in Seq(Events) /\ Len(events) <= MaxEvents
  /\ history \in Seq(AppIds)
  /\ TablesMatch(Learning(events))
  /\ HistoryMatches(Learning(events))
  /\ EndsMatch(events)

LEMMA EmptyInv ==
  ASSUME Record!IngestionAssumption
  PROVE  EmptyPredictors /\ events = << >> => RecordInv
<1>1. PICK e : e = << >>
  OBVIOUS
<1>2. e \in Seq(Events) /\ e \in Seq(AppIds) /\ Len(e) = 0 /\ Learning(e) = e /\ EndsMatch(e)
  <2>1. << >> \in Seq(Events) /\ << >> \in Seq(AppIds) /\ Len(<< >>) = 0
    BY EmptySeq
  <2>. QED BY <1>1, <2>1, LearningEmpty, EmptyEnds
<1>3. HistoryCap \in Nat \ {0} /\ MaxEvents \in Nat
  BY DEF Record!IngestionAssumption, Record!Window!WindowAssumption
<1>4. IsWindow(e, e, 0, 0, HistoryCap)
  BY <1>2, <1>3 DEF IsWindow, WindowSize
<1>5. SUFFICES ASSUME EmptyPredictors, events = e PROVE RecordInv
  BY <1>1
<1>6. history = e /\ TablesMatch(e)
  BY <1>1, <1>5, EmptyMatches DEF EmptyPredictors
<1>7. HistoryMatches(e)
  BY <1>2, <1>4, <1>6 DEF HistoryMatches
<1>. QED BY <1>2, <1>3, <1>5, <1>6, <1>7 DEF RecordInv

LEMMA EmptyInvNext ==
  ASSUME Record!IngestionAssumption
  PROVE  EmptyPredictors' /\ events' = << >> => RecordInv'
<1>1. PICK e : e = << >>
  OBVIOUS
<1>2. e \in Seq(Events) /\ e \in Seq(AppIds) /\ Len(e) = 0 /\ Learning(e) = e /\ EndsMatch(e)
  <2>1. << >> \in Seq(Events) /\ << >> \in Seq(AppIds) /\ Len(<< >>) = 0
    BY EmptySeq
  <2>. QED BY <1>1, <2>1, LearningEmpty, EmptyEnds
<1>3. HistoryCap \in Nat \ {0} /\ MaxEvents \in Nat
  BY DEF Record!IngestionAssumption, Record!Window!WindowAssumption
<1>4. IsWindow(e, e, 0, 0, HistoryCap)
  BY <1>2, <1>3 DEF IsWindow, WindowSize
<1>5. SUFFICES ASSUME EmptyPredictors', events' = e PROVE RecordInv'
  BY <1>1
<1>6. history' = e
  BY <1>1, <1>5 DEF EmptyPredictors
<1>7. TablesMatch(e)'
  <2>1. (EmptyPredictors => TablesMatch(<< >>))'
    BY EmptyMatches, PTL
  <2>. QED BY <1>1, <1>5, <2>1
<1>8. HistoryMatches(e)'
  BY <1>2, <1>4, <1>6 DEF HistoryMatches
<1>. QED BY <1>2, <1>3, <1>5, <1>6, <1>7, <1>8 DEF RecordInv

LEMMA RecordEventKeeps ==
  ASSUME Record!IngestionAssumption, RecordInv, NEW ev \in Events, Record!RecordEvent(ev)
  PROVE  RecordInv'
<1>1. HistoryCap \in Nat \ {0} /\ MaxEvents \in Nat
  BY DEF Record!IngestionAssumption, Record!Window!WindowAssumption
<1>2. PICK evs, more : evs = events /\ more = events'
  OBVIOUS
<1>3. /\ evs \in Seq(Events) /\ Len(evs) <= MaxEvents /\ EndsMatch(evs)
      /\ history \in Seq(AppIds)
  BY <1>2 DEF RecordInv
<1>4. more = Append(evs, ev) /\ Len(evs) < MaxEvents
  BY <1>2, ObservedSteps
<1>5. more \in Seq(Events) /\ Len(more) <= MaxEvents
  <2>1. more \in Seq(Events) /\ Len(more) = Len(evs) + 1 /\ Len(evs) \in Nat
    BY <1>3, <1>4, AppendProperties, LenProperties
  <2>. QED BY <1>1, <1>4, <2>1
<1>6. EndsMatch(more)
  BY <1>3, <1>4, EndsFollow
<1>7. PICK l, m : l = Learning(evs) /\ m = Learning(more)
  OBVIOUS
<1>8. l \in Seq(Events) /\ m = Learn(l, ev)
  BY <1>3, <1>4, <1>7, LearningTyped, LearningAppend
<1>9. TablesMatch(l) /\ HistoryMatches(l)
  BY <1>2, <1>7 DEF RecordInv
<1>10. CASE Learns(ev)
  <2>1. m = Append(l, ev)
    BY <1>8, <1>10 DEF Learn
  <2>2. PICK p : p = Len(l) + 1
    OBVIOUS
  <2>3. OneMore(l, m, ev, p)
    BY <1>8, <2>1, <2>2, AppendIsOneMore
  <2>4. LearnedStep(ev)
    BY <1>10, ObservedSteps
  <2>5. TablesMatch(m)'
    BY <1>9, <2>3, <2>4, TablesFollow
  <2>6. PICK h, h2, x : h = history /\ h2 = history' /\ x = ev.app
    OBVIOUS
  <2>7. x \in AppIds /\ h \in Seq(AppIds)
    BY <1>3, <2>6 DEF AppIds
  <2>8. h2 = IF Len(Append(h, x)) > HistoryCap THEN Tail(Append(h, x)) ELSE Append(h, x)
    BY <1>10, <2>6 DEF Record!RecordEvent, Record!Window!Observe, Record!Window!Learns, Learns
  <2>9. IsWindow(h, l, Len(h), Len(l), HistoryCap)
    BY <1>9, <2>6 DEF HistoryMatches
  <2>10. h2 \in Seq(AppIds) /\ IsWindow(h2, m, Len(h2), Len(m), HistoryCap)
    BY <1>1, <2>3, <2>6, <2>7, <2>8, <2>9, WindowMoves
  <2>11. HistoryMatches(m)'
    BY <2>6, <2>10 DEF HistoryMatches
  <2>. QED BY <1>2, <1>5, <1>6, <1>7, <2>5, <2>6, <2>10, <2>11 DEF RecordInv
<1>11. CASE ~Learns(ev)
  <2>1. m = l
    BY <1>8, <1>11 DEF Learn
  <2>2. UNCHANGED TableVars /\ UNCHANGED history
    BY <1>11, ObservedSteps
  <2>3. TablesMatch(l)'
    BY <1>9, <2>2, TablesKept
  <2>4. HistoryMatches(l)'
    BY <1>9, <2>2 DEF HistoryMatches
  <2>. QED BY <1>2, <1>3, <1>5, <1>6, <1>7, <2>1, <2>2, <2>3, <2>4 DEF RecordInv
<1>. QED BY <1>10, <1>11

LEMMA RecordUnchanged ==
  ASSUME RecordInv, UNCHANGED TableVars, UNCHANGED <<history, events>>
  PROVE  RecordInv'
<1>1. PICK l : l = Learning(events)
  OBVIOUS
<1>2. TablesMatch(l)'
  BY <1>1, TablesKept DEF RecordInv
<1>3. HistoryMatches(l)'
  BY <1>1 DEF RecordInv, HistoryMatches
<1>. QED BY <1>1, <1>2, <1>3 DEF RecordInv

LEMMA RecordNext ==
  ASSUME Record!IngestionAssumption
  PROVE  RecordInv /\ [Record!Next]_(Record!vars) => RecordInv'
<1>1. ASSUME RecordInv, NEW ev \in Events, Record!RecordEvent(ev) PROVE RecordInv'
  BY <1>1, RecordEventKeeps
<1>2. ASSUME RecordInv, NEW name \in Names,
             Record!Persist(name) \/ Record!Restore(name)
               \/ \E v \in Values : Record!SaveKV(name, v)
      PROVE  RecordInv'
  BY <1>2, RecordOther, RecordUnchanged
<1>3. ASSUME RecordInv, Record!Reset PROVE RecordInv'
  BY <1>3, RecordReset, EmptyInvNext
<1>4. ASSUME RecordInv, UNCHANGED Record!vars PROVE RecordInv'
  <2>1. UNCHANGED TableVars /\ UNCHANGED <<history, events>>
    BY <1>4 DEF Record!vars, Record!predictorVars, TableVars
  <2>. QED BY <1>4, <2>1, RecordUnchanged
<1>. QED BY <1>1, <1>2, <1>3, <1>4 DEF Record!Next

LEMMA RecordInvariance ==
  ASSUME Record!IngestionAssumption
  PROVE  Record!Spec => []RecordInv
<1>1. Record!Init => RecordInv
  BY RecordInit, EmptyInv
<1>. QED BY <1>1, RecordNext, PTL DEF Record!Spec

-----------------------------------------------------------------------------
(* All events are loaded, or the last of them.                              *)
LEMMA LoadedEvents ==
  ASSUME RecordInv, NEW limit \in Nat
  PROVE  /\ limit >= Len(events) => Record!Store!LoadEvents(limit) = events
         /\ limit < Len(events) =>
              \E i \in 1..(Len(events) + 1) : Record!Store!LoadEvents(limit) = From(events, i)
<1>1. PICK n \in Nat : n = Len(events)
  BY LenProperties DEF RecordInv
<1>2. CASE limit >= n
  <2>1. PICK k : k = IF limit <= n THEN limit ELSE n
    OBVIOUS
  <2>2. k = n /\ n - k + 1 = 1
    BY <1>1, <1>2, <2>1
  <2>3. Record!Store!LoadEvents(limit) = SubSeq(events, n - k + 1, n)
    BY <1>1, <2>1 DEF Record!Store!LoadEvents
  <2>4. SubSeq(events, 1, n) = events
    BY <1>1, SubSeqFull DEF RecordInv
  <2>. QED BY <1>1, <1>2, <2>2, <2>3, <2>4
<1>3. CASE limit < n
  <2>1. limit <= n /\ n - limit + 1 \in 1..(n + 1)
    BY <1>1, <1>3
  <2>2. Record!Store!LoadEvents(limit) = SubSeq(events, n - limit + 1, n)
    BY <1>1, <2>1 DEF Record!Store!LoadEvents
  <2>3. Record!Store!LoadEvents(limit) = From(events, n - limit + 1)
    BY <1>1, <2>2 DEF From
  <2>. QED BY <1>1, <1>3, <2>1, <2>3
<1>. QED BY <1>1, <1>2, <1>3

LEMMA SameLearning == \A evs : Record!Learning(evs) = Learning(evs)
BY DEF Record!Learning, Learning, Record!FoldLeft, FoldLeft, Record!MapThenFoldSet,
   MapThenFoldSet, Record!Learn, Learn, Record!Learns, Learns, Record!Max, Max

LEMMA LogIs ==
  ASSUME Record!IngestionAssumption, RecordInv
  PROVE  Record!Log = Learning(events)
<1>1. MaxEvents \in Nat /\ Len(events) \in Nat /\ Len(events) <= MaxEvents
  BY LenProperties DEF Record!IngestionAssumption, RecordInv
<1>2. Record!Store!LoadEvents(MaxEvents) = events
  BY <1>1, LoadedEvents
<1>. QED BY <1>2, SameLearning DEF Record!Log

LEMMA SameLogOperators ==
  ASSUME NEW l
  PROVE  /\ Record!Apps(l) = Apps(l) /\ Record!Hours(l) = Hours(l)
         /\ Record!Steps(l) = StepsOf(l) /\ Record!NextApps(l) = Nexts(l)
         /\ Record!Timed(l) = TimedOf(l)
         /\ \A x : Record!LastUse(l, x) = Max({i \in DOMAIN l : Apps(l)[i] = x})
<1>1. Record!Apps(l) = Apps(l) /\ Record!Hours(l) = Hours(l)
  BY DEF Record!Apps, Record!Hours, Apps, Hours
<1>2. Record!Steps(l) = StepsOf(l)
  BY <1>1 DEF Record!Steps, StepsOf
<1>3. Record!NextApps(l) = Nexts(l)
  BY <1>1, <1>2 DEF Record!NextApps, Nexts
<1>4. Record!Timed(l) = TimedOf(l)
  BY <1>1 DEF Record!Timed, TimedOf
<1>5. \A x : Record!LastUse(l, x) = Max({i \in DOMAIN l : Apps(l)[i] = x})
  BY <1>1 DEF Record!LastUse, Record!Max, Max
<1>. QED BY <1>1, <1>2, <1>3, <1>4, <1>5

LEMMA SameTallies ==
  ASSUME NEW places, NEW row, NEW col
  PROVE  /\ Record!Tally(places, row) = Tally(places, row)
         /\ Record!Table(places, row, col) = Table(places, row, col)
<1>1. \A S : Record!Cardinality(S) = Cardinality(S)
  BY DEF Record!Cardinality, Cardinality
<1>2. \A s, key : Record!Tally(s, key) = Tally(s, key)
  BY <1>1 DEF Record!Tally, Tally
<1>. QED BY <1>2 DEF Record!Table, Table

LEMMA EndOfLog ==
  ASSUME NEW l \in Seq(Events)
  PROVE  /\ LastApp(l) = IF l = << >> THEN NoApp ELSE Record!Last(l).app
         /\ LastTime(l) = IF l = << >> THEN 0 ELSE Record!Last(l).time
<1>1. CASE l = << >>
  BY <1>1 DEF LastApp, LastTime
<1>2. CASE l # << >>
  <2>1. Len(l) \in Nat /\ Len(l) # 0 /\ DOMAIN l = 1..Len(l)
    BY <1>2, LenProperties, EmptySeq
  <2>2. Apps(l)[Len(l)] = l[Len(l)].app
    BY <2>1 DEF Apps
  <2>. QED BY <1>2, <2>2 DEF LastApp, LastTime, Record!Last
<1>. QED BY <1>1, <1>2

(* Invariance gives the tables at once; the window of every limit follows    *)
(* from the ends of the log.                                               *)
LEMMA WindowOfLimit ==
  ASSUME Record!IngestionAssumption, RecordInv, NEW limit \in 0..MaxEvents,
         NEW tail, tail = Learning(Record!Store!LoadEvents(limit)),
         ~(limit < Len(events) /\ Len(tail) < HistoryCap)
  PROVE  history = [i \in 1..Len(history) |-> tail[Len(tail) - Len(history) + i].app]
<1>0. MaxEvents \in Nat /\ HistoryCap \in Nat \ {0}
  BY DEF Record!IngestionAssumption, Record!Window!WindowAssumption
<1>1. PICK l : l = Learning(events)
  OBVIOUS
<1>2. PICK n, k : n = Len(history) /\ k = Len(l)
  OBVIOUS
<1>3. n \in Nat /\ k \in Nat /\ n = WindowSize(k, HistoryCap) /\ n <= k
  BY <1>0, <1>1, <1>2 DEF RecordInv, HistoryMatches, IsWindow, WindowSize
<1>4. \A i \in 1..n : history[i] = l[k - n + i].app
  BY <1>1, <1>2 DEF RecordInv, HistoryMatches, IsWindow
<1>5. history = [i \in 1..n |-> history[i]]
  BY <1>2 DEF RecordInv
<1>6. PICK j : j = Len(tail)
  OBVIOUS
<1>7. j \in Nat /\ j >= n /\ \A i \in 1..n : tail[j - n + i] = l[k - n + i]
  <2>1. CASE limit >= Len(events)
    <3>1. limit \in Nat
      BY <1>0
    <3>2. tail = l
      BY <1>1, <2>1, <3>1, LoadedEvents
    <3>. QED BY <1>2, <1>3, <1>6, <3>2
  <2>2. CASE ~(limit >= Len(events))
    <3>1. limit \in Nat /\ Len(events) \in Nat /\ limit < Len(events)
      BY <1>0, <2>2, LenProperties DEF RecordInv
    <3>2. PICK i \in 1..(Len(events) + 1) : tail = Learning(From(events, i))
      BY <3>1, LoadedEvents
    <3>3. IsEnd(tail, l, j, k)
      BY <1>1, <1>2, <1>6, <3>2 DEF RecordInv, EndsMatch, EndsAt
    <3>4. j \in Nat /\ j <= k
      BY <3>3 DEF IsEnd
    <3>5. n <= j
      BY <1>0, <1>3, <1>6, <3>1, <3>4 DEF WindowSize
    <3>6. ASSUME NEW q \in 1..n PROVE tail[j - n + q] = l[k - n + q]
      <4>1. j - n + q \in 1..j /\ k - j + (j - n + q) = k - n + q
        BY <1>3, <3>4, <3>5
      <4>2. tail[j - n + q] = l[k - j + (j - n + q)]
        BY <3>3, <4>1 DEF IsEnd
      <4>. QED BY <4>1, <4>2
    <3>. QED BY <3>4, <3>5, <3>6
  <2>. QED BY <2>1, <2>2
<1>8. \A i \in 1..n : history[i] = tail[j - n + i].app
  BY <1>4, <1>7
<1>. QED BY <1>2, <1>5, <1>6, <1>8

(* Whatever is recorded, saved and reset, each predictor holds what the log  *)
(* that storage keeps says: counts, window, pairs, timestamps and hours.     *)
THEOREM PredictorsAlwaysMatchLog ==
  ASSUME Record!IngestionAssumption PROVE Record!Spec => []PredictorsMatchLog
<1>1. RecordInv => PredictorsMatchLog
  <2>. SUFFICES ASSUME RecordInv PROVE PredictorsMatchLog
    OBVIOUS
  <2>1. PICK l : l = Learning(events)
    OBVIOUS
  <2>2. Record!Log = l /\ TablesMatch(l) /\ HistoryMatches(l)
    BY <2>1, LogIs DEF RecordInv
  <2>3. l \in Seq(Events)
    BY <2>1, LearningTyped DEF RecordInv
  <2>4. /\ Record!Apps(l) = Apps(l) /\ Record!Hours(l) = Hours(l)
        /\ Record!Steps(l) = StepsOf(l) /\ Record!NextApps(l) = Nexts(l)
        /\ Record!Timed(l) = TimedOf(l)
    BY SameLogOperators
  <2>5. Record!MarkovMatches(l)
    BY <2>2, <2>3, <2>4, SameTallies, EndOfLog DEF Record!MarkovMatches, TablesMatch
  <2>6. Record!FreqRecencyMatches(l)
    <3>1. lastSeen = [x \in Record!Range(Record!Apps(l)) |-> l[Record!LastUse(l, x)].time]
      <4>1. \A x : Record!LastUse(l, x) = Max({i \in DOMAIN l : Apps(l)[i] = x})
        BY SameLogOperators
      <4>2. Record!Range(Record!Apps(l)) = KeysAt(DOMAIN l, Apps(l))
        BY <2>4 DEF Record!Range, KeysAt, Apps
      <4>. QED BY <2>2, <4>1, <4>2 DEF TablesMatch, LatestOf, Latest
    <3>. QED BY <2>2, <2>3, <2>4, <3>1, SameTallies, EndOfLog
         DEF Record!FreqRecencyMatches, TablesMatch
  <2>7. Record!WindowMatches(l)
    <3>1. counts = Record!Tally(DOMAIN l, Record!Apps(l))
      BY <2>2, <2>4, SameTallies DEF TablesMatch
    <3>2. ASSUME NEW limit \in 0..MaxEvents
          PROVE  LET tail == Learning(Record!Store!LoadEvents(limit))
                 IN  \/ limit < Len(events) /\ Len(tail) < HistoryCap
                     \/ history = [i \in 1..Len(history) |->
                                     tail[Len(tail) - Len(history) + i].app]
      <4>1. PICK tail : tail = Learning(Record!Store!LoadEvents(limit))
        OBVIOUS
      <4>2. \/ limit < Len(events) /\ Len(tail) < HistoryCap
            \/ history = [i \in 1..Len(history) |-> tail[Len(tail) - Len(history) + i].app]
        BY <4>1, WindowOfLimit
      <4>. QED BY <4>1, <4>2
    <3>3. Len(history) = Record!Min({HistoryCap, Len(l)})
      <4>1. PICK k, n : k = Len(l) /\ n = Len(history)
        OBVIOUS
      <4>2. k \in Nat /\ n = WindowSize(k, HistoryCap) /\ HistoryCap \in Nat
        BY <2>2, <4>1 DEF HistoryMatches, IsWindow, Record!IngestionAssumption,
           Record!Window!WindowAssumption
      <4>3. n \in {HistoryCap, k} /\ \A y \in {HistoryCap, k} : n <= y
        BY <4>2 DEF WindowSize
      <4>4. ASSUME NEW x \in {HistoryCap, k}, \A y \in {HistoryCap, k} : x <= y PROVE x = n
        BY <4>2, <4>3, <4>4
      <4>5. Record!Min({HistoryCap, k}) = n
        BY <4>3, <4>4 DEF Record!Min
      <4>. QED BY <4>1, <4>5
    <3>. QED BY <3>1, <3>2, <3>3, SameLearning DEF Record!WindowMatches
  <2>. QED BY <2>2, <2>5, <2>6, <2>7 DEF PredictorsMatchLog, Record!PredictorsMatchLog
<1>. QED BY <1>1, RecordInvariance, PTL

-----------------------------------------------------------------------------
(* What a log and its tables are.                                           *)
TabledLog(l) ==
  /\ l \in Seq(Events) /\ TablesMatch(l)
  /\ Len(l) \in Nat /\ DOMAIN l = 1..Len(l)
  /\ IsFiniteSet(DOMAIN l) /\ Cardinality(DOMAIN l) = Len(l)
  /\ IsFiniteSet(StepsOf(l)) /\ IsFiniteSet(TimedOf(l))

LEMMA LogIsTabled ==
  ASSUME RecordInv
  PROVE  TabledLog(Learning(events))
<1>1. PICK l : l = Learning(events)
  OBVIOUS
<1>2. l \in Seq(Events) /\ TablesMatch(l)
  BY <1>1, LearningTyped DEF RecordInv
<1>3. PICK k \in Nat : k = Len(l) /\ DOMAIN l = 1..k
  BY <1>2, LenProperties
<1>4. IsFiniteSet(1..k) /\ Cardinality(1..k) = k
  BY FS_Interval
<1>5. StepsOf(l) \in SUBSET DOMAIN l /\ TimedOf(l) \in SUBSET DOMAIN l
  BY DEF StepsOf, TimedOf
<1>6. IsFiniteSet(StepsOf(l)) /\ IsFiniteSet(TimedOf(l))
  BY <1>3, <1>4, <1>5, FS_Subset
<1>. QED BY <1>1, <1>2, <1>3, <1>4, <1>6 DEF TabledLog

LEMMA SameTotals ==
  /\ \A f : Record!Markov!Total(f) = Total(f)
  /\ \A f : Record!FreqRecency!Total(f) = Total(f)
  /\ \A f, x : Record!Markov!Count(f, x) = Count(f, x)
  /\ \A f, x : Record!FreqRecency!Count(f, x) = Count(f, x)
  /\ \A S : Record!Markov!Cardinality(S) = Cardinality(S)
<1>1. \A f : Record!Markov!Total(f) = Total(f)
  BY DEF Record!Markov!Total, Total, Record!Markov!SumFunction, SumFunction,
     Record!Markov!SumFunctionOnSet, SumFunctionOnSet,
     Record!Markov!FoldFunctionOnSet, FoldFunctionOnSet,
     Record!Markov!MapThenFoldSet, MapThenFoldSet
<1>2. \A f : Record!FreqRecency!Total(f) = Total(f)
  BY DEF Record!FreqRecency!Total, Total, Record!FreqRecency!SumFunction, SumFunction,
     Record!FreqRecency!SumFunctionOnSet, SumFunctionOnSet,
     Record!FreqRecency!FoldFunctionOnSet, FoldFunctionOnSet,
     Record!FreqRecency!MapThenFoldSet, MapThenFoldSet
<1>3. \A f, x : Record!Markov!Count(f, x) = Count(f, x)
  BY DEF Record!Markov!Count, Count
<1>4. \A f, x : Record!FreqRecency!Count(f, x) = Count(f, x)
  BY DEF Record!FreqRecency!Count, Count
<1>5. \A S : Record!Markov!Cardinality(S) = Cardinality(S)
  BY DEF Record!Markov!Cardinality, Cardinality
<1>. QED BY <1>1, <1>2, <1>3, <1>4, <1>5

(* Of the followers of an app: as many uses as totals_ says, and all of them *)
(* have been used.                                                         *)
LEMMA FollowersCounted ==
  ASSUME NEW l, TabledLog(l), NEW x \in DOMAIN transitions
  PROVE  /\ Total(transitions[x]) = Count(totals, x) /\ Count(totals, x) \in Nat
         /\ IsFiniteSet(DOMAIN unigram)
         /\ DOMAIN transitions[x] \subseteq DOMAIN unigram
<1>1. PICK S, f, g : S = StepsOf(l) /\ f = Apps(l) /\ g = Nexts(l)
  OBVIOUS
<1>2. /\ transitions = Table(S, f, g) /\ totals = Tally(S, f) /\ IsFiniteSet(S)
      /\ unigram = Tally(DOMAIN l, f) /\ IsFiniteSet(DOMAIN l)
  BY <1>1 DEF TabledLog, TablesMatch
<1>3. x \in KeysAt(S, f)
  BY <1>2, TableIs
<1>4. PICK P : P = PlacesOf(S, f, x) /\ P \in SUBSET S
  BY DEF PlacesOf
<1>5. IsFiniteSet(P)
  BY <1>2, <1>4, FS_Subset
<1>6. transitions[x] = Tally(P, g)
  BY <1>2, <1>3, <1>4, TableIs
<1>7. Total(Tally(P, g)) = Cardinality(P)
  BY <1>5, TallyTotal
<1>8. Count(totals, x) = Cardinality(P) /\ Cardinality(P) \in Nat
  <2>1. x \in DOMAIN totals /\ totals[x] = Cardinality(P)
    BY <1>2, <1>3, <1>4, TallyIs
  <2>. QED BY <1>5, <2>1, FS_CardinalityType DEF Count
<1>9. DOMAIN transitions[x] \subseteq DOMAIN unigram
  <2>1. DOMAIN Tally(P, g) = KeysAt(P, g) /\ DOMAIN unigram = KeysAt(DOMAIN l, f)
    BY <1>2, TallyIs
  <2>2. ASSUME NEW i \in P PROVE g[i] \in KeysAt(DOMAIN l, f)
    <3>1. i \in StepsOf(l) /\ i \in 1..Len(l) /\ i < Len(l) /\ Len(l) \in Nat
      BY <1>1, <1>4 DEF StepsOf, TabledLog
    <3>2. g[i] = f[i + 1]
      BY <1>1, <3>1 DEF Nexts
    <3>3. i + 1 \in DOMAIN l
      BY <3>1 DEF TabledLog
    <3>. QED BY <3>2, <3>3 DEF KeysAt
  <2>. QED BY <1>6, <2>1, <2>2 DEF KeysAt
<1>10. IsFiniteSet(DOMAIN unigram)
  BY <1>2, TallyTyped
<1>. QED BY <1>6, <1>7, <1>8, <1>9, <1>10

LEMMA MarkovScores ==
  ASSUME RecordInv
  PROVE  Record!Markov!ScoresAreProbabilities
<1>1. PICK l : TabledLog(l)
  BY LogIsTabled
<1>2. CASE last \notin DOMAIN transitions
  <2>1. Total(unigram) = Cardinality(DOMAIN l)
    <3>1. PICK S, f : S = DOMAIN l /\ f = Apps(l)
      OBVIOUS
    <3>2. IsFiniteSet(S) /\ unigram = Tally(S, f)
      BY <1>1, <3>1 DEF TabledLog, TablesMatch
    <3>. QED BY <3>1, <3>2, TallyTotal
  <2>2. Total(unigram) <= grandTotal
    BY <1>1, <2>1 DEF TabledLog, TablesMatch
  <2>. QED BY <1>2, <2>2, SameTotals
       DEF Record!Markov!ScoresAreProbabilities, Record!Markov!Fallback
<1>3. CASE last \in DOMAIN transitions
  <2>1. PICK x, f, U : x = last /\ f = transitions[last] /\ U = DOMAIN unigram
    OBVIOUS
  <2>2. /\ Total(f) = Count(totals, x) /\ Count(totals, x) \in Nat
        /\ IsFiniteSet(U) /\ DOMAIN f \in SUBSET U
    BY <1>1, <1>3, <2>1, FollowersCounted
  <2>3. /\ Cardinality(DOMAIN f) \in Nat /\ Cardinality(U) \in Nat
        /\ Cardinality(DOMAIN f) <= Cardinality(U)
    BY <2>2, FS_Subset, FS_CardinalityType
  <2>4. Total(f) + Cardinality(DOMAIN f) <= Count(totals, x) + Cardinality(U)
    BY <2>2, <2>3
  <2>. QED BY <1>3, <2>1, <2>4, SameTotals
       DEF Record!Markov!ScoresAreProbabilities, Record!Markov!Fallback, Record!Markov!Divisor
<1>. QED BY <1>2, <1>3

LEMMA MaxOfTwo ==
  ASSUME NEW x \in Int, NEW y \in Int
  PROVE  Record!FreqRecency!Max({x, y}) = IF x >= y THEN x ELSE y
<1>1. PICK S : S = {x, y}
  OBVIOUS
<1>2. PICK m \in S : \A z \in S : m >= z
  BY <1>1
<1>3. \A n \in S : (\A z \in S : n >= z) => n = m
  BY <1>1, <1>2
<1>4. Record!FreqRecency!Max(S) = m
  BY <1>2, <1>3 DEF Record!FreqRecency!Max
<1>. QED BY <1>1, <1>2, <1>4

(* Uses of one hour and app are uses of the hour.                           *)
LEMMA HabitsCounted ==
  ASSUME NEW l, TabledLog(l), NEW h, NEW x
  PROVE  /\ Count(RowOf(hourCounts, h), x) \in Nat /\ Count(hourTotals, h) \in Nat
         /\ Count(RowOf(hourCounts, h), x) <= Count(hourTotals, h)
<1>1. PICK T, f, g : T = TimedOf(l) /\ f = Hours(l) /\ g = Apps(l)
  OBVIOUS
<1>2. hourCounts = Table(T, f, g) /\ hourTotals = Tally(T, f) /\ IsFiniteSet(T)
  BY <1>1 DEF TabledLog, TablesMatch
<1>3. PICK P : P = PlacesOf(T, f, h) /\ P \in SUBSET T
  BY DEF PlacesOf
<1>4. IsFiniteSet(P) /\ Cardinality(P) \in Nat
  BY <1>2, <1>3, FS_Subset, FS_CardinalityType
<1>5. CASE h \in KeysAt(T, f)
  <2>1. RowOf(hourCounts, h) = Tally(P, g)
    BY <1>2, <1>3, <1>5, TableIs DEF RowOf
  <2>2. Count(hourTotals, h) = Cardinality(P)
    BY <1>2, <1>3, <1>5, TallyIs DEF Count
  <2>3. CASE x \in KeysAt(P, g)
    <3>1. PICK Q : Q = PlacesOf(P, g, x) /\ Q \in SUBSET P
      BY DEF PlacesOf
    <3>2. Count(Tally(P, g), x) = Cardinality(Q)
      BY <2>3, <3>1, TallyIs DEF Count
    <3>3. Cardinality(Q) \in Nat /\ Cardinality(Q) <= Cardinality(P)
      BY <1>4, <3>1, FS_Subset, FS_CardinalityType
    <3>. QED BY <1>4, <2>1, <2>2, <3>2, <3>3
  <2>4. CASE x \notin KeysAt(P, g)
    <3>1. Count(Tally(P, g), x) = 0
      BY <2>4, TallyIs DEF Count
    <3>. QED BY <1>4, <2>1, <2>2, <3>1
  <2>. QED BY <2>3, <2>4
<1>6. CASE h \notin KeysAt(T, f)
  <2>1. h \notin DOMAIN hourCounts /\ h \notin DOMAIN hourTotals
    BY <1>2, <1>6, TableIs, TallyIs
  <2>2. Count(RowOf(hourCounts, h), x) = 0 /\ Count(hourTotals, h) = 0
    BY <2>1 DEF RowOf, Count, NoCounts
  <2>. QED BY <2>2
<1>. QED BY <1>5, <1>6

(* No app was seen after the last event in a way that makes its age older    *)
(* than the table.                                                         *)
LEMMA AgesDecay ==
  ASSUME Record!IngestionAssumption, NEW l, TabledLog(l), NEW x \in DOMAIN uses
  PROVE  /\ Unit \in Nat
         /\ Decay[Record!FreqRecency!Age(x)] \in Nat
         /\ Decay[Record!FreqRecency!Age(x)] <= Unit
<1>1. /\ Unit \in Nat /\ Decay \in [DOMAIN Decay -> Nat] /\ DOMAIN Decay \subseteq Int
      /\ 0 \in DOMAIN Decay /\ Decay[0] = Unit
      /\ \A age, older \in DOMAIN Decay : age <= older => Decay[age] >= Decay[older]
  BY DEF Record!IngestionAssumption, Record!FreqRecency!DecayAssumption
<1>2. \A ev, older \in Events : ev.time \in Int /\ ev.time - older.time \in DOMAIN Decay
  BY DEF Record!IngestionAssumption
<1>3. PICK k \in Nat : k = Len(l) /\ DOMAIN l = 1..k
  BY DEF TabledLog
<1>4. x \in KeysAt(DOMAIN l, Apps(l))
  <2>1. uses = Tally(DOMAIN l, Apps(l))
    BY DEF TabledLog, TablesMatch
  <2>. QED BY <2>1, TallyIs
<1>5. PICK i \in 1..k : lastSeen[x] = l[i].time
  <2>1. PICK S : S = {j \in DOMAIN l : Apps(l)[j] = x}
    OBVIOUS
  <2>2. S \in SUBSET (1..k) /\ S # {}
    BY <1>3, <1>4, <2>1 DEF KeysAt
  <2>3. Max(S) \in 1..k
    BY <2>2, MaxOfPositions
  <2>4. lastSeen = LatestOf(l)
    BY DEF TabledLog, TablesMatch
  <2>5. lastSeen[x] = l[Max(S)].time
    BY <1>4, <2>1, <2>4 DEF LatestOf, Latest
  <2>. QED BY <2>3, <2>5
<1>6. k \in 1..k /\ lastTs = l[k].time
  <2>1. k # 0
    BY <1>5
  <2>2. l # << >>
    <3>1. Len(<< >>) = 0
      OBVIOUS
    <3>. QED BY <1>3, <2>1, <3>1
  <2>. QED BY <1>3, <2>1, <2>2 DEF TabledLog, TablesMatch, LastTime
<1>7. l[i] \in Events /\ l[k] \in Events
  BY <1>3, <1>6 DEF TabledLog
<1>8. PICK latest, seen : latest = l[k].time /\ seen = l[i].time
  OBVIOUS
<1>9. latest \in Int /\ seen \in Int /\ latest - seen \in DOMAIN Decay /\ latest - seen \in Int
  BY <1>2, <1>7, <1>8
<1>10. PICK age : age = Record!FreqRecency!Age(x)
  OBVIOUS
<1>11. age = IF 0 >= latest - seen THEN 0 ELSE latest - seen
  BY <1>5, <1>6, <1>8, <1>9, <1>10, MaxOfTwo DEF Record!FreqRecency!Age
<1>12. age \in DOMAIN Decay /\ 0 <= age
  BY <1>1, <1>9, <1>11
<1>13. Decay[age] \in Nat /\ Decay[age] <= Unit
  BY <1>1, <1>12
<1>. QED BY <1>1, <1>10, <1>13

LEMMA FreqRecencyScores ==
  ASSUME Record!IngestionAssumption, RecordInv
  PROVE  Record!FreqRecency!ScoresInRange
<1>1. PICK l : TabledLog(l)
  BY LogIsTabled
<1>. SUFFICES ASSUME NEW x \in DOMAIN uses
              PROVE  Record!FreqRecency!Score(x) \in 0..Record!FreqRecency!Whole
  BY DEF Record!FreqRecency!ScoresInRange
<1>2. PICK hour : hour = Record!FreqRecency!Hour
  OBVIOUS
<1>3. PICK u, t : u = uses[x] /\ t = Total(uses)
  OBVIOUS
<1>4. u \in Nat /\ t \in Nat /\ u <= t
  <2>1. uses = Tally(DOMAIN l, Apps(l)) /\ IsFiniteSet(DOMAIN l)
    BY <1>1 DEF TabledLog, TablesMatch
  <2>2. IsFiniteSet(DOMAIN uses) /\ \A y \in DOMAIN uses : uses[y] \in Nat
    BY <2>1, TallyTyped
  <2>. QED BY <1>3, <2>2, CountWithinTotal
<1>5. PICK d : d = Decay[Record!FreqRecency!Age(x)]
  OBVIOUS
<1>6. d \in Nat /\ Unit \in Nat /\ d <= Unit
  BY <1>1, <1>5, AgesDecay
<1>7. PICK c, h : c = Count(RowOf(hourCounts, hour), x) /\ h = Count(hourTotals, hour)
  OBVIOUS
<1>8. c \in Nat /\ h \in Nat /\ c <= h
  BY <1>1, <1>7, HabitsCounted
<1>9. PICK w : w = Record!FreqRecency!HourTotal
  OBVIOUS
<1>10. w = IF 1 >= h THEN 1 ELSE h
  <2>1. w = Record!FreqRecency!Max({1, h})
    BY <1>2, <1>7, <1>9, SameTotals DEF Record!FreqRecency!HourTotal
  <2>. QED BY <1>8, <2>1, MaxOfTwo
<1>11. w \in Nat /\ c <= w
  BY <1>8, <1>10
<1>12. Record!FreqRecency!Count(Record!FreqRecency!CountsOf(hour), x) = c
  <2>1. Record!FreqRecency!CountsOf(hour) = RowOf(hourCounts, hour)
    BY DEF Record!FreqRecency!CountsOf, RowOf, Record!FreqRecency!NoCounts, NoCounts
  <2>. QED BY <1>7, <2>1, SameTotals
<1>13. Record!FreqRecency!Score(x) = 45 * u * Unit * w + 30 * d * t * w + 25 * c * Unit * t
  BY <1>2, <1>3, <1>5, <1>9, <1>12, SameTotals DEF Record!FreqRecency!Score
<1>14. Record!FreqRecency!Whole = 100 * Unit * t * w
  BY <1>3, <1>9, SameTotals DEF Record!FreqRecency!Whole
<1>15. 45 * u * Unit * w + 30 * d * t * w + 25 * c * Unit * t \in 0..(100 * Unit * t * w)
  BY <1>4, <1>6, <1>8, <1>11, SharesAddUp
<1>. QED BY <1>13, <1>14, <1>15

(* The scores of an answer of Markov-1 never add up to more than 1, and no   *)
(* score of FreqRecency is outside [0, 1], whatever timestamps come.        *)
THEOREM ScoresAreInRange ==
  ASSUME Record!IngestionAssumption PROVE Record!Spec => []ScoresInRange
<1>1. RecordInv => ScoresInRange
  BY MarkovScores, FreqRecencyScores DEF ScoresInRange, Record!ScoresInRange
<1>. QED BY <1>1, RecordInvariance, PTL

-----------------------------------------------------------------------------
LEMMA SameRankings ==
  /\ \A score, k : Record!Window!Rankings(score, k) = Rankings(score, k)
  /\ \A score, k : Record!Markov!Rankings(score, k) = Rankings(score, k)
  /\ \A score, k : Record!FreqRecency!Rankings(score, k) = Rankings(score, k)
  /\ \A s, k : Record!Cut(s, k) = Cut(s, k)
<1>1. \A S : Record!Window!SetToSeqs(S) = SetToSeqs(S)
  <2>1. \A S : Record!Window!Cardinality(S) = Cardinality(S)
    BY DEF Record!Window!Cardinality, Cardinality
  <2>. QED BY <2>1 DEF Record!Window!SetToSeqs, SetToSeqs
<1>2. \A S : Record!Markov!SetToSeqs(S) = SetToSeqs(S)
  BY SameTotals DEF Record!Markov!SetToSeqs, SetToSeqs
<1>3. \A S : Record!FreqRecency!SetToSeqs(S) = SetToSeqs(S)
  <2>1. \A S : Record!FreqRecency!Cardinality(S) = Cardinality(S)
    BY DEF Record!FreqRecency!Cardinality, Cardinality
  <2>. QED BY <2>1 DEF Record!FreqRecency!SetToSeqs, SetToSeqs
<1>4. \A score, k : Record!Window!Rankings(score, k) = Rankings(score, k)
  BY <1>1 DEF Record!Window!Rankings, Rankings, Record!Window!Cut, Cut
<1>5. \A score, k : Record!Markov!Rankings(score, k) = Rankings(score, k)
  BY <1>2 DEF Record!Markov!Rankings, Rankings, Record!Markov!Cut, Cut
<1>6. \A score, k : Record!FreqRecency!Rankings(score, k) = Rankings(score, k)
  BY <1>3 DEF Record!FreqRecency!Rankings, Rankings, Record!FreqRecency!Cut, Cut
<1>7. \A s, k : Record!Cut(s, k) = Cut(s, k)
  BY DEF Record!Cut, Cut
<1>. QED BY <1>4, <1>5, <1>6, <1>7

-----------------------------------------------------------------------------
LEMMA SameTouch == \A s, x : Record!Touch(s, x) = Touch(s, x)
BY DEF Record!Touch, Touch, Record!PushFront, PushFront, Record!Cons, Cons,
   Record!Unlink, Unlink, Record!RemoveFirst, RemoveFirst, Record!RemoveAt, RemoveAt,
   Record!SelectInSeq, SelectInSeq, Record!Min, Min

LEMMA RecentsRun ==
  ASSUME NEW S, history \in Seq(S), NEW n \in Nat, n = Len(history)
  PROVE  \E R : IsTouchRun(R, n, history, S) /\ Record!Recents = R[n]
<1>. DEFINE f == CHOOSE f : IsTouchLoop(f, n, history)
            R == [k \in 0..n |-> f[1..k]]
<1>0. PICK h : h = history
  OBVIOUS
<1>1. Record!Recents = f[1..n]
  <2>1. DOMAIN history = 1..n
    OBVIOUS
  <2>. QED BY <2>1, SameTouch
       DEF Record!Recents, Record!FoldLeft, Record!MapThenFoldSet, Record!Max, Max, IsTouchLoop
<1>2. \A k \in 1..n : history[k] \in S
  OBVIOUS
<1>3. IsTouchLoop(f, n, history)
  <2>1. \E g \in [SUBSET (1..n) -> Distinct(S)] : IsTouchLoop(g, n, history)
    BY <1>2, TouchLoopExists
  <2>. QED BY <2>1
<1>. HIDE DEF f
<1>4. \A k \in 0..n : f[1..k] \in Distinct(S)
  BY <1>2, <1>3, TouchLoopTyped
<1>5. f[{}] = << >>
  BY <1>3 DEF IsTouchLoop
<1>6. ASSUME NEW k \in 1..n
      PROVE  f[1..k] = Touch(f[1..(k - 1)], history[k])
  <2>1. 1..k # {} /\ Max(1..k) = k /\ (1..k) \ {k} = 1..(k - 1)
    <3>1. k \in Nat /\ k # 0
      OBVIOUS
    <3>. QED BY <3>1, MaxOfPrefix
  <2>2. 1..k \in SUBSET (1..n)
    OBVIOUS
  <2>. QED BY <1>3, <2>1, <2>2 DEF IsTouchLoop
<1>7. IsTouchRun(R, n, history, S)
  <2>1. 1..0 = {}
    OBVIOUS
  <2>2. R[0] = << >>
    BY <1>5, <2>1
  <2>3. ASSUME NEW k \in 1..n PROVE R[k] = Touch(R[k - 1], history[k])
    <3>1. R[k] = f[1..k] /\ R[k - 1] = f[1..(k - 1)]
      OBVIOUS
    <3>. HIDE DEF R
    <3>. QED BY <1>6, <3>1
  <2>4. \A k \in 0..n : R[k] \in Distinct(S)
    BY <1>4
  <2>. HIDE DEF R
  <2>. QED BY <2>2, <2>3, <2>4 DEF IsTouchRun
<1>8. R[n] = Record!Recents
  BY <1>1
<1>. HIDE DEF R
<1>. QED BY <1>7, <1>8

(* The last places of the apps of the window.                               *)
LEMMA LastPlaces ==
  ASSUME NEW S, history \in Seq(S), NEW n \in Nat, n = Len(history)
  PROVE  /\ DOMAIN Record!Window!LastIndex = UsedIn(history, n)
         /\ IsFiniteSet(UsedIn(history, n))
         /\ \A x \in UsedIn(history, n) :
              /\ Record!Window!LastIndex[x] \in 1..n
              /\ history[Record!Window!LastIndex[x]] = x
              /\ \A i \in 1..n : history[i] = x => i <= Record!Window!LastIndex[x]
<1>1. DOMAIN history = 1..n
  OBVIOUS
<1>2. Record!Window!Range(history) = UsedIn(history, n)
  BY <1>1 DEF Record!Window!Range, UsedIn
<1>3. IsFiniteSet(UsedIn(history, n))
  <2>. DEFINE f == [i \in 1..n |-> history[i]]
              U == UsedIn(history, n)
  <2>1. U = {f[i] : i \in 1..n}
    BY DEF UsedIn
  <2>. HIDE DEF U
  <2>2. f \in Surjection(1..n, U)
    BY <2>1 DEF Surjection
  <2>3. IsFiniteSet(1..n)
    BY FS_Interval
  <2>. HIDE DEF f
  <2>4. IsFiniteSet(U)
    BY <2>2, <2>3, FS_Surjection
  <2>. QED BY <2>4 DEF U
<1>4. ASSUME NEW x \in UsedIn(history, n)
      PROVE  /\ Record!Window!LastIndex[x] \in 1..n
             /\ history[Record!Window!LastIndex[x]] = x
             /\ \A i \in 1..n : history[i] = x => i <= Record!Window!LastIndex[x]
  <2>1. PICK P : P = {i \in DOMAIN history : history[i] = x}
    OBVIOUS
  <2>2. P # {} /\ P \in SUBSET (1..n)
    BY <1>1, <2>1 DEF UsedIn
  <2>3. Max(P) \in P /\ \A y \in P : y <= Max(P)
    BY <2>2, MaxOfPositions
  <2>4. Record!Window!LastIndex[x] = Max(P)
    BY <1>2, <2>1 DEF Record!Window!LastIndex, Record!Window!Max, Max
  <2>. QED BY <1>1, <2>1, <2>2, <2>3, <2>4
<1>. QED BY <1>2, <1>3, <1>4 DEF Record!Window!LastIndex

LEMMA RecentsIsOrder ==
  ASSUME NEW S, history \in Seq(S)
  PROVE  /\ Record!Recents \in SetToSeqs(DOMAIN Record!Window!LastIndex)
         /\ Ranked(Record!Window!LastIndex, Record!Recents)
<1>1. PICK n \in Nat : n = Len(history)
  BY LenProperties
<1>2. PICK h : h = history
  OBVIOUS
<1>3. PICK R : IsTouchRun(R, n, h, S) /\ Record!Recents = R[n]
  BY <1>1, <1>2, RecentsRun
<1>4. \A k \in 1..n : h[k] \in S
  BY <1>1, <1>2
<1>5. PICK s : s = Record!Recents
  OBVIOUS
<1>6. ToSet(s) = UsedIn(h, n) /\ MoreRecentFirst(s, h, n)
  <2>1. n \in 0..n
    OBVIOUS
  <2>. QED BY <1>3, <1>4, <1>5, <2>1, TouchRecency
<1>7. s \in Seq(S) /\ NoRepeats(s)
  <2>1. n \in 0..n
    OBVIOUS
  <2>. QED BY <1>3, <1>5, <2>1 DEF IsTouchRun, Distinct
<1>8. PICK U, key : U = UsedIn(h, n) /\ key = Record!Window!LastIndex
  OBVIOUS
<1>9. /\ DOMAIN key = U /\ IsFiniteSet(U)
      /\ \A x \in U : /\ key[x] \in 1..n /\ h[key[x]] = x
                      /\ \A i \in 1..n : h[i] = x => i <= key[x]
  BY <1>1, <1>2, <1>8, LastPlaces
<1>10. s \in SetToSeqs(U)
  <2>1. Cardinality(U) = Len(s)
    BY <1>6, <1>7, <1>8, KeysCounted
  <2>2. PICK m \in Nat : m = Len(s)
    BY <1>7, LenProperties
  <2>3. DOMAIN s = 1..m
    BY <1>7, <2>2
  <2>4. s \in [1..m -> U]
    <3>1. \A i \in 1..m : s[i] \in U
      BY <1>6, <1>8, <2>3 DEF ToSet
    <3>2. s = [i \in 1..m |-> s[i]]
      BY <1>7, <2>2
    <3>. QED BY <3>1, <3>2
  <2>5. \A i, j \in 1..m : i # j => s[i] # s[j]
    BY <1>7, <2>2 DEF NoRepeats
  <2>. QED BY <2>1, <2>2, <2>4, <2>5 DEF SetToSeqs
<1>11. Ranked(key, s)
  <2>. SUFFICES ASSUME NEW i \in DOMAIN s, NEW j \in DOMAIN s, i < j
                PROVE  key[s[i]] >= key[s[j]]
    BY DEF Ranked
  <2>1. DOMAIN s = 1..Len(s)
    BY <1>7
  <2>2. Before(s, s[i], s[j])
    BY <2>1 DEF Before
  <2>3. UsedAfter(h, n, s[i], s[j])
    BY <1>6, <2>2 DEF MoreRecentFirst
  <2>4. s[i] \in U /\ s[j] \in U
    BY <1>6, <1>8 DEF ToSet
  <2>5. PICK a, b : a = s[i] /\ b = s[j]
    OBVIOUS
  <2>6. PICK p \in 1..n : h[p] = a /\ \A q \in 1..n : h[q] = b => q < p
    BY <2>3, <2>5 DEF UsedAfter
  <2>7. key[a] \in 1..n /\ p <= key[a]
    BY <1>9, <2>4, <2>5, <2>6
  <2>8. key[b] \in 1..n /\ key[b] < p
    BY <1>9, <2>4, <2>5, <2>6
  <2>. QED BY <2>5, <2>7, <2>8
<1>. QED BY <1>5, <1>8, <1>9, <1>10, <1>11

LEMMA MRUAnswers ==
  ASSUME RecordInv, NEW k \in Nat
  PROVE  Record!MRUIsRecents(k)
<1>1. PICK n \in Nat : n = Len(history)
  BY LenProperties DEF RecordInv
<1>2. history \in Seq(AppIds)
  BY DEF RecordInv
<1>3. PICK key, s, D : key = Record!Window!LastIndex /\ s = Record!Recents /\ D = DOMAIN key
  OBVIOUS
<1>4. s \in SetToSeqs(D) /\ Ranked(key, s)
  BY <1>2, <1>3, RecentsIsOrder
<1>5. /\ IsFiniteSet(D) /\ D = UsedIn(history, n)
      /\ \A x \in D : key[x] \in 1..n /\ history[key[x]] = x
  BY <1>1, <1>2, <1>3, LastPlaces
<1>6. (\A x \in D : key[x] \in Int) /\ (\A x, y \in D : key[x] = key[y] => x = y)
  BY <1>5
<1>7. ASSUME NEW t \in SetToSeqs(D), Ranked(key, t) PROVE t = s
  BY <1>4, <1>5, <1>6, <1>7, OneOrder
<1>8. Rankings(key, k) = {Cut(s, k)}
  <2>1. Rankings(key, k) = {Cut(r, k) : r \in {t \in SetToSeqs(D) : Ranked(key, t)}}
    BY <1>3 DEF Rankings, Ranked
  <2>2. {t \in SetToSeqs(D) : Ranked(key, t)} = {s}
    BY <1>4, <1>7
  <2>. QED BY <2>1, <2>2
<1>. QED BY <1>3, <1>8, SameRankings DEF Record!MRUIsRecents, Record!Window!PredictMRU

-----------------------------------------------------------------------------
LEMMA MinOfTwo ==
  ASSUME NEW x \in Nat, NEW y \in Nat
  PROVE  Record!Min({x, y}) = IF x <= y THEN x ELSE y
<1>1. PICK S : S = {x, y}
  OBVIOUS
<1>2. PICK m \in S : \A z \in S : m <= z
  BY <1>1
<1>3. \A n \in S : (\A z \in S : n <= z) => n = m
  BY <1>1, <1>2
<1>4. Record!Min(S) = m
  BY <1>2, <1>3 DEF Record!Min
<1>. QED BY <1>1, <1>2, <1>4

(* All uses, of MFU, Markov-1 and FreqRecency, are of the apps learned.      *)
LEMMA LearnedApps ==
  ASSUME Record!IngestionAssumption, RecordInv
  PROVE  /\ IsFiniteSet(Record!Learned) /\ DOMAIN counts = Record!Learned
         /\ DOMAIN unigram = Record!Learned /\ DOMAIN uses = Record!Learned
         /\ \A x \in DOMAIN transitions :
               IsFiniteSet(DOMAIN transitions[x]) /\ DOMAIN transitions[x] \subseteq Record!Learned
<1>1. PICK l : l = Learning(events)
  OBVIOUS
<1>2. TabledLog(l) /\ Record!Log = l
  BY <1>1, LogIsTabled, LogIs
<1>3. PICK U : U = KeysAt(DOMAIN l, Apps(l))
  OBVIOUS
<1>4. Record!Learned = U
  <2>1. Record!Apps(l) = Apps(l)
    BY SameLogOperators
  <2>. QED BY <1>2, <1>3, <2>1 DEF Record!Learned, Record!Range, KeysAt, Apps
<1>5. DOMAIN counts = U /\ DOMAIN unigram = U /\ DOMAIN uses = U
  BY <1>2, <1>3, TallyIs DEF TabledLog, TablesMatch
<1>6. IsFiniteSet(U)
  <2>1. IsFiniteSet(DOMAIN l) /\ counts = Tally(DOMAIN l, Apps(l))
    BY <1>2 DEF TabledLog, TablesMatch
  <2>2. IsFiniteSet(DOMAIN counts)
    BY <2>1, TallyTyped
  <2>. QED BY <1>5, <2>2
<1>7. ASSUME NEW x \in DOMAIN transitions
      PROVE  IsFiniteSet(DOMAIN transitions[x]) /\ DOMAIN transitions[x] \subseteq U
  <2>1. PICK D : D = DOMAIN transitions[x]
    OBVIOUS
  <2>2. D \in SUBSET U
    BY <1>2, <1>5, <2>1, FollowersCounted
  <2>. QED BY <1>6, <2>1, <2>2, FS_Subset
<1>. QED BY <1>4, <1>5, <1>6, <1>7

LEMMA SameAnswers ==
  ASSUME NEW rankings, NEW k, NEW U, \A r \in rankings : IsAnswer(r, k, U)
  PROVE  Record!Answers(rankings, k, U)
BY DEF IsAnswer, Record!Answers, Record!IsInjective, IsInjective, Record!Range, Range

(* Whatever the sort does with ties, an answer is of different apps that     *)
(* were learned since the last reset, as many as were asked for unless there *)
(* are no more; and the answer of MRU is the recents list of the window.     *)
THEOREM AnswersAreAlwaysRight ==
  ASSUME Record!IngestionAssumption PROVE Record!Spec => []AnswersAreRight
<1>1. RecordInv => AnswersAreRight
  <2>. SUFFICES ASSUME RecordInv, NEW k \in TopKs
                PROVE  /\ Record!Answers(Record!Window!PredictMFU(k), k, Record!Learned)
                       /\ Record!MRUIsRecents(k)
                       /\ Record!Answers(Record!Markov!Predict(k), k, Record!Learned)
                       /\ Record!Answers(Record!FreqRecency!Predict(k), k, Record!Learned)
                       /\ \A r \in Record!Window!PredictMFU(k) \cup Record!FreqRecency!Predict(k) :
                            Len(r) = Record!Min({k, Record!Cardinality(Record!Learned)})
    BY DEF AnswersAreRight, Record!AnswersAreRight
  <2>1. k \in Nat
    BY DEF Record!IngestionAssumption
  <2>2. PICK U : U = Record!Learned
    OBVIOUS
  <2>3. /\ IsFiniteSet(U) /\ DOMAIN counts = U /\ DOMAIN unigram = U /\ DOMAIN uses = U
        /\ \A x \in DOMAIN transitions :
              IsFiniteSet(DOMAIN transitions[x]) /\ DOMAIN transitions[x] \subseteq U
    BY <2>2, LearnedApps
  <2>4. PICK n \in Nat : n = Cardinality(U)
    BY <2>3, FS_CardinalityType
  <2>5. Record!Min({k, Record!Cardinality(U)}) = IF n <= k THEN n ELSE k
    <3>1. Record!Cardinality(U) = n
      BY <2>4 DEF Record!Cardinality, Cardinality
    <3>2. Record!Min({k, n}) = IF k <= n THEN k ELSE n
      BY <2>1, MinOfTwo
    <3>. QED BY <2>1, <3>1, <3>2
  <2>6. Record!MRUIsRecents(k)
    BY <2>1, MRUAnswers
  <2>7. ASSUME NEW r \in Record!Window!PredictMFU(k)
        PROVE  IsAnswer(r, k, U) /\ Len(r) = IF n <= k THEN n ELSE k
    <3>1. r \in Rankings(counts, k)
      BY SameRankings DEF Record!Window!PredictMFU
    <3>. QED BY <2>1, <2>3, <2>4, <3>1, RankingsAnswer, RankingsAreCuts
  <2>8. ASSUME NEW r \in Record!Markov!Predict(k) PROVE IsAnswer(r, k, U)
    <3>1. CASE last = NoApp
      BY <2>1, <3>1, NoAnswer DEF Record!Markov!Predict
    <3>2. CASE last # NoApp /\ last \notin DOMAIN transitions
      <4>1. r \in Rankings(unigram, k)
        BY <3>2, SameRankings DEF Record!Markov!Predict, Record!Markov!Fallback
      <4>. QED BY <2>1, <2>3, <4>1, RankingsAnswer
    <3>3. CASE last # NoApp /\ last \in DOMAIN transitions
      <4>1. PICK f : f = transitions[last]
        OBVIOUS
      <4>2. r \in Rankings(f, k)
        BY <3>3, <4>1, SameRankings DEF Record!Markov!Predict, Record!Markov!Fallback
      <4>3. IsFiniteSet(DOMAIN f) /\ DOMAIN f \subseteq U
        BY <2>3, <3>3, <4>1
      <4>. QED BY <2>1, <4>2, <4>3, RankingsAnswer
    <3>. QED BY <3>1, <3>2, <3>3
  <2>9. ASSUME NEW r \in Record!FreqRecency!Predict(k)
        PROVE  IsAnswer(r, k, U) /\ Len(r) = IF n <= k THEN n ELSE k
    <3>1. CASE U = {}
      <4>1. r = << >>
        BY <2>3, <3>1 DEF Record!FreqRecency!Predict
      <4>2. n = 0
        BY <2>4, <3>1, FS_EmptySet
      <4>. QED BY <2>1, <4>1, <4>2, NoAnswer
    <3>2. CASE U # {}
      <4>1. PICK f : f = [x \in DOMAIN uses |-> Record!FreqRecency!Score(x)]
        OBVIOUS
      <4>2. DOMAIN f = U
        BY <2>3, <4>1
      <4>3. r \in Rankings(f, k)
        BY <2>3, <3>2, <4>1, SameRankings DEF Record!FreqRecency!Predict
      <4>. QED BY <2>1, <2>3, <2>4, <4>2, <4>3, RankingsAnswer, RankingsAreCuts
    <3>. QED BY <3>1, <3>2
  <2>10. /\ Record!Answers(Record!Window!PredictMFU(k), k, U)
         /\ Record!Answers(Record!Markov!Predict(k), k, U)
         /\ Record!Answers(Record!FreqRecency!Predict(k), k, U)
    BY <2>7, <2>8, <2>9, SameAnswers
  <2>. QED BY <2>2, <2>5, <2>6, <2>7, <2>9, <2>10
<1>. QED BY <1>1, RecordInvariance, PTL
=============================================================================
