--------------------------- MODULE KVCacheManager ---------------------------
(***************************************************************************)
(* DefaultKVCacheManager of core/src/kv_cache/kv_cache.cpp: the ledger of  *)
(* the KV blocks that the host's LLM runtime holds, and the eviction plan  *)
(* that Orchestrator::tick() asks for and then carries out, one release()  *)
(* at a time, while host threads go on observing and releasing blocks:     *)
(* each call takes the manager's lock, the pair of them does not.          *)
(***************************************************************************)
EXTENDS Integers, SequencesExt, FiniteSetsExt

CONSTANTS
  Blocks,       \* the KVBlock values hosts observe:
                \* [id, start, count, salience, pinned]
  Sink, Recent, \* kv_cache_sink_tokens, kv_cache_recent_tokens
  Budgets,      \* the token budgets plan() may be given
  Word32, Word64, \* the moduli of uint32_t and size_t
  MaxTotal      \* bound of the model: no observe() above this total

KVAssumption ==
  /\ \A b \in Blocks : {b.start, b.count, b.salience} \subseteq Nat
  /\ {Sink, Recent, MaxTotal} \subseteq Nat
  /\ Budgets \subseteq Nat
  /\ {Word32, Word64} \subseteq Nat \ {0}
  /\ MaxTotal < Word64

VARIABLES blocks,   \* blocks_: sequence id -> the block last observed
          total,    \* total_tokens_
          pending   \* tick()'s kv_plan.evict: what it has yet to release

vars == <<blocks, total, pending>>

Ids == {b.id : b \in Blocks}
Tracked == DOMAIN blocks
NoBlocks == [i \in {} |-> i]
Counts == [i \in Tracked |-> blocks[i].count]
Tokens(ids) == SumFunctionOnSet(Counts, ids)

-----------------------------------------------------------------------------
(* The windows plan() leaves alone.  token_budget - kv_cache_recent_tokens  *)
(* is a size_t: a budget below the recent window wraps to a huge limit.     *)
InSink(b) == b.start < Sink
RecentFrom(budget) == (budget - Recent) % Word64

(* Mutant: only the start of a block is compared. *)
EvictableByStart(b, budget) ==
  ~b.pinned /\ ~InSink(b) /\ b.start <= RecentFrom(budget)

Evictable(b, budget) ==
  /\ ~b.pinned
  /\ ~InSink(b)
  /\ (b.start + b.count) % Word32 <= RecentFrom(budget)

(* What std::sort may make of the blocks: ties come in any order.           *)
Sorted ==
  {order \in SetToSeqs(Tracked) :
     \A i, j \in DOMAIN order :
        i < j => blocks[order[i]].salience <= blocks[order[j]].salience}

(* Mutant: the loop stops before the block that would reach the budget.     *)
TakeShort(acc, i, budget) ==
  IF acc.done \/ ~Evictable(blocks[i], budget) THEN acc
  ELSE IF blocks[i].count >= acc.left THEN [acc EXCEPT !.done = TRUE]
  ELSE [acc EXCEPT !.evict = Append(@, i), !.left = @ - blocks[i].count]

(* One turn of the loop of plan(). *)
Take(acc, i, budget) ==
  IF acc.done \/ ~Evictable(blocks[i], budget) THEN acc
  ELSE [evict |-> Append(acc.evict, i),
        left |-> IF blocks[i].count >= acc.left THEN acc.left
                 ELSE acc.left - blocks[i].count,
        done |-> blocks[i].count >= acc.left]

PlanOf(order, budget) ==
  FoldLeft(LAMBDA acc, i : Take(acc, i, budget),
           [evict |-> << >>, left |-> total - budget, done |-> FALSE],
           order).evict

Plans(budget) ==
  IF total <= budget THEN {<< >>} ELSE {PlanOf(order, budget) : order \in Sorted}

-----------------------------------------------------------------------------
(* observe(): the block replaces the one of its sequence; its tokens are    *)
(* added to the total whether or not they were counted before.             *)
Observe(b) ==
  /\ total + b.count <= MaxTotal
  /\ blocks' = [i \in Tracked \cup {b.id} |-> IF i = b.id THEN b ELSE blocks[i]]
  /\ total' = (total + b.count) % Word64

(* Mutant: a block that is gone is subtracted from the total no more.       *)
ReleaseUncounted(i) ==
  /\ blocks' = [j \in Tracked \ {i} |-> blocks[j]]
  /\ total' = total

Release(i) ==
  \/ /\ i \in Tracked
     /\ total' = (total - blocks[i].count) % Word64
     /\ blocks' = [j \in Tracked \ {i} |-> blocks[j]]
  \/ /\ i \notin Tracked
     /\ UNCHANGED <<blocks, total>>

(* Mutant: the blocks outlive the total. *)
ResetTotal ==
  /\ total' = 0
  /\ UNCHANGED blocks

Reset ==
  /\ blocks' = NoBlocks
  /\ total' = 0

(* orchestrator.cpp: tick() takes the plan, then releases what it names.    *)
Plan(budget) ==
  /\ pending = << >>
  /\ pending' \in Plans(budget)
  /\ UNCHANGED <<blocks, total>>

ReleaseNext ==
  /\ pending # << >>
  /\ Release(Head(pending))
  /\ pending' = Tail(pending)

Host(call) == call /\ UNCHANGED pending

Init ==
  /\ blocks = NoBlocks
  /\ total = 0
  /\ pending = << >>

Next ==
  \/ \E b \in Blocks : Host(Observe(b))
  \/ \E i \in Ids : Host(Release(i))
  \/ Host(Reset)
  \/ \E budget \in Budgets : Plan(budget)
  \/ ReleaseNext

Spec == Init /\ [][Next]_vars

-----------------------------------------------------------------------------
(* Type invariant; a plan names no block twice, or the second release()     *)
(* would fall on whatever the host observed under that id in between.       *)
TypeOK ==
  /\ Tracked \subseteq Ids
  /\ \A i \in Tracked : blocks[i] \in Blocks /\ blocks[i].id = i
  /\ total \in 0..MaxTotal
  /\ pending \in Seq(Ids)
  /\ IsInjective(pending)

(* Nothing but observe() of a sequence that is tracked already moves the    *)
(* total away from the tokens of the tracked blocks (reset() makes it       *)
(* exact): hosts that observe a sequence once, until it is released, read   *)
(* an exact total_tokens(), whatever tick() releases in between.  And as    *)
(* observe() only moves it up, no release() wraps it around.                *)
OnlyUpdatesDrift ==
  [][total' - Tokens(Tracked)' # total - Tokens(Tracked) =>
       \/ \E b \in Blocks : b.id \in Tracked /\ Observe(b)
       \/ total' = Tokens(Tracked)']_vars

(* What a plan must be, for any budget and any order std::sort leaves the   *)
(* ties in: coldest first, only evictable blocks; enough of them to come    *)
(* down to the budget, or all there are; and none more than it takes.       *)
PlanIsRight(plan, budget) ==
  LET may == {i \in Tracked : Evictable(blocks[i], budget)}
      takes == ToSet(plan)
  IN  /\ takes \subseteq may
      /\ \A i \in takes, j \in may \ takes : blocks[i].salience <= blocks[j].salience
      /\ \/ total - Tokens(takes) <= budget
         \/ takes = may
      /\ plan # << >> => total - Tokens(ToSet(Front(plan))) > budget

PlansAreRight ==
  \A budget \in Budgets : \A plan \in Plans(budget) : PlanIsRight(plan, budget)

(* The recent window: the last Recent tokens that the blocks reach to.      *)
LastToken == Max({blocks[i].start + blocks[i].count : i \in Tracked} \cup {0})
InRecent(b) == b.start + b.count > LastToken - Recent
KeepsRecent(budget) ==
  \A plan \in Plans(budget) : \A i \in ToSet(plan) : ~InRecent(blocks[i])

(* config.hpp: kv_cache_recent_tokens is the "always-keep window"; for every *)
(* budget that has room for it.                                            *)
RecentAlwaysKept ==
  \A budget \in Budgets : budget >= Recent => KeepsRecent(budget)

(* The tokens of the context that a block covers; blocks that cover none     *)
(* twice, and whose ends a uint32_t can hold.                               *)
Covered(b) == b.start..(b.start + b.count - 1)
Apart ==
  /\ \A i \in Tracked : blocks[i].start + blocks[i].count < Word32
  /\ \A i, j \in Tracked : i # j => Covered(blocks[i]) \cap Covered(blocks[j]) = {}

(* What holds of it: as long as the total is exact and no two blocks cover  *)
(* the same tokens of the context, no plan takes from the recent window.    *)
RecentKept == total = Tokens(Tracked) /\ Apart => RecentAlwaysKept
=============================================================================
