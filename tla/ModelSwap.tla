------------------------------ MODULE ModelSwap ------------------------------
(***************************************************************************)
(* DefaultModelSwap of core/src/model_swap/model_swap.cpp: the register of *)
(* model weights and the two plans it makes from it.  The loading and      *)
(* unloading is the host's ("implements the actual fs IO", model_swap.hpp): *)
(* a swapper thread asks for a plan and registers each model as it goes,    *)
(* while other threads record model loads and uses.                        *)
(***************************************************************************)
EXTENDS Integers, SequencesExt, FiniteSetsExt

CONSTANTS
  Models,       \* ModelIds
  BytesOf,      \* model -> the bytes of its weights
  Priorities,
  Budgets,      \* the RAM budgets, in bytes, plans are asked for
  Word64,       \* the modulus of size_t
  MaxTime       \* bound of the model: timestamps

SwapAssumption ==
  /\ IsFiniteSet(Models)
  /\ BytesOf \in [Models -> Nat]
  /\ Priorities \subseteq Int
  /\ Budgets \subseteq Nat
  /\ Word64 \in Nat \ {0}
  /\ MaxTime \in Nat

VARIABLES slots,    \* slots_: id -> [bytes, resident, used, priority]
          now,      \* the clock of the callers
          task      \* the swapper: its budget, what is left to do, and
                    \* whether no other thread registered a model meanwhile

vars == <<slots, now, task>>

Idle == [kind |-> "idle", budget |-> 0, ids |-> << >>, quiet |-> TRUE]

Resident == {id \in DOMAIN slots : slots[id].resident}
Bytes == [id \in DOMAIN slots |-> slots[id].bytes]
BytesIn(ids) == SumFunctionOnSet(Bytes, ids) % Word64

(* Mutant: priorities are compared, the age is not.                         *)
ColderByPriority(i, j) == slots[i].priority < slots[j].priority

(* The order of plan_evictions(). *)
Colder(i, j) ==
  \/ slots[i].priority < slots[j].priority
  \/ slots[i].priority = slots[j].priority /\ slots[i].used < slots[j].used

(* What std::sort may make of the resident models.                          *)
Sorted ==
  {order \in SetToSeqs(Resident) :
     \A i, j \in DOMAIN order : i < j => ~Colder(order[j], order[i])}

(* The loop takes the coldest until the rest fits.                          *)
Taken(order, budget) ==
  FoldLeft(LAMBDA acc, id :
             IF acc.total <= budget THEN acc
             ELSE [ids |-> Append(acc.ids, id),
                   total |-> (acc.total - slots[id].bytes) % Word64],
           [ids |-> << >>, total |-> BytesIn(Resident)],
           order).ids

EvictionPlans(budget) == {Taken(order, budget) : order \in Sorted}

(* Mutant: what is already planned to be loaded is not added up.            *)
ChosenUnsummed(predicted, budget) ==
  FoldLeft(LAMBDA acc, id :
             IF acc.done \/ id \notin DOMAIN slots \/ id \in Resident THEN acc
             ELSE IF (BytesIn(Resident) + slots[id].bytes) % Word64 > budget
                  THEN [acc EXCEPT !.done = TRUE]
                  ELSE [acc EXCEPT !.ids = Append(@, id)],
           [ids |-> << >>, done |-> FALSE],
           predicted).ids

(* plan_preloads(): the predicted models, in order, up to the first that    *)
(* does not fit.                                                           *)
Chosen(predicted, budget) ==
  FoldLeft(LAMBDA acc, id :
             IF acc.done \/ id \notin DOMAIN slots \/ id \in Resident THEN acc
             ELSE IF (acc.total + slots[id].bytes) % Word64 > budget
                  THEN [acc EXCEPT !.done = TRUE]
                  ELSE [acc EXCEPT !.ids = Append(@, id),
                                   !.total = (@ + slots[id].bytes) % Word64],
           [ids |-> << >>, total |-> BytesIn(Resident), done |-> FALSE],
           predicted).ids

-----------------------------------------------------------------------------
With(id, slot) ==
  [i \in DOMAIN slots \cup {id} |-> IF i = id THEN slot ELSE slots[i]]

RegisterModel(id, slot) == slots' = With(id, slot)
Disturb == task' = [task EXCEPT !.quiet = (task = Idle)]

(* Orchestrator::record_model_load() registers with priority 0.             *)
RecordModelLoad(id) ==
  /\ RegisterModel(id, [bytes |-> BytesOf[id], resident |-> TRUE,
                        used |-> now, priority |-> 0])
  /\ Disturb
  /\ UNCHANGED now

(* The host makes a model known, loaded or not, with a priority of its own. *)
Announce(id, resident, priority) ==
  /\ RegisterModel(id, [bytes |-> BytesOf[id], resident |-> resident,
                        used |-> now, priority |-> priority])
  /\ Disturb
  /\ UNCHANGED now

MarkUsed(id) ==
  /\ now < MaxTime
  /\ now' = now + 1
  /\ slots' = IF id \in DOMAIN slots THEN [slots EXCEPT ![id].used = now + 1] ELSE slots
  /\ UNCHANGED task

PlanEvictions(budget) ==
  /\ task = Idle
  /\ \E plan \in EvictionPlans(budget) :
        task' = [kind |-> "evict", budget |-> budget, ids |-> plan, quiet |-> TRUE]
  /\ UNCHANGED <<slots, now>>

PlanPreloads(predicted, budget) ==
  /\ task = Idle
  /\ task' = [kind |-> "load", budget |-> budget, ids |-> Chosen(predicted, budget),
              quiet |-> TRUE]
  /\ UNCHANGED <<slots, now>>

(* The swapper registers the next model of its plan as unloaded or loaded.  *)
Swap ==
  /\ task.ids # << >>
  /\ LET id == Head(task.ids)
     IN  RegisterModel(id, [slots[id] EXCEPT !.resident = (task.kind = "load")])
  /\ task' = [task EXCEPT !.ids = Tail(@)]
  /\ UNCHANGED now

Done ==
  /\ task.kind # "idle" /\ task.ids = << >>
  /\ task' = Idle
  /\ UNCHANGED <<slots, now>>

Init ==
  /\ slots = [i \in {} |-> i]
  /\ now = 0
  /\ task = Idle

Next ==
  \/ \E id \in Models :
        \/ RecordModelLoad(id)
        \/ MarkUsed(id)
        \/ \E r \in BOOLEAN, p \in Priorities : Announce(id, r, p)
  \/ \E budget \in Budgets :
        \/ PlanEvictions(budget)
        \/ \E s \in SUBSET Models : \E predicted \in SetToSeqs(s) :
              PlanPreloads(predicted, budget)
  \/ Swap
  \/ Done

Spec == Init /\ [][Next]_vars

-----------------------------------------------------------------------------
(* What an eviction plan must be, whatever order std::sort leaves ties in:   *)
(* what stays has a higher priority than what goes, or the same and a use   *)
(* no older; the rest fits; and the last one had to go.                     *)
EvictionsAreRight ==
  \A budget \in Budgets : \A plan \in EvictionPlans(budget) :
     LET kept == Resident \ ToSet(plan)
     IN  /\ \A i \in kept, j \in ToSet(plan) :
              \/ slots[i].priority > slots[j].priority
              \/ /\ slots[i].priority = slots[j].priority
                 /\ slots[i].used >= slots[j].used
         /\ BytesIn(kept) <= budget
         /\ plan # << >> => BytesIn(kept \cup {Last(plan)}) > budget

(* The swapper never loads beyond the budget it planned for, one model at a  *)
(* time, though uses are marked meanwhile, unless another thread registers  *)
(* a model; and once its evictions are done the resident models fit.        *)
TaskFits ==
  [][task.quiet =>
       /\ Swap /\ task.kind = "load" => (BytesIn(Resident) <= task.budget)'
       /\ Done /\ task.kind = "evict" => BytesIn(Resident) <= task.budget]_vars
=============================================================================
