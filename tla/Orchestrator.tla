---------------------------- MODULE Orchestrator ----------------------------
(***************************************************************************)
(* Orchestrator of core/src/orchestrator.cpp over its components: the      *)
(* facade that threads of the host app share.  Its calls hold Impl::mu;     *)
(* tick(), reset() and record_event() are several steps, each a call into  *)
(* a component that takes that component's own lock.  The accessors        *)
(* app_cache(), model_cache() and kv_cache() hand the components out, so     *)
(* hosts change them between any two of those steps, capacities included.   *)
(* The caches are the AdaptiveCache contract, whatever policy is chosen.    *)
(* predict_next() and the other calls that only read change nothing here.   *)
(***************************************************************************)
EXTENDS Naturals, SequencesExt

CONSTANTS
  Threads, None,        \* the host's threads; mu's owner when it is free
  Apps, Models,         \* AppIds and ModelIds
  HostValues,           \* what hosts put into the caches
  HostCapacities,       \* what hosts resize them to
  Placeholder,          \* the preloader's "w"
  Config, Devices, DefaultDevice, Word64,   \* see PowerPolicy
  PreloadTopK,          \* preload_top_k
  Blocks, Word32, MaxTotal,                 \* see KVCacheManager
  MaxEvents             \* bound of the model: events recorded

VARIABLES
  mu, pc,               \* the owner of mu; the step each thread is at
  device, mode,         \* Impl::device, Impl::mode
  plan,                 \* the ArbiterPlan last decided
  app, appCapacity, model, modelCapacity,   \* the two caches
  blocks, total,        \* the KV manager
  history, events,      \* what the predictor learned; what storage holds
  slots, samples,       \* registered models; has telemetry recorded a tick
  todo, pending,        \* of the tick under way: keys to warm, ids to release
  touched,              \* history variable: an accessor was used since the
                        \* lock was last taken
  resized               \* history variable: the caches that a host resized
                        \* since a tick last did

policyVars == <<device, mode, plan>>
cacheVars == <<app, appCapacity, model, modelCapacity, resized>>
kvVars == <<blocks, total, pending>>
logVars == <<history, events>>
restVars == <<slots, samples>>
vars == <<mu, pc, policyVars, cacheVars, kvVars, logVars, restVars, todo, touched>>

(* A key of the app cache: an app's own state, or what was warmed for it.   *)
Warm(a) == <<"warm", a>>
AppKeys == Apps \cup {Warm(a) : a \in Apps}

Policy == INSTANCE PowerPolicy WITH Configs <- {Config}, config <- Config
AppCache == INSTANCE CacheContract
            WITH Keys <- AppKeys, Values <- HostValues \cup {Placeholder},
                 Capacities <- {Config.app}, contents <- app, capacity <- appCapacity
ModelCache == INSTANCE CacheContract
              WITH Keys <- Models, Values <- HostValues,
                   Capacities <- {Config.model},
                   contents <- model, capacity <- modelCapacity
Budgets == {Policy!KVBudget(m, Config) : m \in Policy!Modes}
KV == INSTANCE KVCacheManager WITH Sink <- Config.sink, Recent <- Config.recent

ASSUME OrchestratorAssumption ==
  /\ None \notin Threads
  /\ Placeholder \notin HostValues
  /\ {PreloadTopK, MaxEvents} \cup HostCapacities \subseteq Nat
  /\ Policy!PowerAssumption
  /\ KV!KVAssumption

-----------------------------------------------------------------------------
(* Mutant: there is no lock_guard. *)
AcquireUnlocked(t, step) ==
  /\ pc[t] = "idle"
  /\ mu' = t
  /\ pc' = [pc EXCEPT ![t] = step]
  /\ touched' = FALSE

(* lock_guard g(impl_->mu): taken by the first step, gone with the last.    *)
Acquire(t, step) ==
  /\ mu = None
  /\ pc[t] = "idle"
  /\ mu' = t
  /\ pc' = [pc EXCEPT ![t] = step]
  /\ touched' = FALSE

Goto(t, from, to) ==
  /\ pc[t] = from
  /\ pc' = [pc EXCEPT ![t] = to]
  /\ UNCHANGED <<mu, touched>>

Return(t, from) ==
  /\ pc[t] = from
  /\ pc' = [pc EXCEPT ![t] = "idle"]
  /\ mu' = None
  /\ UNCHANGED touched

(* A call that is one step under the lock. *)
Locked(t) ==
  /\ mu = None
  /\ pc[t] = "idle"
  /\ UNCHANGED <<mu, pc, touched>>

-----------------------------------------------------------------------------
RecordObserve(t, a) ==
  /\ Acquire(t, "append")
  /\ Len(history) < MaxEvents
  /\ history' = Append(history, a)
  /\ UNCHANGED <<policyVars, cacheVars, kvVars, events, restVars, todo>>

(* The event appended is the one just observed.                             *)
RecordAppend(t) ==
  /\ Return(t, "append")
  /\ events' = Append(events, Last(history))
  /\ UNCHANGED <<policyVars, cacheVars, kvVars, history, restVars, todo>>

RecordModelLoad(t, id) ==
  /\ Locked(t)
  /\ slots' = slots \cup {id}
  /\ UNCHANGED <<policyVars, cacheVars, kvVars, logVars, samples, todo>>

(* Mutant: the device is updated without the lock.                          *)
UpdateDeviceUnlocked(t, d) ==
  /\ pc[t] = "idle"
  /\ UNCHANGED <<mu, pc, touched>>
  /\ Policy!UpdateDeviceState(d)
  /\ UNCHANGED <<cacheVars, kvVars, logVars, restVars, todo>>

UpdateDevice(t, d) ==
  /\ Locked(t)
  /\ Policy!UpdateDeviceState(d)
  /\ UNCHANGED <<cacheVars, kvVars, logVars, restVars, todo>>

-----------------------------------------------------------------------------
(* tick(), orchestrator.cpp:118-157 *)
(* The predictions are distinct apps of the history, in any order; one may  *)
(* score above 0.70.                                                       *)
Predictions == UNION {SetToSeqs(s) : s \in SUBSET ToSet(history)}
Decide(t, p, confident) ==
  /\ Acquire(t, "resizeApp")
  /\ confident => p # << >>
  /\ Policy!Tick(confident)
  /\ todo' = p
  /\ UNCHANGED <<cacheVars, kvVars, logVars, restVars>>

ResizeApp(t) ==
  /\ Goto(t, "resizeApp", "resizeModel")
  /\ AppCache!Resize(plan.app)
  /\ resized' = resized \ {"app"}
  /\ UNCHANGED <<policyVars, model, modelCapacity, kvVars, logVars, restVars, todo>>

(* Mutant: a plan without model slots leaves the cache as it is.            *)
ResizeModelIfAny(t) ==
  /\ Goto(t, "resizeModel", "warm")
  /\ \/ plan.model > 0 /\ ModelCache!Resize(plan.model)
     \/ plan.model = 0 /\ UNCHANGED <<model, modelCapacity>>
  /\ resized' = resized \ {"model"}
  /\ UNCHANGED <<policyVars, app, appCapacity, kvVars, logVars, restVars, todo>>

ResizeModel(t) ==
  /\ Goto(t, "resizeModel", "warm")
  /\ ModelCache!Resize(plan.model)
  /\ resized' = resized \ {"model"}
  /\ UNCHANGED <<policyVars, app, appCapacity, kvVars, logVars, restVars, todo>>

Smaller(m, n) == IF m < n THEN m ELSE n

(* DefaultPreloader::plan(): how many of the predictions are warmed.        *)
WarmCount ==
  IF plan.mode = Policy!Reduced THEN Smaller(PreloadTopK, 1) ELSE PreloadTopK

(* Hints lose no entry: hint_future() changes nothing the contract shows.   *)
PlanWarming(t) ==
  /\ Goto(t, "warm", IF plan.preload THEN "get" ELSE "planKV")
  /\ todo' = IF plan.preload THEN SubSeq(todo, 1, Smaller(Len(todo), WarmCount))
             ELSE << >>
  /\ UNCHANGED <<policyVars, cacheVars, kvVars, logVars, restVars>>

(* DefaultPreloader::execute(): a get() and, on a miss, a put() per key.    *)
WarmGet(t) ==
  /\ \/ /\ todo = << >>
        /\ Goto(t, "get", "planKV")
        /\ UNCHANGED todo
     \/ /\ todo # << >> /\ Warm(Head(todo)) \in DOMAIN app
        /\ Goto(t, "get", "get")
        /\ todo' = Tail(todo)
     \/ /\ todo # << >> /\ Warm(Head(todo)) \notin DOMAIN app
        /\ Goto(t, "get", "put")
        /\ UNCHANGED todo
  /\ UNCHANGED <<policyVars, cacheVars, kvVars, logVars, restVars>>

WarmPut(t) ==
  /\ Goto(t, "put", "get")
  /\ AppCache!Put(Warm(Head(todo)), Placeholder)
  /\ todo' = Tail(todo)
  /\ UNCHANGED <<policyVars, model, modelCapacity, resized, kvVars, logVars, restVars>>

(* Mutant: the configured budget is planned for, not the mode's.            *)
PlanKVConfigured(t) ==
  /\ Goto(t, "planKV", "release")
  /\ KV!Plan(Config.kv)
  /\ UNCHANGED <<policyVars, cacheVars, logVars, restVars, todo>>

PlanKV(t) ==
  /\ Goto(t, "planKV", "release")
  /\ KV!Plan(plan.kv)
  /\ UNCHANGED <<policyVars, cacheVars, logVars, restVars, todo>>

(* Mutant: the plan is made again after each release.                       *)
ReleaseReplanning(t) ==
  /\ Goto(t, "release", "planKV")
  /\ pending # << >>
  /\ KV!Release(Head(pending))
  /\ pending' = << >>
  /\ UNCHANGED <<policyVars, cacheVars, logVars, restVars, todo>>

Release(t) ==
  /\ Goto(t, "release", "release")
  /\ KV!ReleaseNext
  /\ UNCHANGED <<policyVars, cacheVars, logVars, restVars, todo>>

TickReturn(t) ==
  /\ Return(t, "release")
  /\ pending = << >>
  /\ samples' = TRUE
  /\ UNCHANGED <<policyVars, cacheVars, kvVars, logVars, slots, todo>>

-----------------------------------------------------------------------------
(* reset(), orchestrator.cpp:165-172: slots and samples are left alone,     *)
(* although orchestrator.hpp has it "wipe everything".                      *)
ResetPredictor(t) ==
  /\ Acquire(t, "clearApp")
  /\ history' = << >>
  /\ UNCHANGED <<policyVars, cacheVars, kvVars, events, restVars, todo>>

(* Mutant: the app cache is left alone. *)
ResetAppKept(t) ==
  /\ Goto(t, "clearApp", "clearModel")
  /\ UNCHANGED <<policyVars, cacheVars, kvVars, logVars, restVars, todo>>

ResetApp(t) ==
  /\ Goto(t, "clearApp", "clearModel")
  /\ AppCache!Clear
  /\ UNCHANGED <<policyVars, model, modelCapacity, resized, kvVars, logVars, restVars, todo>>

ResetModel(t) ==
  /\ Goto(t, "clearModel", "resetKV")
  /\ ModelCache!Clear
  /\ UNCHANGED <<policyVars, app, appCapacity, resized, kvVars, logVars, restVars, todo>>

ResetKV(t) ==
  /\ Goto(t, "resetKV", "resetStorage")
  /\ KV!Host(KV!Reset)
  /\ UNCHANGED <<policyVars, cacheVars, logVars, restVars, todo>>

(* Mutant: storage is reset on the way out only if anything was learned.    *)
ResetStorageIfLearned(t) ==
  /\ Return(t, "resetStorage")
  /\ events' = IF history = << >> THEN events ELSE << >>
  /\ UNCHANGED <<policyVars, cacheVars, kvVars, history, restVars, todo>>

ResetStorage(t) ==
  /\ Return(t, "resetStorage")
  /\ events' = << >>
  /\ UNCHANGED <<policyVars, cacheVars, kvVars, history, restVars, todo>>

-----------------------------------------------------------------------------
(* Host threads that go through the accessors, without mu.                  *)
Accessor ==
  /\ touched' = TRUE
  /\ UNCHANGED <<mu, pc, policyVars, logVars, restVars, todo>>

HostApp(call) == Accessor /\ call /\ UNCHANGED <<model, modelCapacity, resized, kvVars>>
HostModel(call) == Accessor /\ call /\ UNCHANGED <<app, appCapacity, resized, kvVars>>
HostKV(call) == Accessor /\ KV!Host(call) /\ UNCHANGED cacheVars

HostResizeApp(c) ==
  /\ Accessor
  /\ AppCache!Resize(c)
  /\ resized' = resized \cup {"app"}
  /\ UNCHANGED <<model, modelCapacity, kvVars>>

HostResizeModel(c) ==
  /\ Accessor
  /\ ModelCache!Resize(c)
  /\ resized' = resized \cup {"model"}
  /\ UNCHANGED <<app, appCapacity, kvVars>>

HostCalls ==
  \/ \E k \in AppKeys :
        \/ HostApp(AppCache!Erase(k))
        \/ \E v \in HostValues : HostApp(AppCache!Put(k, v))
  \/ \E id \in Models :
        \/ HostModel(ModelCache!Erase(id))
        \/ \E v \in HostValues : HostModel(ModelCache!Put(id, v))
  \/ HostApp(AppCache!Clear) \/ HostModel(ModelCache!Clear)
  \/ \E c \in HostCapacities : HostResizeApp(c) \/ HostResizeModel(c)
  \/ \E b \in Blocks : HostKV(KV!Observe(b))
  \/ \E i \in KV!Ids : HostKV(KV!Release(i))
  \/ HostKV(KV!Reset)

-----------------------------------------------------------------------------
Init ==
  /\ mu = None
  /\ pc = [t \in Threads |-> "idle"]
  /\ Policy!Init
  /\ AppCache!Init
  /\ ModelCache!Init
  /\ KV!Init
  /\ history = << >> /\ events = << >>
  /\ slots = {} /\ samples = FALSE
  /\ todo = << >> /\ touched = FALSE /\ resized = {}

(* What a thread does next once it holds the lock. *)
Continue(t) ==
  \/ RecordAppend(t)
  \/ ResizeApp(t) \/ ResizeModel(t)
  \/ PlanWarming(t) \/ WarmGet(t) \/ WarmPut(t)
  \/ PlanKV(t) \/ Release(t) \/ TickReturn(t)
  \/ ResetApp(t) \/ ResetModel(t) \/ ResetKV(t) \/ ResetStorage(t)

Begin(t) ==
  \/ \E a \in Apps : RecordObserve(t, a)
  \/ \E id \in Models : RecordModelLoad(t, id)
  \/ \E d \in Devices : UpdateDevice(t, d)
  \/ \E p \in Predictions, confident \in BOOLEAN : Decide(t, p, confident)
  \/ ResetPredictor(t)

Next == (\E t \in Threads : Begin(t) \/ Continue(t)) \/ HostCalls

Spec == Init /\ [][Next]_vars

(* A thread that runs goes on running; nothing makes one call, and the      *)
(* mutex promises no thread its turn.                                      *)
FairSpec == Spec /\ \A t \in Threads : WF_vars(Continue(t))

-----------------------------------------------------------------------------
(* Type invariant; only the thread that owns mu is inside a call, and what  *)
(* a tick has yet to do is gone when no tick is under way.                 *)
Steps == {"idle", "append", "resizeApp", "resizeModel", "warm", "get", "put",
          "planKV", "release", "clearApp", "clearModel", "resetKV", "resetStorage"}
TypeOK ==
  /\ mu \in Threads \cup {None}
  /\ pc \in [Threads -> Steps]
  /\ \A t \in Threads : pc[t] # "idle" <=> mu = t
  /\ Policy!TypeOK
  /\ history \in Seq(Apps) /\ events \in Seq(Apps)
  /\ slots \subseteq Models /\ samples \in BOOLEAN /\ touched \in BOOLEAN
  /\ resized \subseteq {"app", "model"}
  /\ todo \in Seq(Apps)
  /\ mu = None => todo = << >> /\ pending = << >>

(* When no call is under way, the predictor has learned exactly the events  *)
(* that storage holds, in the order storage holds them.                    *)
LearnedIsStored == mu = None => history = events

(* When no call is under way, each cache has the capacity that the last plan *)
(* gave it, unless a host has resized it since: both come from one plan.     *)
CapacitiesFollowPlan ==
  mu = None =>
    /\ "app" \in resized \/ appCapacity = plan.app
    /\ "model" \in resized \/ modelCapacity = plan.model

(* The kill switch holds: what the preloader has warmed is warmed for an    *)
(* app recorded since the last reset(); no tick that predicted before the   *)
(* reset warms after it.                                                   *)
WarmedIsKnown ==
  mu = None =>
    \A a \in Apps : Warm(a) \in DOMAIN app /\ app[Warm(a)] = Placeholder
                      => a \in ToSet(history)

(* A placeholder enters the app cache only while the device is in a mode    *)
(* that preloads.                                                          *)
NoWarmingWhenSaving ==
  [][\A a \in Apps :
       Warm(a) \in DOMAIN app' \ DOMAIN app /\ app'[Warm(a)] = Placeholder
         => mode <= Policy!Reduced /\ Config.preload]_vars

(* reset(): when it returns, nothing recorded before is left in predictor   *)
(* and storage, nor in the caches and the KV manager unless a host used     *)
(* an accessor meanwhile.  Registered models and telemetry it leaves.       *)
ResetIsWhole ==
  [][\A t \in Threads : pc[t] = "resetStorage" /\ pc'[t] = "idle" =>
       /\ history' = << >> /\ events' = << >>
       /\ \/ touched
          \/ DOMAIN app' = {} /\ DOMAIN model' = {} /\ DOMAIN blocks' = {} /\ total' = 0]_vars

(* tick(): when it returns, and no host used an accessor meanwhile, the KV  *)
(* blocks are within the budget of the mode, or none may be evicted.        *)
TickEnforcesBudget ==
  [][\A t \in Threads : pc[t] = "release" /\ pc'[t] = "idle" =>
       \/ touched
       \/ total <= Policy!KVBudget(mode, Config)
       \/ \A i \in DOMAIN blocks : ~KV!Evictable(blocks[i], plan.kv)]_vars

(* A call that has the lock returns, whatever hosts do through accessors.   *)
CallsReturn == \A t \in Threads : mu = t ~> mu # t
=============================================================================
