# Memogent in TLA+

Memogent decides which apps, models and KV-cache blocks of a mobile AI app stay
in memory. This directory models the C++ core (`core/`), checks the models with
TLC and proves the main invariants with TLAPS.

## 1. Inventory

| Component | Source | State | Operations | Module |
|---|---|---|---|---|
| ARC, ContextARC | `core/src/caches/caches.cpp` 193-376 | lists t1, t2 and ghosts b1, b2 with an index each, target `p_`, capacity, counters | get, put, erase, resize, clear, hint_future | `ARCCache` |
| LRU | same, 38-109 | list, index into it, capacity, counters | same without hints | `LRUCache` |
| LFU | same, 114-190 | items with frequency and stamp, capacity, tick, counters | same without hints | `LFUCache` |
| AdaptiveCache interface | `adaptive_cache.hpp` | contents, capacity | put, erase, resize, clear | `CacheContract` (abstract) |
| KV cache manager | `core/src/kv_cache/kv_cache.cpp` | blocks, token total | observe, release, plan, reset | `KVCacheManager` |
| Device classes, arbiter | `device_state.cpp`, `arbiter.cpp` | thresholds and capacities | classify, decide | `PowerPolicy` |
| Model swap manager | `core/src/model_swap/model_swap.cpp` | model slots | register, mark_used, two plans | `ModelSwap` |
| Preloader | `core/src/preloader/preloader.cpp` | none | plan, execute | inside `Orchestrator` |
| Orchestrator | `core/src/orchestrator.cpp` | all of the above, device, mode, mutex | record_*, update_device_state, tick, reset, accessors | `Orchestrator` |
| Predictors | `core/src/predictors/predictors.cpp` | window and counts (MFU, MRU), transition table (Markov-1), counts by app and hour (FreqRecency) | observe, predict, reset, serialize | `WindowPredictors`, `Markov1Predictor`, `FreqRecencyPredictor`, over `PredictorContract` |
| Storage | `core/src/storage/in_memory_storage.cpp` | event log, blobs, key-value table | append, load, save, reset | `Storage` |
| Telemetry | `core/src/telemetry/telemetry.cpp` | counters, latencies, events | record_*, snapshot | `Telemetry` |
| C ABI | `bindings/c/memogent_c.cpp` | wrapper and its mutex, returned strings | create, destroy, calls | `Bindings` |
| Android binding | `bindings/android/` | handle; poller's timer | create, close, calls; poll | `Bindings` (not the poller) |
| iOS binding | `bindings/ios/` | handle | as Android | not modelled |
| Python mirror, CLI, examples | `python/`, `examples/` | as the core | as the core | not modelled |

How they interact. Every call of the facade holds one mutex (`Impl::mu`). `tick()`
reads device, mode and predictions, asks the arbiter for a plan, resizes both
caches, hints and warms the app cache, and evicts KV blocks: about ten calls into
components, each with a lock of its own. `reset()` is five such calls. Hosts reach
the components directly through the accessors, without `mu`, so their calls fall
between any two of those steps. `record_event()` feeds the predictor and the log in
storage; `tick()` copies the caches' counters to the telemetry. A binding object holds a
handle to a wrapper of the facade; the C ABI returns pointers to strings of the
thread or of the wrapper, and the JNI layer copies them.

What is hard here: the lists and indexes of ARC after long mixes of calls; sizes
after `resize()` and at capacity 0; unsigned subtractions of capacities, budgets
and totals; plans that are made under one lock and carried out under others;
orders that `std::sort` and `std::unordered_map` leave open; `tick()` against
`reset()`; windows, tables and logs that must tell the same story after any events and
resets; counters read by two calls while others count; who may delete a wrapper and when, and
how long a returned string lives. There is no persistence that survives a process (the storage is in
memory, `serialize()` of the predictors returns nothing) and no message passing,
so there is nothing to say about crashes or lost messages.

## 2. Modules

* `CacheContract` is what `AdaptiveCache` promises, whatever the policy: a lossy map.
  `ARCCache`, `LRUCache` and `LFUCache` are shown to implement it call by call
  (`ImplementsContract`: `Get(k)` is a `Read` of the contract, `Put(k, v)` its `Put(k, v)`, and
  so on), and `Orchestrator` is built on it, so that what is checked of
  the orchestrator holds for each policy.
* `RecencyLists` holds the list operations of the caches (`Unlink`, `PushFront`,
  `Touch`, `DropTail`).
* `ARCCache`: one action per branch of `put()` (`PutResident`, `PutGhostB1`, ...,
  `PutFreshSpare`), one per other operation; `HintFuture` takes the lock and
  `HintNext` promotes one key, as the loop does. `FixedSpec` is the cache that is never
  resized.
* `LRUCache` keeps `list_` and `map_` apart, as the code does. `LRUInclusion` runs two
  of them in lockstep, the way two power modes would treat the same calls; their
  capacities may be moved apart, not together: `get()` does not admit what it
  misses, so a cache that shrinks to the size of another one may keep other entries.
* `LFUCache` leaves the scan order of the hash map open (`Survivors`). `Caches` is LFU and the
  two LRU caches in one specification.
* `KVCacheManager`: `Observe`, `Release`, `Reset`, and the pair `Plan` / `ReleaseNext`
  of `tick()`. `Take` is one turn of the plan's loop; `Sorted` leaves ties open.
* `PowerPolicy`: `Classify` and `Decide` as operators, and the loop through
  `UpdateDeviceState` and `Tick`.
* `ModelSwap`: the register and its two plans; a host that carries them out is the
  environment (its steps are marked external in the map).
* `Orchestrator` composes `PowerPolicy`, two `CacheContract`s and `KVCacheManager`
  (INSTANCE ... WITH). `mu` holds the owner of the lock, `pc` the step each thread is at.
  `Begin` are the first steps, which take the lock; `Continue` the later ones, the
  last of which returns it; `HostCalls` are hosts that use `app_cache()`, `model_cache()` and
  `kv_cache()`, which take no lock: they put, erase, resize and clear in both caches, and observe, release and
  reset in the KV manager. `touched` and `resized` are history variables that say so. Hosts that
  call a predictor through `predictor()` or append through `storage()` behind the facade's back are
  left out: such calls are between them and the component.
* `PredictorContract` is what predictors share: which events they learn from, how an
  `unordered_map` counts, and `Rankings`, the answers that `std::sort` may give when it
  leaves ties in any order. `WindowPredictors` (MFU and MRU), `Markov1Predictor` and
  `FreqRecencyPredictor` have `Observe`, `Reset` and a `Predict` each. Time is in hours,
  `exp(-age)` a decreasing table of integers, and scores are compared as exact
  fractions of a common denominator.
* `Storage` has one action per writing call. `Ingestion` composes it with one predictor
  of each kind: `RecordEvent` and `Reset` are the two facade calls, and the log that
  storage holds is the reference that predictors are judged by: `Tally` and `Table` count
  its places, `Steps` are its pairs of successive apps, `LastUse` is the last place of an app.
* `Telemetry`: one action per recorder; `RecordLatency`, `ReadStats` (one `stats()` call)
  and `RecordCache` are the steps of `tick()`, with `Lookup` and `ClearCache` of other
  threads in between. `Kpis` is what `snapshot()` computes.
* `Bindings`: the steps of the host's threads through `Orchestrator.kt`, the JNI layer and the
  C ABI. The core is a counter of recorded opens, enough to tell whose predictions and
  which KPIs a caller got. `Configure`, `Create`, `ConfigDestroy`, `Publish` make the
  object; `Enter` reads the handle; `Predict`, `Fill`, `CopyApps` and `Kpis`, `StoreKpis`,
  `CopyKpis` are the calls that return text; `Close` and `Destroy` end it.
  `Close` waits for nothing, as in the code, so calls may find the wrapper deleted; what they read is
  then any text (`Readable`), and what else undefined behaviour may do is not followed.
* `Parts` puts the parts of the core that share no state side by side and names what
  each of them promises, so that runs and theorems speak of the same properties.
* `MC*` give the constants values. `*Proofs` hold the theorems.

Operators named as a variant of another one and commented as a mutant are that
operator with a plausible bug; no specification uses them. `PROJECT.json` says which
property notices which.

### What is abstracted

Keys, values, apps and models are model values; a cached value is only ever copied.
The floats that are compared (battery, thermal, RAM, salience) are integers; NaN
is left out. Capacities are far below 2^64, so that `capacity * 3` is exact; the
subtractions that can wrap are taken modulo a `Word64` constant (small in TLC).
Iterators into lists are the keys of their nodes. `stats()` and the other calls
that only read change nothing and have no action. Locks that guard a single
atomic operation are that atomicity. In `Orchestrator` the
predictor is the sequence of what was observed, and it predicts any distinct apps of it:
all that `AnswersAreRight` leaves open of the real ones, which `Ingestion` runs.

## 3. Runs

| Run | Question | Bounds, and why they are enough |
|---|---|---|
| `arc_fixed` | Does an ARC cache that is not resized keep the invariants of the algorithm? | 7 keys over capacities 1-3: the directory (2 x capacity) fills and a key is left over to be fresh |
| `arc` | With any resizes: is each call the one the interface promises, how far over its capacity can `put()` go, is each dropped entry counted? | 3 keys, 2 values, capacities 0-2: at capacity 1, after 2, three entries would be one too many; counters wrap at 4, more than one call can drop |
| `arc_ghosts` | violation, see 5 | |
| `caches` | LRU: do list and index agree, does more capacity ever lose a hit? LFU: is the victim unique whatever the hash order? Both: are they the map the interface promises? | 5 keys, 2 values, capacities 0-4, so that each fills and overflows; 7 calls that advance the LFU tick |
| `parts` | Of the parts of the core that share no state: see the table below | |
| `kv_drift` | violation, see 5 | |
| `mfu_window` | violation, see 5 | |
| `orch_calls` | What do facade calls of two threads and accessor calls leave behind? | 2 apps, 2 recorded events, all 4 modes: predictions of 0-2 apps, both ways of the warming limit; hosts resize to 3, which no plan of this configuration gives |
| `orch_kv` | Does `tick()` meet its budget, and does it return? | 3 blocks, so that Minimal needs two releases and hosts can act between them |
| `bindings` | Is the wrapper deleted once, are configs destroyed, whose predictions does a caller copy, when `close()` may come at any time? | 3 threads: two that close or predict at once and one in another call; creation may fail |
| `use_after_close` | violation, see 5 | |
| `kpis_json` | violation, see 5 | |

`orch_calls` and `bindings` use symmetry: threads (and the two apps) are interchangeable there, no
definition chooses one of them, and neither run checks liveness.

`caches` and `parts` put several components into one state space, of which a behaviour
uses one while the others stay as built. The components share no variable and no
action touches two of them, so an interleaving of theirs could violate no invariant of one
of them that this does not, nor make a step it does not. The components that do interact
are composed in `Orchestrator`, `Ingestion` and `Telemetry`. In `parts`:

| Component | Question | Bounds, and why they are enough |
|---|---|---|
| Power policy | Is `classify()` monotone, do stricter modes take more of anything? | readings on both sides of each threshold, 9 threshold orders; app capacities 8-11 cover every remainder of / 2 and / 4 |
| KV manager | Is the total exact, is every plan right, when hosts call in the middle of an eviction? | a context of 6 tokens in 4 blocks of two lengths, totals to 8 so that blocks are counted twice; every tie order; budgets below, at and above the recent window |
| Model swap | Are the swap plans minimal and do they fit? | 3 models of different sizes, two priorities, equal and different ages |
| Telemetry | Are the percentiles percentiles, and what do two `stats()` reads amount to? | 4 calls, of which up to 4 latencies of 3 sizes; 2 caches; a buffer of 1 event |
| Predictors, storage | Does each predictor hold what the log says, after any events and resets; are answers distinct, learned and cut to `top_k`; are scores in range? | 5 events between resets, a window of 3; events out of the order of time, with and without an hour, an empty app name, an event that is not learned; all tie orders |

Only `Parts.cfg` and `MFUWindow.cfg` bound numbers of events; the counts, tables and windows do
everything they can within 5 events (a window that overflows twice, a table row with
two followers, an hour seen twice). The properties, by module, are each preceded by a comment with its meaning. The type
invariants are there for the record; the others are aimed at the hazards that
`PROJECT.json` lists.

### Fairness

Only `orch_kv` needs any: `WF_vars(Continue(t))`, a thread that is inside a call
goes on. The scheduler gives that to a thread that waits for nothing, and the
component locks are held for one atomic step each. No fairness is assumed of taking
`mu` (`std::mutex` promises no order), nor of hosts making calls; so nothing is
claimed of a call that has not got the lock. `CallsReturn` is worth stating because
the release loop runs while hosts observe blocks again: it ends because the plan is
taken once.

## 4. Proofs

TLAPS proves every property that a passing run checks, but for the liveness property
`CallsReturn`, for all values of the constants that the modules' assumptions allow: any numbers of
keys, values, threads, blocks, models and apps, any capacities, budgets, thresholds and
buffers. The assumptions are type facts about the constants and the widths of the
integers; what says more is noted below (`Roomy`, `DecayAssumption`, a hypothesis of `LossesAreAlwaysCounted`). TLC
evaluates the assumptions on the small instances. The bounds of the runs (`MaxEvents`, `MaxCalls`, `MaxTotal`, ...) are
constants too, any number will do.

* `CollectionProofs` has the lemmas that all others rest on. What `Unlink`, `Touch`, `PushFront` and
  `DropTail` do to the keys, the length and the order of recency of a list. Then data of any size:
  the library's induction theorems take the predicate as an operator, which the installed
  provers cannot instantiate, so `NatInductionOnSet` and `FiniteInductionOnSet` state induction
  with the predicate as a set, from the well-foundedness of `<`. A loop of the code, or a fold, is then a function from
  the number of turns to the loop's state (`FoldUpExists`), of which an invariant is proved
  turn by turn. So follow what sums do when an element is added (`SumAdd`, `SumRemove`,
  `SumMonotone`), that any finite set can be put in order (`OrderExists`), what the number at a place of an
  ordered list is (`RankProperties`), how tallies and tables grow (`TallyAdd`, `TableAdd`), what the last
  events of a log say of all of it (`EndsFollow`), and what a ranking is (`RankingsAreCuts`, `OneOrder`).
* `ARCCacheProofs`. `TypeCorrect` and `KeysHaveOneHome`: the four
  lists together repeat no key, the values are indexed by exactly the two
  resident lists, and a hint loop under way holds the lock; one lemma per
  action. `FixedStaysWithinCapacity`, `FixedDirectoryBounded` (for capacities other than 0) and
  `ResizedAtMostOneOver` add the
  sizes: `|t1| + |t2| <= c`, `|t1| + |b1| <= c` and the directory `<= 2c` need each other, since
  every branch of `put()` relies on another one's bound; after resizes only
  `|t1| <= c` and `|t1| + |t2| <= c + 1` survive (at any capacity but 0, which only `resize()`
  leaves), because `replace()` may find nothing to evict. The actions
  are brought to arithmetic on the four lengths first. `LossesAreAlwaysCounted` counts resident keys: a step
  that takes some out by `put()` or `resize()` adds as many to the evictions, modulo the width of the counter, which must
  be able to count the keys there are.
  `ImplementsTheContract` maps each call to the one of `CacheContract`, branch by branch of `put()`.
* `LRUCacheProofs`: `ListAndIndexAgree` and `ImplementsTheContract`. `EvictionKeeps` says what
  `evict_if_over()` leaves of a list of different keys; with it put() gives up one entry at
  most, because list and index never differ and never exceed the capacity before it.
* `CachesProofs`, LFU: `TypeCorrect`, `StaysWithinCapacity`, `EvictionHasOneVictim`,
  `ImplementsTheContract`. No two entries carry the same stamp, which
  each call keeps by giving out `tick_ + 1`; two different sets of survivors would need two
  entries neither of which is colder, that is, of equal stamps. That there is such a set
  is induction over the evictions. Two LRU caches: `LargerHoldsMore`. That the
  smaller holds no key that the larger lacks is not inductive. `PairInv` adds that the order
  of recency agrees on what both hold (`Agree`), and that the larger has at most as many entries more as it has room
  for more: so it evicts only when the smaller one is full too, and, in the same order, nothing that
  the smaller keeps. `BothStayIndexed` and `CachesHonourContract` are the theorems of one
  cache, of each.
* `KVCacheManagerProofs`: `TypeCorrect`, `PlansAreAlwaysRight`, `OnlyUpdatesMakeDrift`,
  `ExactTotalKeepsRecent`. The invariant is the ledger: finitely many typed
  blocks and a total. The loop of the plan takes blocks in the order it is given, and the last one taken was
  needed. While the plan is carried out and no host interferes, releasing what is left of it still brings the total
  within the budget, or leaves nothing evictable (`StillEnough`). Blocks that overlap nowhere have no more tokens than
  the context they reach into (`TokensFitContext`), so with an exact total the recent window, counted from the budget,
  lies where the context has it.
* `PartsProofs`, power policy: `PolicyTypeCorrect`; `WorseIsNeverMilder` for any thresholds, because each of
  the three tests of `classify()` is monotone by itself; and, for configurations with
  room (`Roomy`: 8 app slots, one model, twice the protected windows),
  `RoomyDegradesGracefully` and `RoomyBudgetCoversWindows`. The plan in force was decided by `Decide`
  for this configuration and its mode. Model swap: `EvictionsAreAlwaysRight`, also where sums of sizes wrap, and
  `UndisturbedTaskFits`, whose invariant is that a plan nobody disturbed still says of the models it has left what it
  said when made. KV manager: the theorems above, of the instance that `Parts` has.
* `PartsProofs`, telemetry: `PartsTypeCorrect`, `TickRecordsWhatItRead` (each counter only grew since the tick began
  to read it, unless the cache was cleared) and `KpisAreAlwaysRight` (the sample at a
  percentile's place, by counting the places of the samples up to it).
* `PartsProofs`, predictors: `PredictorsAlwaysMatchLog`, `AnswersAreAlwaysRight` and `ScoresAreInRange`. The invariant
  `RecordInv` says it of the whole log: every table is a tally of its places, the window is its end, and what the events
  from any one on say is the end of what all of them say. The last is what makes the property hold for
  each limit of `load_events()`, although a single limit is not inductive: when an event comes, the
  window of one limit follows from that of another. Scores of FreqRecency are three shares of one
  whole, each no more than its part: uses among all uses, `exp(-age)` of an age that is not negative, and the uses in one hour among
  the uses of that hour (`HabitsCounted`). A ranking is a cut of an order of what was learned, so it
  has no repetitions. MRU's scores are last places, no two of which are the same, so its order is the only one; by
  induction over the window, the recents list is in that order.
  `DecayAssumption` says of `exp()` that it decreases and is 1 at 0; `IngestionAssumption`, that event times
  are integers whose differences are in the table.
* `OrchestratorProofs`: `EventsAreLearned`, `CachesFollowPlan`, `ForgottenIsNotWarm`,
  `SavingModesWarmNothing` and `ResetForgetsAll`, whatever
  hosts do through `app_cache()`, `model_cache()` and `kv_cache()`. Learned means observed, and the events of this
  module are opens; the other kinds, which are stored but not learned, are in `Ingestion`. A host that resizes
  a cache overrides the plan for that cache until the next tick: `CachesFollowPlan` says so by `resized`, and
  that nothing else does. Only the owner of `mu` is inside a call (`Owned`), so the
  facade is at one step at a time (`Phase`); `ContinueMoves`, `BeginMoves` and `HostMoves` say
  where each action starts and ends. The invariant then has one part per question, each
  stated by `Phase`: what history and events differ by while a call runs (`Logs`), which
  cache has the plan's capacity already (`Capacities`; `HostsResizeOnRecord` is what hosts may do to it), that a tick that may still warm was
  decided in a mode that allows it (`Saving`), that what it has to warm is known
  (`Known`), and what `reset()` has cleared so far (`Wiped`). `TypeCorrect` adds the types
  of the policy and of the KV ledger (`WholeInv`). `ImplementsPolicy` and `ImplementsKVManager` show that each step of the
  composition is a step of `PowerPolicy` and of `KVCacheManager`, or leaves their variables alone; `TickKeepsBudget`
  then follows from the KV manager's `StillEnough` at the end of the loop.
* `BindingsProofs`: `TypeCorrect`, `WrapperIsDeletedOnce`, `NothingIsLeaked` and
  `PredictionsAreOwn`. The invariant ties the handle to the
  wrapper: a set handle, or the one thread that took it to delete, is what keeps it
  allocated. Calls under way own nothing, which is why no theorem says that they find it allocated. While the object is made no other thread has it; and a thread between `Fill` and `CopyApps` finds in
  its buffer what it computed.

Only model-checked: `CallsReturn`, which is liveness (fairness and ENABLED are beyond the prover), and the
five disagreements of section 5, which are counterexamples. The theorems are about each
part's own specification, or the one that composes it; `MCParts` only lets TLC explore them one at a time.

## 5. Where code and documentation disagree

Each is a run that TLC ends with a counterexample; `PROJECT.json` quotes the line.

* `arc_ghosts`: after `resize()` the ghosts can pass the `==` test that trims them and grow
  for good.
* `kv_drift`: a sequence observed twice is counted twice, and the recent window of a
  context within its budget is evicted.
* `mfu_window`: once its window is full, MFU forgets an app's place in the window but not its
  count, so that scores pass 1 and an app not used for long keeps its rank.
* `kpis_json`: the text of the KPIs is read after the lock that guards it is released.
* `use_after_close`: `close()` deletes the wrapper under a call that has read the handle. `INTEGRATION_ANDROID.md`
  calls the object thread-safe, ticks it on another dispatcher and closes it in `onDestroy`, after a
  `source.stop()` that does not wait for its poll either.

Seen in the models too, each by changing a constant or reading an action, without a
run of its own:

* After `resize()` to less, a ghost hit leaves capacity + 1 entries (`WithinCapacity` under
  `Spec` in place of `FixedSpec`); `AtMostOneOver` is what does hold.
* At capacity 0, which Paused gives the model cache, ARC's `t2_` is never evicted; this is
  why `AtMostOneOver` says nothing of capacity 0.
* A KV budget below the recent window wraps the subtraction (`RecentAlwaysKept` without its
  condition on the budget).
* A block pinned after the plan was made is released by it: `Release` does not look at
  the flag.
* With fewer than 8 app slots Paused holds more of them than Minimal, and with no model
  slot Reduced asks for 2^64 - 1 (`DegradesGracefully` with such configurations; the theorem's
  condition `Roomy` rules them out).
* Paused is "read-only; reject writes" in `types.hpp`, but no write looks at the mode.
* The preloader's `get()` and `put()` are two critical sections: its placeholder replaces a
  value put in between.
* `serialize()` of every predictor gives an empty blob and `deserialize()` ignores what it gets
  (`Persist`, `Restore`), although `predictor.hpp` speaks of surviving a restart; nothing is
  persisted, so a restart is an `Init`.
* `latencies_` of the telemetry grows by one per tick without bound, and `snapshot()` sorts a
  copy of it under the lock (`RecordLatency` only appends).
* FreqRecency's recency is `exp(-age / 1 h)`, called a half-life of one hour in its comment; its
  hour of the day is that of the last timestamp in UTC, while what it counted by is the
  event's own `hour_of_day` (`Hour` and `Observe`).
* The setters of the telemetry's baseline are in no interface, so the launch and
  load-time improvements of a snapshot stay as built.
* `reset()` is to "wipe everything in a single transaction" (`orchestrator.hpp:63`). It is five, between
  which hosts may use the accessors (`ResetIsWhole`), and the registered models and the
  telemetry it does not touch (no step of it changes `slots` or `samples`).

## 6. Plan

Order of work, most important behaviour first.

1. Caches and their contract; proofs of ARC, LRU and LFU (done).
2. KV manager, power policy with proofs, model swap, orchestrator with proofs (done).
3. Predictors, storage and telemetry against the event log (done).
4. C ABI and Android binding with proofs (done, but for the usage-stats poller).
5. Proofs of every safety property that the runs check, and of the refinements of `CacheContract`,
   `PowerPolicy` and `KVCacheManager` (done).
6. Next: the Python caches as further instances of `CacheContract`; the poller's cursor against
   the events it records.

Not modelled: the Swift binding (its constructor, calls and deinit make the same calls of
the C ABI as the Android one), marshalling of values, KPI structs and texts, logging, build
scripts, the synthetic data and the benchmark harness: they keep no state that the properties
speak of.
