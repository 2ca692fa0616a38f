----------------------------- MODULE PowerPolicy -----------------------------
(***************************************************************************)
(* The control loop from the device to the capacities: classify() of       *)
(* device_state.cpp turns a device snapshot into a power mode,             *)
(* HeuristicArbiter::decide() of arbiter.cpp turns the mode into a plan,   *)
(* and Orchestrator::tick() puts the plan in force.                        *)
(* The floats that are only compared are integers here (NaN is left out).  *)
(***************************************************************************)
EXTENDS Integers

CONSTANTS
  Devices,      \* snapshots: [thermal, battery, ram, charging, saver]
  DefaultDevice,
  Configs,      \* thresholds, capacities and switches of a Config
  Word64        \* the modulus of size_t

(* PowerMode, with the order that decide() and the preloader compare by.    *)
Full == 0
Reduced == 1
Minimal == 2
Paused == 3
Modes == {Full, Reduced, Minimal, Paused}

Capacity == {"app", "model", "kv", "sink", "recent"}
Threshold == {"thermalPaused", "thermalMinimal", "thermalReduced",
              "batteryPaused", "batteryMinimal", "batteryReduced",
              "ramPaused", "ramMinimal"}

PowerAssumption ==
  /\ Word64 \in Nat \ {0, 1}
  /\ DefaultDevice \in Devices
  /\ \A d \in Devices : /\ {d.thermal, d.battery, d.ram} \subseteq Int
                        /\ {d.charging, d.saver} \subseteq BOOLEAN
  /\ \A c \in Configs :
        /\ \A f \in Threshold : c[f] \in Int
        /\ \A f \in Capacity : c[f] \in 0..(Word64 - 1)
        /\ c.preload \in BOOLEAN

VARIABLES config,   \* cfg, the same for the life of the orchestrator
          device,   \* Impl::device
          mode,     \* Impl::mode
          plan      \* what is in force: init()'s capacities, then tick()'s plan

vars == <<config, device, mode, plan>>

-----------------------------------------------------------------------------
Draining(d) == ~d.charging

Critical(d, c) ==
  \/ d.thermal >= c.thermalPaused
  \/ d.battery <= c.batteryPaused /\ Draining(d)
  \/ d.ram <= c.ramPaused

Strained(d, c) ==
  \/ d.thermal >= c.thermalMinimal
  \/ d.battery <= c.batteryMinimal /\ Draining(d)
  \/ d.ram <= c.ramMinimal
  \/ d.saver

Warm(d, c) ==
  \/ d.thermal >= c.thermalReduced
  \/ d.battery <= c.batteryReduced /\ Draining(d)

(* Mutant: the mildest test is made first. *)
ClassifyMildestFirst(d, c) ==
  IF Warm(d, c) THEN Reduced
  ELSE IF Strained(d, c) THEN Minimal
  ELSE IF Critical(d, c) THEN Paused ELSE Full

Classify(d, c) ==
  IF Critical(d, c) THEN Paused
  ELSE IF Strained(d, c) THEN Minimal
  ELSE IF Warm(d, c) THEN Reduced ELSE Full

AtLeast(least, n) == IF n < least THEN least ELSE n

(* Mutant: the floor of the survival mode is above what Minimal leaves.     *)
AppSlotsHighFloor(m, c) ==
  CASE m = Full    -> c.app
    [] m = Reduced -> (c.app * 3) \div 4
    [] m = Minimal -> c.app \div 2
    [] m = Paused  -> AtLeast(8, c.app \div 4)

AppSlots(m, c) ==
  CASE m = Full    -> c.app
    [] m = Reduced -> (c.app * 3) \div 4
    [] m = Minimal -> c.app \div 2
    [] m = Paused  -> AtLeast(4, c.app \div 4)

(* Mutant: Minimal takes one slot more than Reduced, and no guard.          *)
ModelSlotsUnguarded(m, c) ==
  CASE m = Full    -> c.model
    [] m = Reduced -> AtLeast(1, c.model - 1)
    [] m = Minimal -> c.model - 2
    [] m = Paused  -> 0

(* cache_capacity_model - 1 is a size_t: it wraps when nothing is configured *)
ModelSlots(m, c) ==
  CASE m = Full    -> c.model
    [] m = Reduced -> AtLeast(1, (c.model - 1) % Word64)
    [] m = Minimal -> 1
    [] m = Paused  -> 0

(* Mutant: the survival budget forgets the recent window. *)
KVBudgetSinkOnly(m, c) ==
  CASE m = Full    -> c.kv
    [] m = Reduced -> (c.kv * 3) \div 4
    [] m = Minimal -> c.kv \div 2
    [] m = Paused  -> c.sink

KVBudget(m, c) ==
  CASE m = Full    -> c.kv
    [] m = Reduced -> (c.kv * 3) \div 4
    [] m = Minimal -> c.kv \div 2
    [] m = Paused  -> c.sink + c.recent

(* decide(); confident is whether the best prediction scores above 0.70.    *)
Decide(m, confident, c) ==
  [mode |-> m,
   app |-> AppSlots(m, c) + (IF confident /\ m <= Reduced THEN 1 ELSE 0),
   model |-> ModelSlots(m, c),
   kv |-> KVBudget(m, c),
   preload |-> c.preload /\ m <= Reduced,
   consolidation |-> m # Paused]

-----------------------------------------------------------------------------
UpdateDeviceState(d) ==
  /\ device' = d
  /\ mode' = Classify(d, config)
  /\ UNCHANGED <<config, plan>>

Tick(confident) ==
  /\ plan' = Decide(mode, confident, config)
  /\ UNCHANGED <<config, device, mode>>

(* init() creates the caches with the configured capacities: those of Full. *)
Init ==
  /\ config \in Configs
  /\ device = DefaultDevice
  /\ mode = Full
  /\ plan = Decide(Full, FALSE, config)

Next ==
  \/ \E d \in Devices : UpdateDeviceState(d)
  \/ \E confident \in BOOLEAN : Tick(confident)

Spec == Init /\ [][Next]_vars

-----------------------------------------------------------------------------
(* Type invariant: the capacities are numbers, no mode makes one negative.  *)
TypeOK ==
  /\ config \in Configs
  /\ device \in Devices
  /\ mode \in Modes
  /\ plan \in [mode : Modes, app : Nat, model : Nat, kv : Nat,
               preload : BOOLEAN, consolidation : BOOLEAN]

(* e is in no respect better off than d. *)
Worse(e, d) ==
  /\ e.thermal >= d.thermal
  /\ e.battery <= d.battery
  /\ e.ram <= d.ram
  /\ e.charging => d.charging
  /\ d.saver => e.saver

(* A device that gets worse never gets a milder mode, whatever thresholds   *)
(* are configured; in the initial state the device is not classified yet.   *)
WorseNeverMilder ==
  [][mode = Classify(device, config) /\ Worse(device', device)
       => mode' >= mode]_vars

(* A plan made in a stricter mode than the plan before takes more of        *)
(* nothing, the slot for a confident prediction included (README: "it       *)
(* degrades gracefully").                                                  *)
DegradesGracefully ==
  [][plan'.mode > plan.mode =>
       /\ plan'.app <= plan.app
       /\ plan'.model <= plan.model
       /\ plan'.kv <= plan.kv
       /\ plan'.preload => plan.preload
       /\ plan'.consolidation => plan.consolidation]_vars

(* Every budget tick() hands to KVCacheManager::plan() covers the sink and  *)
(* the recent window, or its subtraction would wrap.                       *)
BudgetCoversWindows == plan.kv >= config.sink + config.recent
=============================================================================
