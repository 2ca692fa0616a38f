------------------------- MODULE OrchestratorProofs -------------------------
(***************************************************************************)
(* Proofs about Orchestrator, for any number of threads, apps and models,  *)
(* any configuration, and whatever the hosts do through the accessors; and  *)
(* that it uses the power policy and the KV manager as their modules say.   *)
(***************************************************************************)
EXTENDS Orchestrator, SequenceTheorems, FiniteSetTheorems, TLAPS

-----------------------------------------------------------------------------
(* The power policy that update_device_state() and tick() follow: its plans *)
(* are made of numbers, which the caches and the KV manager then get.       *)

(* The plan in force was decided for this configuration.                    *)
PlanMade ==
  \E confident \in BOOLEAN : plan = Policy!Decide(plan.mode, confident, Config)

PolicyInv == Policy!TypeOK /\ PlanMade

-----------------------------------------------------------------------------
(* What the assumption says of a configuration's numbers.                   *)
LEMMA ConfigNumbers ==
  /\ {Config.app, Config.model, Config.kv, Config.sink, Config.recent}
       \subseteq 0..(Word64 - 1)
  /\ {Config.thermalPaused, Config.thermalMinimal, Config.thermalReduced,
      Config.batteryPaused, Config.batteryMinimal, Config.batteryReduced,
      Config.ramPaused, Config.ramMinimal} \subseteq Int
  /\ Config.preload \in BOOLEAN
  <1>1. \A f \in Policy!Threshold : Config[f] \in Int
    BY OrchestratorAssumption DEF Policy!PowerAssumption
  <1>2. \A f \in Policy!Capacity : Config[f] \in 0..(Word64 - 1)
    BY OrchestratorAssumption DEF Policy!PowerAssumption
  <1>3. Config.preload \in BOOLEAN
    BY OrchestratorAssumption DEF Policy!PowerAssumption
  <1> QED
    BY <1>1, <1>2, <1>3 DEF Policy!Threshold, Policy!Capacity

LEMMA ModesAreNumbers == Policy!Modes = {0, 1, 2, 3}
  BY DEF Policy!Modes, Policy!Full, Policy!Reduced, Policy!Minimal,
         Policy!Paused

(* decide() gives numbers, in every mode. *)
LEMMA DecideTyped ==
  ASSUME NEW m \in Policy!Modes, NEW confident \in BOOLEAN
  PROVE  /\ Policy!Decide(m, confident, Config) \in
              [mode : Policy!Modes, app : Nat, model : Nat, kv : Nat,
               preload : BOOLEAN, consolidation : BOOLEAN]
         /\ Policy!Decide(m, confident, Config).mode = m
  <1>1. /\ Config.app \in Nat /\ Config.model \in Nat /\ Config.kv \in Nat
        /\ Config.sink \in Nat /\ Config.recent \in Nat
        /\ Word64 \in Nat \ {0}
    BY ConfigNumbers, OrchestratorAssumption DEF Policy!PowerAssumption
  <1>2. m \in {0, 1, 2, 3}
    BY ModesAreNumbers
  <1>3. Policy!AppSlots(m, Config) \in Nat
    BY <1>1, <1>2 DEF Policy!AppSlots, Policy!AtLeast, Policy!Full,
                      Policy!Reduced, Policy!Minimal, Policy!Paused
  <1>4. Policy!ModelSlots(m, Config) \in Nat
    <2>1. (Config.model - 1) % Word64 \in Nat
      BY <1>1
    <2> QED
      BY <1>1, <1>2, <2>1 DEF Policy!ModelSlots, Policy!AtLeast, Policy!Full,
                              Policy!Reduced, Policy!Minimal, Policy!Paused
  <1>5. Policy!KVBudget(m, Config) \in Nat
    BY <1>1, <1>2 DEF Policy!KVBudget, Policy!Full, Policy!Reduced,
                      Policy!Minimal, Policy!Paused
  <1>6. (IF confident /\ m <= Policy!Reduced THEN 1 ELSE 0) \in Nat
    OBVIOUS
  <1>7. Policy!AppSlots(m, Config) + (IF confident /\ m <= Policy!Reduced THEN 1 ELSE 0)
          \in Nat
    BY <1>3, <1>6
  <1>8. /\ (Config.preload /\ m <= Policy!Reduced) \in BOOLEAN
        /\ (m # Policy!Paused) \in BOOLEAN
    OBVIOUS
  <1> QED
    BY <1>4, <1>5, <1>7, <1>8 DEF Policy!Decide

LEMMA ClassifyTyped ==
  ASSUME NEW d
  PROVE  Policy!Classify(d, Config) \in Policy!Modes
  BY DEF Policy!Classify, Policy!Modes

-----------------------------------------------------------------------------
LEMMA PolicyInit == Policy!Init => PolicyInv
  <1> SUFFICES ASSUME Policy!Init PROVE PolicyInv
    OBVIOUS
  <1>1. device \in Devices /\ mode \in Policy!Modes
    BY OrchestratorAssumption, ModesAreNumbers
       DEF Policy!PowerAssumption, Policy!Init, Policy!Full
  <1>2. Policy!Full \in Policy!Modes
    BY DEF Policy!Modes
  <1>3. plan = Policy!Decide(Policy!Full, FALSE, Config) /\ plan.mode = Policy!Full
    BY <1>1, <1>2, DecideTyped DEF Policy!Init
  <1>4. Policy!TypeOK
    BY <1>1, <1>2, <1>3, DecideTyped DEF Policy!TypeOK
  <1>5. PlanMade
    BY <1>3 DEF PlanMade
  <1> QED
    BY <1>4, <1>5 DEF PolicyInv

LEMMA PolicyNext == PolicyInv /\ [Policy!Next]_(Policy!vars) => PolicyInv'
  <1> SUFFICES ASSUME PolicyInv, [Policy!Next]_(Policy!vars) PROVE PolicyInv'
    OBVIOUS
  <1> USE DEF PolicyInv
  <1>1. ASSUME NEW d \in Devices, Policy!UpdateDeviceState(d) PROVE PolicyInv'
    <2>1. Policy!TypeOK'
      BY <1>1, ClassifyTyped DEF Policy!TypeOK, Policy!UpdateDeviceState
    <2>2. PlanMade'
      BY <1>1 DEF PlanMade, Policy!UpdateDeviceState
    <2> QED
      BY <2>1, <2>2
  <1>2. ASSUME NEW confident \in BOOLEAN, Policy!Tick(confident) PROVE PolicyInv'
    <2>1. plan' = Policy!Decide(mode, confident, Config) /\ plan'.mode = mode
      BY <1>2, DecideTyped DEF Policy!Tick, Policy!TypeOK
    <2>2. Policy!TypeOK'
      BY <1>2, <2>1, DecideTyped DEF Policy!Tick, Policy!TypeOK
    <2>3. PlanMade'
      BY <1>2, <2>1 DEF Policy!Tick, PlanMade
    <2> QED
      BY <2>2, <2>3
  <1>3. CASE UNCHANGED Policy!vars
    BY <1>3 DEF Policy!vars, Policy!TypeOK, PlanMade
  <1> QED
    BY <1>1, <1>2, <1>3 DEF Policy!Next

-----------------------------------------------------------------------------
(* The mutex.  Only its owner is inside a call, so the facade as a whole is  *)
(* at one step: that of the owner.                                         *)
Owned ==
  /\ mu \in Threads \cup {None}
  /\ pc \in [Threads -> Steps]
  /\ \A t \in Threads : pc[t] # "idle" <=> mu = t

Phase == IF mu = None THEN "idle" ELSE pc[mu]

(* Taking the lock, a step under it, returning it, and steps beside it.     *)
LEMMA AcquireMoves ==
  ASSUME Owned, NEW t \in Threads, NEW s \in Steps, s # "idle", Acquire(t, s)
  PROVE  Owned' /\ Phase = "idle" /\ Phase' = s
BY OrchestratorAssumption DEF Owned, Phase, Acquire

LEMMA GotoMoves ==
  ASSUME Owned, NEW t \in Threads, NEW f, f # "idle", NEW s \in Steps, s # "idle",
         Goto(t, f, s)
  PROVE  Owned' /\ Phase = f /\ Phase' = s
BY OrchestratorAssumption DEF Owned, Phase, Goto

LEMMA ReturnMoves ==
  ASSUME Owned, NEW t \in Threads, NEW f, f # "idle", Return(t, f)
  PROVE  Owned' /\ Phase = f /\ Phase' = "idle"
BY OrchestratorAssumption DEF Owned, Phase, Return, Steps

LEMMA LockedMoves ==
  ASSUME Owned, NEW t \in Threads, Locked(t)
  PROVE  Owned' /\ Phase = "idle" /\ Phase' = "idle"
BY DEF Owned, Phase, Locked

LEMMA StayMoves ==
  ASSUME Owned, UNCHANGED <<mu, pc>>
  PROVE  Owned' /\ Phase' = Phase
BY DEF Owned, Phase

(* Where each step of the facade starts and ends. *)
LEMMA ContinueMoves ==
  ASSUME Owned, NEW t \in Threads
  PROVE  /\ RecordAppend(t) => Owned' /\ Phase = "append" /\ Phase' = "idle"
         /\ ResizeApp(t) => Owned' /\ Phase = "resizeApp" /\ Phase' = "resizeModel"
         /\ ResizeModel(t) => Owned' /\ Phase = "resizeModel" /\ Phase' = "warm"
         /\ PlanWarming(t) => Owned' /\ Phase = "warm" /\ Phase' \in {"get", "planKV"}
         /\ WarmGet(t) => Owned' /\ Phase = "get" /\ Phase' \in {"get", "put", "planKV"}
         /\ WarmPut(t) => Owned' /\ Phase = "put" /\ Phase' = "get"
         /\ PlanKV(t) => Owned' /\ Phase = "planKV" /\ Phase' = "release"
         /\ Release(t) => Owned' /\ Phase = "release" /\ Phase' = "release"
         /\ TickReturn(t) => Owned' /\ Phase = "release" /\ Phase' = "idle"
         /\ ResetApp(t) => Owned' /\ Phase = "clearApp" /\ Phase' = "clearModel"
         /\ ResetModel(t) => Owned' /\ Phase = "clearModel" /\ Phase' = "resetKV"
         /\ ResetKV(t) => Owned' /\ Phase = "resetKV" /\ Phase' = "resetStorage"
         /\ ResetStorage(t) => Owned' /\ Phase = "resetStorage" /\ Phase' = "idle"
<1>. USE DEF Steps
<1>1. RecordAppend(t) => Owned' /\ Phase = "append" /\ Phase' = "idle"
  BY ReturnMoves DEF RecordAppend
<1>2. ResizeApp(t) => Owned' /\ Phase = "resizeApp" /\ Phase' = "resizeModel"
  BY GotoMoves DEF ResizeApp
<1>3. ResizeModel(t) => Owned' /\ Phase = "resizeModel" /\ Phase' = "warm"
  BY GotoMoves DEF ResizeModel
<1>4. PlanWarming(t) => Owned' /\ Phase = "warm" /\ Phase' \in {"get", "planKV"}
  BY GotoMoves DEF PlanWarming
<1>5. WarmGet(t) => Owned' /\ Phase = "get" /\ Phase' \in {"get", "put", "planKV"}
  BY GotoMoves DEF WarmGet
<1>6. WarmPut(t) => Owned' /\ Phase = "put" /\ Phase' = "get"
  BY GotoMoves DEF WarmPut
<1>7. PlanKV(t) => Owned' /\ Phase = "planKV" /\ Phase' = "release"
  BY GotoMoves DEF PlanKV
<1>8. Release(t) => Owned' /\ Phase = "release" /\ Phase' = "release"
  BY GotoMoves DEF Release
<1>9. TickReturn(t) => Owned' /\ Phase = "release" /\ Phase' = "idle"
  BY ReturnMoves DEF TickReturn
<1>10. ResetApp(t) => Owned' /\ Phase = "clearApp" /\ Phase' = "clearModel"
  BY GotoMoves DEF ResetApp
<1>11. ResetModel(t) => Owned' /\ Phase = "clearModel" /\ Phase' = "resetKV"
  BY GotoMoves DEF ResetModel
<1>12. ResetKV(t) => Owned' /\ Phase = "resetKV" /\ Phase' = "resetStorage"
  BY GotoMoves DEF ResetKV
<1>13. ResetStorage(t) => Owned' /\ Phase = "resetStorage" /\ Phase' = "idle"
  BY ReturnMoves DEF ResetStorage
<1>. QED BY <1>1, <1>2, <1>3, <1>4, <1>5, <1>6, <1>7, <1>8, <1>9, <1>10, <1>11, <1>12, <1>13

LEMMA BeginMoves ==
  ASSUME Owned, NEW t \in Threads
  PROVE  /\ \A a \in Apps : RecordObserve(t, a) =>
              Owned' /\ Phase = "idle" /\ Phase' = "append"
         /\ \A id \in Models : RecordModelLoad(t, id) =>
              Owned' /\ Phase = "idle" /\ Phase' = "idle"
         /\ \A d \in Devices : UpdateDevice(t, d) =>
              Owned' /\ Phase = "idle" /\ Phase' = "idle"
         /\ \A p \in Predictions, confident \in BOOLEAN : Decide(t, p, confident) =>
              Owned' /\ Phase = "idle" /\ Phase' = "resizeApp"
         /\ ResetPredictor(t) => Owned' /\ Phase = "idle" /\ Phase' = "clearApp"
<1>. USE DEF Steps
<1>1. \A a \in Apps : RecordObserve(t, a) =>
        Owned' /\ Phase = "idle" /\ Phase' = "append"
  BY AcquireMoves DEF RecordObserve
<1>2. \A id \in Models : RecordModelLoad(t, id) =>
        Owned' /\ Phase = "idle" /\ Phase' = "idle"
  BY LockedMoves DEF RecordModelLoad
<1>3. \A d \in Devices : UpdateDevice(t, d) =>
        Owned' /\ Phase = "idle" /\ Phase' = "idle"
  BY LockedMoves DEF UpdateDevice
<1>4. \A p \in Predictions, confident \in BOOLEAN : Decide(t, p, confident) =>
        Owned' /\ Phase = "idle" /\ Phase' = "resizeApp"
  BY AcquireMoves DEF Decide
<1>5. ResetPredictor(t) => Owned' /\ Phase = "idle" /\ Phase' = "clearApp"
  BY AcquireMoves DEF ResetPredictor
<1>. QED BY <1>1, <1>2, <1>3, <1>4, <1>5

LEMMA HostMoves ==
  ASSUME Owned, HostCalls
  PROVE  /\ Owned' /\ Phase' = Phase
         /\ UNCHANGED <<device, mode, plan, history, events, todo>>
<1>1. Accessor
  BY DEF HostCalls, HostApp, HostModel, HostKV, HostResizeApp, HostResizeModel
<1>. QED BY <1>1, StayMoves DEF Accessor, policyVars, logVars

(* A host that changes a capacity leaves it on record.                      *)
LEMMA HostsResizeOnRecord ==
  ASSUME HostCalls
  PROVE  /\ resized \subseteq resized'
         /\ appCapacity' = appCapacity \/ "app" \in resized'
         /\ modelCapacity' = modelCapacity \/ "model" \in resized'
<1>1. ASSUME NEW c \in HostCapacities, HostResizeApp(c) \/ HostResizeModel(c)
      PROVE  /\ resized \subseteq resized'
             /\ appCapacity' = appCapacity \/ "app" \in resized'
             /\ modelCapacity' = modelCapacity \/ "model" \in resized'
  BY <1>1 DEF HostResizeApp, HostResizeModel
<1>2. ASSUME NEW k \in AppKeys, HostApp(AppCache!Erase(k))
      PROVE  UNCHANGED <<appCapacity, modelCapacity, resized>>
  BY <1>2 DEF HostApp, AppCache!Erase
<1>3. ASSUME NEW k \in AppKeys, NEW v \in HostValues, HostApp(AppCache!Put(k, v))
      PROVE  UNCHANGED <<appCapacity, modelCapacity, resized>>
  BY <1>3 DEF HostApp, AppCache!Put, AppCache!Overwrite, AppCache!Insert,
              AppCache!Refuse, AppCache!cvars
<1>4. ASSUME NEW id \in Models, HostModel(ModelCache!Erase(id))
      PROVE  UNCHANGED <<appCapacity, modelCapacity, resized>>
  BY <1>4 DEF HostModel, ModelCache!Erase
<1>5. ASSUME NEW id \in Models, NEW v \in HostValues, HostModel(ModelCache!Put(id, v))
      PROVE  UNCHANGED <<appCapacity, modelCapacity, resized>>
  BY <1>5 DEF HostModel, ModelCache!Put, ModelCache!Overwrite, ModelCache!Insert,
              ModelCache!Refuse, ModelCache!cvars
<1>6. ASSUME HostApp(AppCache!Clear) \/ HostModel(ModelCache!Clear)
      PROVE  UNCHANGED <<appCapacity, modelCapacity, resized>>
  BY <1>6 DEF HostApp, HostModel, AppCache!Clear, ModelCache!Clear
<1>7. ASSUME UNCHANGED cacheVars
      PROVE  UNCHANGED <<appCapacity, modelCapacity, resized>>
  BY <1>7 DEF cacheVars
<1>. QED BY <1>1, <1>2, <1>3, <1>4, <1>5, <1>6, <1>7 DEF HostCalls, HostKV
-----------------------------------------------------------------------------
(* What the predictor learned against what storage holds, at each step.     *)
ResetSteps == {"clearApp", "clearModel", "resetKV", "resetStorage"}
Logs ==
  /\ history \in Seq(Apps)
  /\ events \in Seq(Apps)
  /\ Phase = "append" => \E a \in Apps : history = Append(events, a)
  /\ Phase \in ResetSteps => history = << >>
  /\ Phase \notin ResetSteps \cup {"append"} => history = events

(* The capacities of the caches against the plan, at each step.             *)
Capacities ==
  /\ Phase # "resizeApp" => "app" \in resized \/ appCapacity = plan.app
  /\ Phase \notin {"resizeApp", "resizeModel"} =>
       "model" \in resized \/ modelCapacity = plan.model

LEMMA AppendedLast ==
  ASSUME NEW s \in Seq(Apps), NEW a \in Apps
  PROVE  Append(s, a) \in Seq(Apps) /\ Last(Append(s, a)) = a
BY DEF Last

LEMMA NextKeepsLogs ==
  ASSUME Owned, Logs, [Next]_vars
  PROVE  Logs'
<1>1. ASSUME UNCHANGED logVars,
             \/ Phase' = Phase
             \/ Phase \in ResetSteps /\ Phase' \in ResetSteps
             \/ /\ Phase \notin ResetSteps \cup {"append"}
                /\ Phase' \notin ResetSteps \cup {"append"}
      PROVE  Logs'
  BY <1>1 DEF Logs, logVars, ResetSteps
<1>2. ASSUME NEW t \in Threads, Continue(t) PROVE Logs'
  <2>1. CASE RecordAppend(t)
    <3>1. Phase = "append" /\ Phase' = "idle"
      BY <2>1, ContinueMoves
    <3>2. PICK a \in Apps : history = Append(events, a)
      BY <3>1 DEF Logs
    <3>3. history' = history /\ events' = Append(events, Last(history))
      BY <2>1 DEF RecordAppend
    <3>4. events' = history
      BY <3>2, <3>3, AppendedLast DEF Logs
    <3>. QED BY <3>1, <3>3, <3>4 DEF Logs, ResetSteps
  <2>2. CASE ResetStorage(t)
    <3>1. Phase = "resetStorage" /\ Phase' = "idle"
      BY <2>2, ContinueMoves
    <3>2. history' = history /\ events' = << >>
      BY <2>2 DEF ResetStorage
    <3>. QED BY <3>1, <3>2 DEF Logs, ResetSteps
  <2>3. CASE ResetApp(t) \/ ResetModel(t) \/ ResetKV(t)
    <3>1. UNCHANGED logVars
      BY <2>3 DEF ResetApp, ResetModel, ResetKV
    <3>2. Phase \in ResetSteps /\ Phase' \in ResetSteps
      BY <2>3, ContinueMoves DEF ResetSteps
    <3>. QED BY <1>1, <3>1, <3>2
  <2>4. CASE \/ ResizeApp(t) \/ ResizeModel(t)
             \/ PlanWarming(t) \/ WarmGet(t) \/ WarmPut(t)
             \/ PlanKV(t) \/ Release(t) \/ TickReturn(t)
    <3>1. UNCHANGED logVars
      BY <2>4 DEF ResizeApp, ResizeModel, PlanWarming, WarmGet, WarmPut,
                  PlanKV, Release, TickReturn
    <3>2. /\ Phase \notin ResetSteps \cup {"append"}
          /\ Phase' \notin ResetSteps \cup {"append"}
      BY <2>4, ContinueMoves DEF ResetSteps
    <3>. QED BY <1>1, <3>1, <3>2
  <2>. QED BY <1>2, <2>1, <2>2, <2>3, <2>4 DEF Continue
<1>3. ASSUME NEW t \in Threads, Begin(t) PROVE Logs'
  <2>1. ASSUME NEW a \in Apps, RecordObserve(t, a) PROVE Logs'
    <3>1. Phase = "idle" /\ Phase' = "append"
      BY <2>1, BeginMoves
    <3>2. history' = Append(history, a) /\ events' = events
      BY <2>1 DEF RecordObserve
    <3>3. history = events
      BY <3>1 DEF Logs, ResetSteps
    <3>. QED BY <3>1, <3>2, <3>3, AppendedLast DEF Logs, ResetSteps
  <2>2. CASE ResetPredictor(t)
    <3>1. Phase' = "clearApp"
      BY <2>2, BeginMoves
    <3>2. history' = << >> /\ events' = events
      BY <2>2 DEF ResetPredictor
    <3>. QED BY <3>1, <3>2 DEF Logs, ResetSteps
  <2>3. CASE \/ \E id \in Models : RecordModelLoad(t, id)
             \/ \E d \in Devices : UpdateDevice(t, d)
             \/ \E p \in Predictions, confident \in BOOLEAN : Decide(t, p, confident)
    <3>1. UNCHANGED logVars
      BY <2>3 DEF RecordModelLoad, UpdateDevice, Decide
    <3>2. /\ Phase \notin ResetSteps \cup {"append"}
          /\ Phase' \notin ResetSteps \cup {"append"}
      BY <2>3, BeginMoves DEF ResetSteps
    <3>. QED BY <1>1, <3>1, <3>2
  <2>. QED BY <1>3, <2>1, <2>2, <2>3 DEF Begin
<1>4. CASE HostCalls
  BY <1>1, <1>4, HostMoves DEF logVars
<1>5. CASE UNCHANGED vars
  <2>1. UNCHANGED logVars /\ UNCHANGED <<mu, pc>>
    BY <1>5 DEF vars
  <2>. QED BY <1>1, <2>1, StayMoves
<1>. QED BY <1>2, <1>3, <1>4, <1>5 DEF Next

LEMMA NextKeepsCapacities ==
  ASSUME Owned, Capacities, [Next]_vars
  PROVE  Capacities'
<1>1. ASSUME UNCHANGED <<plan, appCapacity, modelCapacity, resized>>,
             \/ Phase' = Phase
             \/ Phase \notin {"resizeApp", "resizeModel"}
      PROVE  Capacities'
  BY <1>1 DEF Capacities
<1>2. ASSUME NEW t \in Threads, Continue(t) PROVE Capacities'
  <2>1. CASE ResizeApp(t)
    <3>1. Phase' = "resizeModel"
      BY <2>1, ContinueMoves
    <3>2. appCapacity' = plan.app /\ plan' = plan
      BY <2>1 DEF ResizeApp, AppCache!Resize, policyVars
    <3>. QED BY <3>1, <3>2 DEF Capacities
  <2>2. CASE ResizeModel(t)
    <3>1. Phase = "resizeModel" /\ Phase' = "warm"
      BY <2>2, ContinueMoves
    <3>2. /\ modelCapacity' = plan.model /\ plan' = plan /\ appCapacity' = appCapacity
          /\ "app" \in resized => "app" \in resized'
      BY <2>2 DEF ResizeModel, ModelCache!Resize, policyVars
    <3>. QED BY <3>1, <3>2 DEF Capacities
  <2>3. CASE \/ RecordAppend(t)
             \/ PlanWarming(t) \/ WarmGet(t) \/ WarmPut(t)
             \/ PlanKV(t) \/ Release(t) \/ TickReturn(t)
             \/ ResetApp(t) \/ ResetModel(t) \/ ResetKV(t) \/ ResetStorage(t)
    <3>1. UNCHANGED <<plan, appCapacity, modelCapacity, resized>>
      BY <2>3 DEF RecordAppend, PlanWarming, WarmGet, WarmPut, PlanKV, Release,
                  TickReturn, ResetApp, ResetModel, ResetKV, ResetStorage,
                  policyVars, cacheVars, AppCache!Clear, ModelCache!Clear,
                  AppCache!Put, AppCache!Overwrite, AppCache!Insert, AppCache!Refuse,
                  AppCache!cvars
    <3>2. Phase \notin {"resizeApp", "resizeModel"}
      BY <2>3, ContinueMoves
    <3>. QED BY <1>1, <3>1, <3>2
  <2>. QED BY <1>2, <2>1, <2>2, <2>3 DEF Continue
<1>3. ASSUME NEW t \in Threads, Begin(t) PROVE Capacities'
  <2>1. CASE \E p \in Predictions, confident \in BOOLEAN : Decide(t, p, confident)
    <3>1. Phase' = "resizeApp"
      BY <2>1, BeginMoves
    <3>. QED BY <3>1 DEF Capacities
  <2>2. CASE \/ \E a \in Apps : RecordObserve(t, a)
             \/ \E id \in Models : RecordModelLoad(t, id)
             \/ \E d \in Devices : UpdateDevice(t, d)
             \/ ResetPredictor(t)
    <3>1. UNCHANGED <<plan, appCapacity, modelCapacity, resized>>
      BY <2>2 DEF RecordObserve, RecordModelLoad, UpdateDevice, ResetPredictor,
                  policyVars, cacheVars, Policy!UpdateDeviceState
    <3>2. Phase \notin {"resizeApp", "resizeModel"}
      BY <2>2, BeginMoves
    <3>. QED BY <1>1, <3>1, <3>2
  <2>. QED BY <1>3, <2>1, <2>2 DEF Begin
<1>4. CASE HostCalls
  BY <1>4, HostMoves, HostsResizeOnRecord DEF Capacities
<1>5. CASE UNCHANGED vars
  <2>1. UNCHANGED <<plan, appCapacity, modelCapacity, resized>> /\ UNCHANGED <<mu, pc>>
    BY <1>5 DEF vars, policyVars, cacheVars
  <2>. QED BY <1>1, <2>1, StayMoves
<1>. QED BY <1>2, <1>3, <1>4, <1>5 DEF Next

LEMMA NextKeepsOwned ==
  ASSUME Owned, [Next]_vars
  PROVE  Owned'
<1>1. ASSUME NEW t \in Threads, Continue(t) PROVE Owned'
  BY <1>1, ContinueMoves DEF Continue
<1>2. ASSUME NEW t \in Threads, Begin(t) PROVE Owned'
  BY <1>2, BeginMoves DEF Begin
<1>3. CASE HostCalls
  BY <1>3, HostMoves
<1>4. CASE UNCHANGED vars
  BY <1>4, StayMoves DEF vars
<1>. QED BY <1>1, <1>2, <1>3, <1>4 DEF Next
-----------------------------------------------------------------------------
(* What steps do to the placeholders in the app cache.                      *)
IsWarm(k) == k \in DOMAIN app /\ app[k] = Placeholder
WarmsOnly(K) == \A k : IsWarm(k)' => IsWarm(k) \/ k \in K

LEMMA ClearWarmsNothing ==
  ASSUME AppCache!Clear
  PROVE  \A k : ~IsWarm(k)'
BY DEF AppCache!Clear, IsWarm

(* put() gives no entry a new value but the one it is called for.           *)
PutEffect(k, v) ==
  \A x \in DOMAIN app' :
     (x \in DOMAIN app /\ app'[x] = app[x]) \/ (x = k /\ app'[x] = v)

LEMMA HostsWarmNothing ==
  ASSUME HostCalls
  PROVE  WarmsOnly({})
<1>1. ASSUME NEW k \in AppKeys, HostApp(AppCache!Erase(k))
      PROVE  WarmsOnly({})
  BY <1>1 DEF HostApp, AppCache!Erase, AppCache!Only, AppCache!Present, WarmsOnly, IsWarm
<1>2. ASSUME NEW k \in AppKeys, NEW v \in HostValues, HostApp(AppCache!Put(k, v))
      PROVE  WarmsOnly({})
  <2>1. AppCache!Put(k, v) /\ v # Placeholder
    BY <1>2, OrchestratorAssumption DEF HostApp
  <2>2. PutEffect(k, v)
    <3>1. CASE AppCache!Overwrite(k, v)
      BY <3>1 DEF AppCache!Overwrite, AppCache!Present, PutEffect
    <3>2. CASE AppCache!Insert(k, v)
      BY <3>2 DEF AppCache!Insert, AppCache!Present, PutEffect
    <3>3. CASE AppCache!Refuse(k)
      BY <3>3 DEF AppCache!Refuse, AppCache!cvars, PutEffect
    <3>. QED BY <2>1, <3>1, <3>2, <3>3 DEF AppCache!Put
  <2>. QED BY <2>1, <2>2 DEF PutEffect, WarmsOnly, IsWarm
<1>3. ASSUME UNCHANGED app PROVE WarmsOnly({})
  BY <1>3 DEF WarmsOnly, IsWarm
<1>4. ASSUME NEW id \in Models, NEW v \in HostValues, HostModel(ModelCache!Put(id, v))
      PROVE  WarmsOnly({})
  BY <1>3, <1>4 DEF HostModel
<1>5. ASSUME NEW id \in Models, HostModel(ModelCache!Erase(id)) PROVE WarmsOnly({})
  BY <1>3, <1>5 DEF HostModel
<1>6. CASE HostApp(AppCache!Clear)
  BY <1>6, ClearWarmsNothing DEF HostApp, WarmsOnly
<1>7. CASE HostModel(ModelCache!Clear)
  BY <1>3, <1>7 DEF HostModel
<1>8. ASSUME NEW c \in HostCapacities, HostResizeApp(c) PROVE WarmsOnly({})
  BY <1>8 DEF HostResizeApp, AppCache!Resize, AppCache!Only, AppCache!Present,
              WarmsOnly, IsWarm
<1>9. ASSUME NEW c \in HostCapacities, HostResizeModel(c) PROVE WarmsOnly({})
  BY <1>3, <1>9 DEF HostResizeModel
<1>10. ASSUME UNCHANGED cacheVars PROVE WarmsOnly({})
  BY <1>3, <1>10 DEF cacheVars
<1>. QED BY <1>1, <1>2, <1>4, <1>5, <1>6, <1>7, <1>8, <1>9, <1>10 DEF HostCalls, HostKV

(* The predictions are apps that were recorded. *)
LEMMA PredictionsAreKnown ==
  ASSUME history \in Seq(Apps), NEW p \in Predictions
  PROVE  p \in Seq(ToSet(history))
<1>1. PICK s \in SUBSET ToSet(history) : p \in SetToSeqs(s)
  BY DEF Predictions
<1>2. history \in Seq(ToSet(history)) /\ DOMAIN history = 1..Len(history)
  BY DEF ToSet
<1>3. IsFiniteSet(ToSet(history))
  BY <1>2 DEF IsFiniteSet, ToSet
<1>4. Cardinality(s) \in Nat
  BY <1>1, <1>3, FS_Subset, FS_CardinalityType
<1>5. p \in [1..Cardinality(s) -> s]
  BY <1>1 DEF SetToSeqs
<1>6. p \in [1..Cardinality(s) -> ToSet(history)]
  BY <1>1, <1>5
<1>. QED BY <1>4, <1>6
-----------------------------------------------------------------------------
(* A tick that may warm at all was decided in a mode that allows it, and    *)
(* the mode does not change under it.                                      *)
Allowed == mode <= Policy!Reduced /\ Config.preload
Saving ==
  /\ Phase \in {"resizeApp", "resizeModel", "warm"} => (plan.preload => Allowed)
  /\ Phase \in {"get", "put"} => Allowed

(* What a tick has to warm is known to the predictor; so is what was warmed *)
(* before, except where reset() has yet to clear it.                       *)
Warming == {"resizeApp", "resizeModel", "warm", "get", "put"}
Known ==
  /\ Phase \in Warming => todo \in Seq(ToSet(history))
  /\ Phase = "put" => todo # << >>
  /\ Phase # "clearApp" => \A a \in Apps : IsWarm(Warm(a)) => a \in ToSet(history)

LEMMA NextKeepsSaving ==
  ASSUME Owned, Saving, [Next]_vars
  PROVE  Saving'
<1>1. ASSUME UNCHANGED <<plan, mode>>,
             \/ Phase' = Phase
             \/ Phase' \notin Warming
             \/ Phase \in {"resizeApp", "resizeModel"} /\ Phase' \in {"resizeModel", "warm"}
             \/ Phase \in {"get", "put"} /\ Phase' \in {"get", "put"}
      PROVE  Saving'
  BY <1>1 DEF Saving, Allowed, Warming
<1>2. ASSUME NEW t \in Threads, Continue(t) PROVE Saving'
  <2>1. UNCHANGED <<plan, mode>>
    BY <1>2 DEF Continue, RecordAppend, ResizeApp, ResizeModel, PlanWarming, WarmGet,
                WarmPut, PlanKV, Release, TickReturn, ResetApp, ResetModel, ResetKV,
                ResetStorage, policyVars
  <2>2. CASE PlanWarming(t)
    <3>1. Phase = "warm" /\ Phase' \in {"get", "planKV"}
      BY <2>2, ContinueMoves
    <3>2. Phase' = "get" => plan.preload
      BY <2>2, <1>2, ContinueMoves, GotoMoves DEF PlanWarming, Steps
    <3>. QED BY <2>1, <3>1, <3>2 DEF Saving, Allowed
  <2>3. CASE ResizeApp(t) \/ ResizeModel(t) \/ WarmGet(t) \/ WarmPut(t)
    <3>1. \/ Phase' \notin Warming
          \/ Phase \in {"resizeApp", "resizeModel"} /\ Phase' \in {"resizeModel", "warm"}
          \/ Phase \in {"get", "put"} /\ Phase' \in {"get", "put"}
      BY <2>3, ContinueMoves DEF Warming
    <3>. QED BY <1>1, <2>1, <3>1
  <2>4. CASE \/ RecordAppend(t) \/ PlanKV(t) \/ Release(t) \/ TickReturn(t)
             \/ ResetApp(t) \/ ResetModel(t) \/ ResetKV(t) \/ ResetStorage(t)
    <3>1. Phase' \notin Warming
      BY <2>4, ContinueMoves DEF Warming
    <3>. QED BY <1>1, <2>1, <3>1
  <2>. QED BY <1>2, <2>2, <2>3, <2>4 DEF Continue
<1>3. ASSUME NEW t \in Threads, Begin(t) PROVE Saving'
  <2>1. ASSUME NEW p \in Predictions, NEW confident \in BOOLEAN, Decide(t, p, confident)
        PROVE  Saving'
    <3>1. Phase' = "resizeApp"
      BY <2>1, BeginMoves
    <3>2. plan' = Policy!Decide(mode, confident, Config) /\ mode' = mode
      BY <2>1 DEF Decide, Policy!Tick
    <3>3. plan'.preload => Config.preload /\ mode <= Policy!Reduced
      BY <3>2 DEF Policy!Decide
    <3>. QED BY <3>1, <3>2, <3>3 DEF Saving, Allowed
  <2>2. ASSUME Phase' \notin Warming PROVE Saving'
    BY <2>2 DEF Saving, Warming
  <2>3. CASE \/ \E a \in Apps : RecordObserve(t, a)
             \/ \E id \in Models : RecordModelLoad(t, id)
             \/ \E d \in Devices : UpdateDevice(t, d)
             \/ ResetPredictor(t)
    <3>1. Phase' \notin Warming
      BY <2>3, BeginMoves DEF Warming
    <3>. QED BY <2>2, <3>1
  <2>. QED BY <1>3, <2>1, <2>3 DEF Begin
<1>4. CASE HostCalls
  BY <1>1, <1>4, HostMoves
<1>5. CASE UNCHANGED vars
  <2>1. UNCHANGED <<plan, mode>> /\ UNCHANGED <<mu, pc>>
    BY <1>5 DEF vars, policyVars
  <2>. QED BY <1>1, <2>1, StayMoves
<1>. QED BY <1>2, <1>3, <1>4, <1>5 DEF Next

LEMMA AppendKnows ==
  ASSUME NEW s \in Seq(Apps), NEW a \in Apps
  PROVE  ToSet(s) \subseteq ToSet(Append(s, a))
BY DEF ToSet

LEMMA FirstFewKnown ==
  ASSUME NEW S, NEW s \in Seq(S), NEW n \in Nat
  PROVE  SubSeq(s, 1, Smaller(Len(s), n)) \in Seq(S)
<1>1. PICK m \in Nat : m = Smaller(Len(s), n) /\ m <= Len(s)
  BY DEF Smaller
<1>2. \A i \in 1..m : s[i] \in S
  BY <1>1
<1>. QED BY <1>1, <1>2, SubSeqProperties

LEMMA WarmPutKeepsKnown ==
  ASSUME Owned, Known, NEW t \in Threads, WarmPut(t)
  PROVE  Known'
<1>1. Phase = "put" /\ Phase' = "get"
  BY ContinueMoves
<1>2. todo \in Seq(ToSet(history)) /\ todo # << >>
  BY <1>1 DEF Known, Warming
<1>3. PICK h : h = Head(todo)
  OBVIOUS
<1>4. h \in ToSet(history) /\ Tail(todo) \in Seq(ToSet(history))
  BY <1>2, <1>3, HeadTailProperties
<1>5. todo' = Tail(todo) /\ history' = history /\ AppCache!Put(Warm(h), Placeholder)
  BY <1>3 DEF WarmPut, logVars
<1>6. PutEffect(Warm(h), Placeholder)
  <2>1. CASE AppCache!Overwrite(Warm(h), Placeholder)
    BY <2>1 DEF AppCache!Overwrite, AppCache!Present, PutEffect
  <2>2. CASE AppCache!Insert(Warm(h), Placeholder)
    BY <2>2 DEF AppCache!Insert, AppCache!Present, PutEffect
  <2>3. CASE AppCache!Refuse(Warm(h))
    BY <2>3 DEF AppCache!Refuse, AppCache!cvars, PutEffect
  <2>. QED BY <1>5, <2>1, <2>2, <2>3 DEF AppCache!Put
<1>7. ASSUME NEW a \in Apps, IsWarm(Warm(a))' PROVE a \in ToSet(history)
  <2>1. IsWarm(Warm(a)) \/ Warm(a) = Warm(h)
    BY <1>6, <1>7 DEF PutEffect, IsWarm
  <2>2. CASE IsWarm(Warm(a))
    BY <1>1, <2>2 DEF Known
  <2>3. CASE Warm(a) = Warm(h)
    BY <1>4, <2>3 DEF Warm
  <2>. QED BY <2>1, <2>2, <2>3
<1>. QED BY <1>1, <1>4, <1>5, <1>7 DEF Known

LEMMA NextKeepsKnown ==
  ASSUME Owned, Logs, Known, [Next]_vars
  PROVE  Known'
<1>1. ASSUME UNCHANGED <<todo, history>>, WarmsOnly({}),
             \/ Phase' = Phase
             \/ /\ Phase # "clearApp" /\ Phase' # "put"
                /\ Phase' \in Warming => Phase \in Warming
      PROVE  Known'
  BY <1>1 DEF Known, WarmsOnly
<1>2. ASSUME UNCHANGED app PROVE WarmsOnly({})
  BY <1>2 DEF WarmsOnly, IsWarm
<1>3. ASSUME NEW t \in Threads, Continue(t) PROVE Known'
  <2>1. CASE PlanWarming(t)
    <3>1. Phase = "warm" /\ Phase' \in {"get", "planKV"}
      BY <2>1, ContinueMoves
    <3>2. WarmCount \in Nat
      BY OrchestratorAssumption DEF WarmCount, Smaller
    <3>3. todo \in Seq(ToSet(history))
      BY <3>1 DEF Known, Warming
    <3>4. todo' \in Seq(ToSet(history))
      BY <2>1, <3>2, <3>3, FirstFewKnown DEF PlanWarming
    <3>5. history' = history /\ app' = app
      BY <2>1 DEF PlanWarming, logVars, cacheVars
    <3>. QED BY <1>2, <3>1, <3>4, <3>5 DEF Known, WarmsOnly
  <2>2. CASE WarmGet(t)
    <3>1. Phase = "get" /\ Phase' \in {"get", "put", "planKV"}
      BY <2>2, ContinueMoves
    <3>2. todo \in Seq(ToSet(history))
      BY <3>1 DEF Known, Warming
    <3>3. history' = history /\ app' = app
      BY <2>2 DEF WarmGet, logVars, cacheVars
    <3>4. todo' = todo \/ (todo # << >> /\ todo' = Tail(todo))
      BY <2>2 DEF WarmGet
    <3>5. todo' \in Seq(ToSet(history))
      BY <3>2, <3>4, HeadTailProperties
    <3>6. Phase' = "put" => todo' # << >>
      <4>1. CASE Goto(t, "get", "get") \/ Goto(t, "get", "planKV")
        BY <4>1, GotoMoves DEF Steps
      <4>2. CASE todo # << >> /\ todo' = todo
        BY <4>2
      <4>. QED BY <2>2, <4>1, <4>2 DEF WarmGet
    <3>. QED BY <1>2, <3>1, <3>3, <3>5, <3>6 DEF Known, WarmsOnly
  <2>3. CASE WarmPut(t)
    BY <2>3, WarmPutKeepsKnown
  <2>4. CASE ResizeApp(t)
    <3>1. Phase = "resizeApp" /\ Phase' = "resizeModel"
      BY <2>4, ContinueMoves
    <3>2. UNCHANGED <<todo, history>> /\ AppCache!Resize(plan.app)
      BY <2>4 DEF ResizeApp, logVars
    <3>3. WarmsOnly({})
      BY <3>2 DEF AppCache!Resize, AppCache!Only, AppCache!Present, WarmsOnly, IsWarm
    <3>. QED BY <1>1, <3>1, <3>2, <3>3 DEF Warming
  <2>5. CASE ResetApp(t)
    <3>1. Phase' = "clearModel"
      BY <2>5, ContinueMoves
    <3>2. \A k : ~IsWarm(k)'
      BY <2>5, ClearWarmsNothing DEF ResetApp
    <3>. QED BY <3>1, <3>2 DEF Known, Warming
  <2>6. CASE ResizeModel(t) \/ RecordAppend(t) \/ PlanKV(t) \/ Release(t)
             \/ TickReturn(t) \/ ResetModel(t) \/ ResetKV(t) \/ ResetStorage(t)
    <3>1. UNCHANGED <<todo, history, app>>
      BY <2>6 DEF ResizeModel, RecordAppend, PlanKV, Release, TickReturn, ResetModel,
                  ResetKV, ResetStorage, logVars, cacheVars
    <3>2. /\ Phase # "clearApp" /\ Phase' # "put"
          /\ Phase' \in Warming => Phase \in Warming
      BY <2>6, ContinueMoves DEF Warming
    <3>. QED BY <1>1, <1>2, <3>1, <3>2
  <2>. QED BY <1>3, <2>1, <2>2, <2>3, <2>4, <2>5, <2>6 DEF Continue
<1>4. ASSUME NEW t \in Threads, Begin(t) PROVE Known'
  <2>1. ASSUME NEW a \in Apps, RecordObserve(t, a) PROVE Known'
    <3>1. Phase = "idle" /\ Phase' = "append"
      BY <2>1, BeginMoves
    <3>2. history' = Append(history, a) /\ app' = app
      BY <2>1 DEF RecordObserve, cacheVars
    <3>3. ToSet(history) \subseteq ToSet(history')
      BY <3>2, AppendKnows DEF Logs
    <3>. QED BY <3>1, <3>2, <3>3 DEF Known, Warming, IsWarm
  <2>2. ASSUME NEW p \in Predictions, NEW confident \in BOOLEAN, Decide(t, p, confident)
        PROVE  Known'
    <3>1. Phase = "idle" /\ Phase' = "resizeApp"
      BY <2>2, BeginMoves
    <3>2. todo' = p /\ history' = history /\ app' = app
      BY <2>2 DEF Decide, logVars, cacheVars
    <3>3. p \in Seq(ToSet(history))
      BY PredictionsAreKnown DEF Logs
    <3>. QED BY <3>1, <3>2, <3>3 DEF Known, IsWarm
  <2>3. CASE ResetPredictor(t)
    <3>1. Phase' = "clearApp"
      BY <2>3, BeginMoves
    <3>. QED BY <3>1 DEF Known, Warming
  <2>4. CASE \/ \E id \in Models : RecordModelLoad(t, id)
             \/ \E d \in Devices : UpdateDevice(t, d)
    <3>1. UNCHANGED <<todo, history, app>>
      BY <2>4 DEF RecordModelLoad, UpdateDevice, logVars, cacheVars
    <3>2. Phase = "idle" /\ Phase' = "idle"
      BY <2>4, BeginMoves
    <3>. QED BY <1>1, <1>2, <3>1, <3>2
  <2>. QED BY <1>4, <2>1, <2>2, <2>3, <2>4 DEF Begin
<1>5. CASE HostCalls
  BY <1>1, <1>5, HostMoves, HostsWarmNothing
<1>6. CASE UNCHANGED vars
  <2>1. UNCHANGED <<todo, history, app>> /\ UNCHANGED <<mu, pc>>
    BY <1>6 DEF vars, logVars, cacheVars
  <2>. QED BY <1>1, <1>2, <2>1, StayMoves
<1>. QED BY <1>3, <1>4, <1>5, <1>6 DEF Next
-----------------------------------------------------------------------------
(* The inductive invariant of the facade. *)
IInv == Owned /\ Logs /\ Capacities /\ Saving /\ Known

LEMMA InitIInv == Init => IInv
<1>. SUFFICES ASSUME Init PROVE IInv
  OBVIOUS
<1>1. Owned /\ Phase = "idle"
  BY OrchestratorAssumption DEF Init, Owned, Phase, Steps
<1>2. Logs
  BY <1>1 DEF Init, Logs, ResetSteps
<1>3. Capacities
  <2>. USE DEF Policy!Full, Policy!Reduced, Policy!Minimal, Policy!Paused
  <2>1. plan = Policy!Decide(0, FALSE, Config)
    BY DEF Init, Policy!Init
  <2>2. Policy!AppSlots(0, Config) = Config.app /\ Policy!ModelSlots(0, Config) = Config.model
    BY DEF Policy!AppSlots, Policy!ModelSlots
  <2>3. plan.app = Config.app + 0 /\ plan.model = Config.model
    BY <2>1, <2>2 DEF Policy!Decide
  <2>4. appCapacity = Config.app /\ modelCapacity = Config.model
    BY DEF Init, AppCache!Init, ModelCache!Init
  <2>5. Config.app \in Nat
    BY ConfigNumbers
  <2>. QED BY <2>3, <2>4, <2>5 DEF Capacities
<1>4. Saving
  BY <1>1 DEF Saving
<1>5. Known
  <2>1. DOMAIN app = {}
    BY DEF Init, AppCache!Init
  <2>. QED BY <1>1, <2>1 DEF Known, Warming, IsWarm
<1>. QED BY <1>1, <1>2, <1>3, <1>4, <1>5 DEF IInv

LEMMA NextIInv == IInv /\ [Next]_vars => IInv'
BY NextKeepsOwned, NextKeepsLogs, NextKeepsCapacities, NextKeepsSaving, NextKeepsKnown
   DEF IInv

LEMMA AlwaysIInv == Spec => []IInv
BY InitIInv, NextIInv, PTL DEF Spec

LEMMA AtRest == ASSUME Owned, mu = None PROVE Phase = "idle"
BY DEF Phase

(* record_event() and reset() leave the predictor with exactly the events    *)
(* that storage holds, whatever other threads call meanwhile.              *)
THEOREM EventsAreLearned == Spec => []LearnedIsStored
<1>1. IInv => LearnedIsStored
  BY AtRest DEF IInv, Logs, ResetSteps, LearnedIsStored
<1>. QED BY <1>1, AlwaysIInv, PTL

(* When tick() has returned both caches have the capacities of its plan; no  *)
(* other call takes them from it, and hosts do by resize() alone, each of    *)
(* the cache it is called on and until the next tick.                       *)
THEOREM CachesFollowPlan == Spec => []CapacitiesFollowPlan
<1>1. IInv => CapacitiesFollowPlan
  BY AtRest DEF IInv, Capacities, CapacitiesFollowPlan
<1>. QED BY <1>1, AlwaysIInv, PTL

(* After reset() no tick warms an app that was recorded only before it.      *)
THEOREM ForgottenIsNotWarm == Spec => []WarmedIsKnown
<1>1. IInv => WarmedIsKnown
  BY AtRest DEF IInv, Known, IsWarm, WarmedIsKnown
<1>. QED BY <1>1, AlwaysIInv, PTL

LEMMA OnlyWarmPutWarms ==
  ASSUME [Next]_vars
  PROVE  WarmsOnly({}) \/ \E t \in Threads : WarmPut(t)
<1>1. ASSUME UNCHANGED app PROVE WarmsOnly({})
  BY <1>1 DEF WarmsOnly, IsWarm
<1>2. ASSUME NEW t \in Threads, Continue(t), ~WarmPut(t) PROVE WarmsOnly({})
  <2>1. CASE ResizeApp(t)
    <3>1. AppCache!Resize(plan.app)
      BY <2>1 DEF ResizeApp
    <3>. QED BY <3>1 DEF AppCache!Resize, AppCache!Only, AppCache!Present, WarmsOnly, IsWarm
  <2>2. CASE ResetApp(t)
    BY <2>2, ClearWarmsNothing DEF ResetApp, WarmsOnly
  <2>3. CASE \/ RecordAppend(t) \/ ResizeModel(t) \/ PlanWarming(t) \/ WarmGet(t)
             \/ PlanKV(t) \/ Release(t) \/ TickReturn(t)
             \/ ResetModel(t) \/ ResetKV(t) \/ ResetStorage(t)
    <3>1. UNCHANGED app
      BY <2>3 DEF RecordAppend, ResizeModel, PlanWarming, WarmGet, PlanKV, Release,
                  TickReturn, ResetModel, ResetKV, ResetStorage, cacheVars
    <3>. QED BY <1>1, <3>1
  <2>. QED BY <1>2, <2>1, <2>2, <2>3 DEF Continue
<1>3. ASSUME NEW t \in Threads, Begin(t) PROVE WarmsOnly({})
  <2>1. UNCHANGED app
    BY <1>3 DEF Begin, RecordObserve, RecordModelLoad, UpdateDevice, Decide,
                ResetPredictor, cacheVars
  <2>. QED BY <1>1, <2>1
<1>4. CASE UNCHANGED vars
  BY <1>1, <1>4 DEF vars, cacheVars
<1>. QED BY <1>2, <1>3, <1>4, HostsWarmNothing DEF Next

(* The preloader puts a placeholder only in a mode that preloads: the mode    *)
(* that tick() decided by is still in force when it comes to warm.         *)
THEOREM SavingModesWarmNothing == Spec => NoWarmingWhenSaving
<1>1. ASSUME IInv, [Next]_vars, NEW a \in Apps,
             Warm(a) \in DOMAIN app' \ DOMAIN app, app'[Warm(a)] = Placeholder
      PROVE  mode <= Policy!Reduced /\ Config.preload
  <2>1. IsWarm(Warm(a))' /\ ~IsWarm(Warm(a))
    BY <1>1 DEF IsWarm
  <2>2. PICK t \in Threads : WarmPut(t)
    BY <1>1, <2>1, OnlyWarmPutWarms DEF WarmsOnly
  <2>3. Phase = "put"
    BY <1>1, <2>2, ContinueMoves DEF IInv
  <2>. QED BY <1>1, <2>3 DEF IInv, Saving, Allowed
<1>2. IInv /\ [Next]_vars =>
        [\A a \in Apps :
           Warm(a) \in DOMAIN app' \ DOMAIN app /\ app'[Warm(a)] = Placeholder
             => mode <= Policy!Reduced /\ Config.preload]_vars
  BY <1>1
<1>. QED BY <1>2, AlwaysIInv, PTL DEF Spec, NoWarmingWhenSaving
-----------------------------------------------------------------------------
(* reset() while it runs: what it has cleared stays clear unless a host puts *)
(* something through an accessor.                                          *)
Wiped ==
  /\ Phase \in {"clearModel", "resetKV", "resetStorage"} => touched \/ DOMAIN app = {}
  /\ Phase \in {"resetKV", "resetStorage"} => touched \/ DOMAIN model = {}
  /\ Phase = "resetStorage" => touched \/ (DOMAIN blocks = {} /\ total = 0)

LEMMA NextKeepsWiped ==
  ASSUME Owned, Wiped, [Next]_vars
  PROVE  Wiped'
<1>1. ASSUME Phase' \notin {"clearModel", "resetKV", "resetStorage"} PROVE Wiped'
  BY <1>1 DEF Wiped
<1>2. ASSUME NEW t \in Threads, Continue(t) PROVE Wiped'
  <2>1. CASE ResetApp(t)
    <3>1. Phase' = "clearModel"
      BY <2>1, ContinueMoves
    <3>2. DOMAIN app' = {}
      BY <2>1 DEF ResetApp, AppCache!Clear
    <3>. QED BY <3>1, <3>2 DEF Wiped
  <2>2. CASE ResetModel(t)
    <3>1. Phase = "clearModel" /\ Phase' = "resetKV"
      BY <2>2, ContinueMoves
    <3>2. DOMAIN model' = {} /\ app' = app /\ touched' = touched
      BY <2>2 DEF ResetModel, ModelCache!Clear, Goto
    <3>. QED BY <3>1, <3>2 DEF Wiped
  <2>3. CASE ResetKV(t)
    <3>1. Phase = "resetKV" /\ Phase' = "resetStorage"
      BY <2>3, ContinueMoves
    <3>2. DOMAIN blocks' = {} /\ total' = 0
      BY <2>3 DEF ResetKV, KV!Host, KV!Reset, KV!NoBlocks
    <3>3. app' = app /\ model' = model /\ touched' = touched
      BY <2>3 DEF ResetKV, Goto, cacheVars
    <3>. QED BY <3>1, <3>2, <3>3 DEF Wiped
  <2>4. CASE \/ RecordAppend(t)
             \/ ResizeApp(t) \/ ResizeModel(t)
             \/ PlanWarming(t) \/ WarmGet(t) \/ WarmPut(t)
             \/ PlanKV(t) \/ Release(t) \/ TickReturn(t) \/ ResetStorage(t)
    BY <1>1, <2>4, ContinueMoves
  <2>. QED BY <1>2, <2>1, <2>2, <2>3, <2>4 DEF Continue
<1>3. ASSUME NEW t \in Threads, Begin(t) PROVE Wiped'
  BY <1>1, <1>3, BeginMoves DEF Begin
<1>4. CASE HostCalls
  <2>1. touched'
    BY <1>4 DEF HostCalls, HostApp, HostModel, HostKV, HostResizeApp, HostResizeModel, Accessor
  <2>. QED BY <2>1 DEF Wiped
<1>5. CASE UNCHANGED vars
  <2>1. UNCHANGED <<mu, pc>> /\ UNCHANGED <<app, model, blocks, total, touched>>
    BY <1>5 DEF vars, cacheVars, kvVars
  <2>. QED BY <2>1, StayMoves DEF Wiped
<1>. QED BY <1>2, <1>3, <1>4, <1>5 DEF Next

(* A thread leaves the last step of reset() only by returning from it.       *)
LEMMA ResetReturns ==
  ASSUME Owned, [Next]_vars, NEW t \in Threads, pc[t] = "resetStorage", pc'[t] = "idle"
  PROVE  \E u \in Threads : ResetStorage(u)
<1>1. Phase = "resetStorage"
  BY OrchestratorAssumption DEF Owned, Phase
<1>2. ASSUME UNCHANGED pc PROVE FALSE
  BY <1>2
<1>3. ASSUME NEW u \in Threads, Begin(u) PROVE FALSE
  BY <1>1, <1>3, BeginMoves DEF Begin
<1>4. ASSUME NEW u \in Threads, Continue(u) PROVE ResetStorage(u)
  BY <1>1, <1>4, ContinueMoves DEF Continue
<1>5. HostCalls => UNCHANGED pc
  BY DEF HostCalls, HostApp, HostModel, HostKV, HostResizeApp, HostResizeModel, Accessor
<1>6. UNCHANGED vars => UNCHANGED pc
  BY DEF vars
<1>. QED BY <1>2, <1>3, <1>4, <1>5, <1>6 DEF Next

(* When reset() returns, predictor and storage have forgotten everything, and *)
(* so have the caches and the KV manager unless a host used an accessor      *)
(* meanwhile.                                                              *)
THEOREM ResetForgetsAll == Spec => ResetIsWhole
<1>1. Init => Owned /\ Logs /\ Wiped
  <2>1. Init => Owned /\ Phase = "idle"
    BY OrchestratorAssumption DEF Init, Owned, Phase, Steps
  <2>. QED BY <2>1, InitIInv DEF IInv, Wiped
<1>2. ASSUME Owned, Logs, Wiped, [Next]_vars, NEW t \in Threads,
             pc[t] = "resetStorage", pc'[t] = "idle"
      PROVE  /\ history' = << >> /\ events' = << >>
             /\ \/ touched
                \/ DOMAIN app' = {} /\ DOMAIN model' = {} /\ DOMAIN blocks' = {} /\ total' = 0
  <2>1. PICK u \in Threads : ResetStorage(u)
    BY <1>2, ResetReturns
  <2>2. Phase = "resetStorage"
    BY <1>2, <2>1, ContinueMoves
  <2>3. history = << >>
    BY <1>2, <2>2 DEF Logs, ResetSteps
  <2>4. /\ history' = history /\ events' = << >>
        /\ UNCHANGED <<app, model, blocks, total>>
    BY <2>1 DEF ResetStorage, cacheVars, kvVars
  <2>. QED BY <1>2, <2>2, <2>3, <2>4 DEF Wiped
<1>3. Owned /\ Logs /\ Wiped /\ [Next]_vars =>
        /\ (Owned /\ Logs /\ Wiped)'
        /\ [\A t \in Threads : pc[t] = "resetStorage" /\ pc'[t] = "idle" =>
              /\ history' = << >> /\ events' = << >>
              /\ \/ touched
                 \/ DOMAIN app' = {} /\ DOMAIN model' = {} /\ DOMAIN blocks' = {} /\ total' = 0]_vars
  BY <1>2, NextKeepsOwned, NextKeepsLogs, NextKeepsWiped
<1>. QED BY <1>1, <1>3, PTL DEF Spec, ResetIsWhole
-----------------------------------------------------------------------------
(* The steps that touch the policy, and those that touch the KV manager. *)
LEMMA PolicySteps ==
  ASSUME [Next]_vars
  PROVE  [Policy!Next]_(Policy!vars)
<1>1. ASSUME NEW t \in Threads, Continue(t) PROVE UNCHANGED Policy!vars
  BY <1>1 DEF Continue, RecordAppend, ResizeApp, ResizeModel, PlanWarming, WarmGet,
              WarmPut, PlanKV, Release, TickReturn, ResetApp, ResetModel, ResetKV,
              ResetStorage, policyVars, Policy!vars
<1>2. ASSUME NEW t \in Threads, Begin(t) PROVE [Policy!Next]_(Policy!vars)
  <2>1. ASSUME NEW d \in Devices, UpdateDevice(t, d) PROVE Policy!Next
    BY <2>1 DEF UpdateDevice, Policy!Next
  <2>2. ASSUME NEW p, NEW confident \in BOOLEAN, Decide(t, p, confident)
        PROVE  Policy!Next
    BY <2>2 DEF Decide, Policy!Next
  <2>3. CASE \/ \E a \in Apps : RecordObserve(t, a)
             \/ \E id \in Models : RecordModelLoad(t, id)
             \/ ResetPredictor(t)
    BY <2>3 DEF RecordObserve, RecordModelLoad, ResetPredictor, policyVars, Policy!vars
  <2>. QED BY <1>2, <2>1, <2>2, <2>3 DEF Begin
<1>3. HostCalls => UNCHANGED Policy!vars
  BY DEF HostCalls, HostApp, HostModel, HostKV, HostResizeApp, HostResizeModel,
         Accessor, policyVars, Policy!vars
<1>4. UNCHANGED vars => UNCHANGED Policy!vars
  BY DEF vars, policyVars, Policy!vars
<1>. QED BY <1>1, <1>2, <1>3, <1>4 DEF Next

LEMMA BudgetOfPlan ==
  ASSUME PolicyInv
  PROVE  plan.kv = Policy!KVBudget(plan.mode, Config) /\ plan.kv \in Budgets
<1>1. plan.mode \in Policy!Modes
  BY DEF PolicyInv, Policy!TypeOK
<1>2. PICK s \in BOOLEAN : plan = Policy!Decide(plan.mode, s, Config)
  BY DEF PolicyInv, PlanMade
<1>3. plan.kv = Policy!KVBudget(plan.mode, Config)
  BY <1>2 DEF Policy!Decide
<1>. QED BY <1>1, <1>3 DEF Budgets

LEMMA KVSteps ==
  ASSUME PolicyInv, [Next]_vars
  PROVE  [KV!Next]_(KV!vars)
<1>1. ASSUME NEW t \in Threads, Continue(t) PROVE [KV!Next]_(KV!vars)
  <2>1. CASE PlanKV(t)
    <3>1. KV!Plan(plan.kv)
      BY <2>1 DEF PlanKV
    <3>. QED BY <3>1, BudgetOfPlan DEF KV!Next
  <2>2. CASE Release(t)
    BY <2>2 DEF Release, KV!Next
  <2>3. CASE ResetKV(t)
    BY <2>3 DEF ResetKV, KV!Next
  <2>4. CASE \/ RecordAppend(t)
             \/ ResizeApp(t) \/ ResizeModel(t)
             \/ PlanWarming(t) \/ WarmGet(t) \/ WarmPut(t) \/ TickReturn(t)
             \/ ResetApp(t) \/ ResetModel(t) \/ ResetStorage(t)
    BY <2>4 DEF RecordAppend, ResizeApp, ResizeModel, PlanWarming, WarmGet, WarmPut,
                TickReturn, ResetApp, ResetModel, ResetStorage, kvVars, KV!vars
  <2>. QED BY <1>1, <2>1, <2>2, <2>3, <2>4 DEF Continue
<1>2. ASSUME NEW t \in Threads, Begin(t) PROVE UNCHANGED KV!vars
  BY <1>2 DEF Begin, RecordObserve, RecordModelLoad, UpdateDevice, Decide, ResetPredictor,
              kvVars, KV!vars
<1>3. HostCalls => [KV!Next]_(KV!vars)
  BY DEF HostCalls, HostApp, HostModel, HostKV, HostResizeApp, HostResizeModel,
         kvVars, KV!vars, KV!Next
<1>4. UNCHANGED vars => UNCHANGED KV!vars
  BY DEF vars, kvVars, KV!vars
<1>. QED BY <1>1, <1>2, <1>3, <1>4 DEF Next

-----------------------------------------------------------------------------
(* The KV manager as its own proofs describe it.  Their operators are those  *)
(* of KV, instance for instance.                                           *)
KVP == INSTANCE KVCacheManagerProofs WITH Sink <- Config.sink, Recent <- Config.recent

LEMMA SameTokens ==
  ASSUME NEW ids
  PROVE  KVP!Tokens(ids) = KV!Tokens(ids)
BY DEF KVP!Tokens, KVP!Counts, KVP!Tracked, KVP!SumFunctionOnSet,
       KVP!FoldFunctionOnSet, KVP!MapThenFoldSet,
       KV!Tokens, KV!Counts, KV!Tracked, KV!SumFunctionOnSet,
       KV!FoldFunctionOnSet, KV!MapThenFoldSet

LEMMA SamePlans ==
  ASSUME NEW budget
  PROVE  KVP!Plans(budget) = KV!Plans(budget)
<1>1. KVP!Sorted = KV!Sorted
  BY DEF KVP!Sorted, KVP!Tracked, KVP!SetToSeqs, KVP!Cardinality,
         KV!Sorted, KV!Tracked, KV!SetToSeqs, KV!Cardinality
<1>2. ASSUME NEW order PROVE KVP!PlanOf(order, budget) = KV!PlanOf(order, budget)
  BY DEF KVP!PlanOf, KVP!Take, KVP!Evictable, KVP!InSink, KVP!RecentFrom,
         KVP!FoldLeft, KVP!MapThenFoldSet, KVP!Max,
         KV!PlanOf, KV!Take, KV!Evictable, KV!InSink, KV!RecentFrom,
         KV!FoldLeft, KV!MapThenFoldSet, KV!Max
<1>. QED BY <1>1, <1>2 DEF KVP!Plans, KV!Plans

LEMMA SameSteps == [KV!Next]_(KV!vars) => [KVP!Next]_(KVP!vars)
<1>1. \A budget : KVP!Plans(budget) = KV!Plans(budget)
  BY SamePlans
<1>. QED BY <1>1 DEF KVP!Next, KVP!Host, KVP!Observe, KVP!Release, KVP!Reset, KVP!Plan,
                     KVP!ReleaseNext, KVP!NoBlocks, KVP!Tracked, KVP!Ids, KVP!vars,
                     KV!Next, KV!Host, KV!Observe, KV!Release, KV!Reset, KV!Plan,
                     KV!ReleaseNext, KV!NoBlocks, KV!Tracked, KV!Ids, KV!vars

LEMMA KVNumbers == KVP!KVAssumption
BY OrchestratorAssumption
   DEF KVP!KVAssumption, KV!KVAssumption

LEMMA KVInit == KV!Init => KVP!IInv
<1>1. KV!Init => KVP!Init
  BY DEF KV!Init, KVP!Init, KV!NoBlocks, KVP!NoBlocks
<1>. QED BY <1>1, KVNumbers, KVP!InitIInv

LEMMA KVNext ==
  ASSUME PolicyInv, KVP!IInv, [Next]_vars
  PROVE  KVP!IInv'
<1>1. [KVP!Next]_(KVP!vars)
  BY KVSteps, SameSteps
<1>. QED BY <1>1, KVNumbers, KVP!NextIInv

-----------------------------------------------------------------------------
(* What a call leaves behind: nothing to warm, nothing to release.           *)
Leftovers ==
  /\ Phase \notin Warming => todo = << >>
  /\ Phase # "release" => pending = << >>
Registered ==
  /\ slots \subseteq Models
  /\ samples \in BOOLEAN
  /\ touched \in BOOLEAN
  /\ resized \subseteq {"app", "model"}

LEMMA NextKeepsRegistered ==
  ASSUME Registered, [Next]_vars
  PROVE  Registered'
<1>1. touched' \in BOOLEAN /\ samples' \in BOOLEAN /\ slots' \subseteq Models
  <2>1. ASSUME NEW t \in Threads, Continue(t)
        PROVE  touched' \in BOOLEAN /\ samples' \in BOOLEAN /\ slots' \subseteq Models
    BY <2>1 DEF Continue, RecordAppend, ResizeApp, ResizeModel, PlanWarming, WarmGet,
                WarmPut, PlanKV, Release, TickReturn, ResetApp, ResetModel, ResetKV,
                ResetStorage, Goto, Return, restVars, Registered
  <2>2. ASSUME NEW t \in Threads, Begin(t)
        PROVE  touched' \in BOOLEAN /\ samples' \in BOOLEAN /\ slots' \subseteq Models
    BY <2>2 DEF Begin, RecordObserve, RecordModelLoad, UpdateDevice, Decide,
                ResetPredictor, Acquire, Locked, restVars, Registered
  <2>3. CASE HostCalls
    BY <2>3 DEF HostCalls, HostApp, HostModel, HostKV, HostResizeApp, HostResizeModel,
                Accessor, restVars, Registered
  <2>4. CASE UNCHANGED vars
    BY <2>4 DEF vars, restVars, Registered
  <2>. QED BY <2>1, <2>2, <2>3, <2>4 DEF Next
<1>2. resized' \subseteq {"app", "model"}
  <2>1. ASSUME NEW t \in Threads, Continue(t)
        PROVE  resized' = resized \/ resized' \subseteq resized
    BY <2>1 DEF Continue, RecordAppend, ResizeApp, ResizeModel, PlanWarming, WarmGet,
                WarmPut, PlanKV, Release, TickReturn, ResetApp, ResetModel, ResetKV,
                ResetStorage, cacheVars
  <2>2. ASSUME NEW t \in Threads, Begin(t)
        PROVE  resized' = resized
    BY <2>2 DEF Begin, RecordObserve, RecordModelLoad, UpdateDevice, Decide,
                ResetPredictor, cacheVars
  <2>3. CASE HostCalls
    BY <2>3 DEF HostCalls, HostApp, HostModel, HostKV, HostResizeApp, HostResizeModel,
                cacheVars, Registered
  <2>4. CASE UNCHANGED vars
    BY <2>4 DEF vars, cacheVars, Registered
  <2>. QED BY <2>1, <2>2, <2>3, <2>4 DEF Next, Registered
<1>. QED BY <1>1, <1>2 DEF Registered

LEMMA NextKeepsLeftovers ==
  ASSUME Owned, Leftovers, [Next]_vars
  PROVE  Leftovers'
<1>1. ASSUME UNCHANGED <<todo, pending>>,
             \/ Phase' = Phase
             \/ Phase \notin Warming \cup {"release"}
             \/ Phase \in Warming /\ Phase' \in Warming
      PROVE  Leftovers'
  BY <1>1 DEF Leftovers, Warming
<1>2. ASSUME NEW t \in Threads, Continue(t) PROVE Leftovers'
  <2>1. CASE PlanWarming(t)
    <3>1. Phase = "warm" /\ Phase' \in {"get", "planKV"}
      BY <2>1, ContinueMoves
    <3>2. pending' = pending /\ (Phase' = "get" \/ todo' = << >>)
      <4>1. CASE plan.preload
        <5>1. Goto(t, "warm", "get")
          BY <2>1, <4>1 DEF PlanWarming
        <5>. QED BY <2>1, <5>1, GotoMoves DEF PlanWarming, Steps, kvVars
      <4>2. CASE ~plan.preload
        BY <2>1, <4>2 DEF PlanWarming, kvVars
      <4>. QED BY <4>1, <4>2
    <3>. QED BY <3>1, <3>2 DEF Leftovers, Warming
  <2>2. CASE WarmGet(t)
    <3>1. Phase = "get" /\ Phase' \in {"get", "put", "planKV"}
      BY <2>2, ContinueMoves
    <3>2. pending' = pending
      BY <2>2 DEF WarmGet, kvVars
    <3>3. Phase' = "planKV" => todo' = << >>
      <4>1. CASE Goto(t, "get", "get") \/ Goto(t, "get", "put")
        BY <4>1, GotoMoves DEF Steps
      <4>2. CASE todo = << >> /\ todo' = todo
        BY <4>2
      <4>. QED BY <2>2, <4>1, <4>2 DEF WarmGet
    <3>. QED BY <3>1, <3>2, <3>3 DEF Leftovers, Warming
  <2>3. CASE WarmPut(t)
    <3>1. Phase = "put" /\ Phase' = "get"
      BY <2>3, ContinueMoves
    <3>2. pending' = pending
      BY <2>3 DEF WarmPut, kvVars
    <3>. QED BY <3>1, <3>2 DEF Leftovers, Warming
  <2>4. CASE PlanKV(t) \/ Release(t)
    <3>1. Phase \in {"planKV", "release"} /\ Phase' = "release"
      BY <2>4, ContinueMoves
    <3>2. todo' = todo
      BY <2>4 DEF PlanKV, Release
    <3>. QED BY <3>1, <3>2 DEF Leftovers, Warming
  <2>5. CASE TickReturn(t)
    <3>1. Phase = "release" /\ Phase' = "idle"
      BY <2>5, ContinueMoves
    <3>2. todo' = todo /\ pending' = << >>
      BY <2>5 DEF TickReturn, kvVars
    <3>. QED BY <3>1, <3>2 DEF Leftovers, Warming
  <2>6. CASE ResetKV(t)
    <3>1. Phase = "resetKV" /\ Phase' = "resetStorage"
      BY <2>6, ContinueMoves
    <3>2. UNCHANGED <<todo, pending>>
      BY <2>6 DEF ResetKV, KV!Host
    <3>. QED BY <1>1, <3>1, <3>2 DEF Warming
  <2>7. CASE \/ RecordAppend(t) \/ ResizeApp(t) \/ ResizeModel(t)
             \/ ResetApp(t) \/ ResetModel(t) \/ ResetStorage(t)
    <3>1. UNCHANGED <<todo, pending>>
      BY <2>7 DEF RecordAppend, ResizeApp, ResizeModel, ResetApp, ResetModel,
                  ResetStorage, kvVars
    <3>2. \/ Phase \notin Warming \cup {"release"}
          \/ Phase \in Warming /\ Phase' \in Warming
      BY <2>7, ContinueMoves DEF Warming
    <3>. QED BY <1>1, <3>1, <3>2
  <2>. QED BY <1>2, <2>1, <2>2, <2>3, <2>4, <2>5, <2>6, <2>7 DEF Continue
<1>3. ASSUME NEW t \in Threads, Begin(t) PROVE Leftovers'
  <2>1. Phase = "idle" /\ Phase' \in {"idle", "append", "resizeApp", "clearApp"}
    BY <1>3, BeginMoves DEF Begin
  <2>2. pending' = pending
    BY <1>3 DEF Begin, RecordObserve, RecordModelLoad, UpdateDevice, Decide,
                ResetPredictor, kvVars
  <2>3. Phase' = "resizeApp" \/ todo' = todo
    <3>1. ASSUME NEW p \in Predictions, NEW confident \in BOOLEAN, Decide(t, p, confident)
          PROVE  Phase' = "resizeApp"
      BY <3>1, BeginMoves
    <3>. QED BY <1>3, <3>1 DEF Begin, RecordObserve, RecordModelLoad, UpdateDevice,
                               ResetPredictor
  <2>. QED BY <2>1, <2>2, <2>3 DEF Leftovers, Warming
<1>4. CASE HostCalls
  <2>1. pending' = pending
    BY <1>4 DEF HostCalls, HostApp, HostModel, HostKV, HostResizeApp, HostResizeModel,
                KV!Host, kvVars
  <2>. QED BY <1>1, <1>4, <2>1, HostMoves
<1>5. CASE UNCHANGED vars
  <2>1. UNCHANGED <<todo, pending>> /\ UNCHANGED <<mu, pc>>
    BY <1>5 DEF vars, kvVars
  <2>. QED BY <1>1, <2>1, StayMoves
<1>. QED BY <1>2, <1>3, <1>4, <1>5 DEF Next

-----------------------------------------------------------------------------
(* A tick goes on in the mode it was decided in, and between two releases    *)
(* what is left of its plan still suffices, unless a host interferes.       *)
TickSteps == Warming \cup {"planKV", "release"}
Planned ==
  /\ Phase \in TickSteps => plan.mode = mode
  /\ Phase = "release" => touched \/ KVP!StillEnough(plan.kv)

LEMMA NextKeepsPlanned ==
  ASSUME Owned, PolicyInv, KVP!IInv, Planned, [Next]_vars
  PROVE  Planned'
<1>1. ASSUME UNCHANGED <<plan, mode>>, Phase' \in TickSteps => Phase \in TickSteps
      PROVE  (Phase \in TickSteps => plan.mode = mode)'
  BY <1>1 DEF Planned
<1>2. ASSUME NEW t \in Threads, Continue(t) PROVE Planned'
  <2>1. UNCHANGED <<plan, mode>>
    BY <1>2 DEF Continue, RecordAppend, ResizeApp, ResizeModel, PlanWarming, WarmGet,
                WarmPut, PlanKV, Release, TickReturn, ResetApp, ResetModel, ResetKV,
                ResetStorage, policyVars
  <2>2. Phase' \in TickSteps => Phase \in TickSteps
    BY <1>2, ContinueMoves DEF Continue, TickSteps, Warming
  <2>3. PICK budget : budget = plan.kv
    OBVIOUS
  <2>4. budget \in Nat
    BY <2>3, BudgetOfPlan, KVNumbers DEF KVP!KVAssumption
  <2>5. CASE PlanKV(t)
    <3>1. KV!Plan(budget)
      BY <2>3, <2>5 DEF PlanKV
    <3>2. KVP!Plans(budget) = KV!Plans(budget)
      BY SamePlans
    <3>3. KVP!Plan(budget)
      BY <3>1, <3>2 DEF KV!Plan, KVP!Plan
    <3>4. KVP!StillEnough(budget)'
      BY <2>4, <3>3, KVNumbers, KVP!PlanIsEnough
    <3>. QED BY <1>1, <2>1, <2>2, <2>3, <3>4 DEF Planned
  <2>6. CASE Release(t)
    <3>1. Phase = "release" /\ touched' = touched
      BY <2>6, ContinueMoves DEF Release, Goto
    <3>2. KVP!ReleaseNext
      BY <2>6 DEF Release, KV!ReleaseNext, KVP!ReleaseNext, KV!Release, KVP!Release,
                  KV!Tracked, KVP!Tracked
    <3>3. KVP!StillEnough(budget) => KVP!StillEnough(budget)'
      BY <3>2, KVNumbers, KVP!ReleaseKeepsEnough
    <3>. QED BY <1>1, <2>1, <2>2, <2>3, <3>1, <3>3 DEF Planned
  <2>7. CASE ~PlanKV(t) /\ ~Release(t)
    <3>1. Phase' # "release"
      BY <1>2, <2>7, ContinueMoves DEF Continue
    <3>. QED BY <1>1, <2>1, <2>2, <3>1 DEF Planned
  <2>. QED BY <2>5, <2>6, <2>7
<1>3. ASSUME NEW t \in Threads, Begin(t) PROVE Planned'
  <2>1. Phase' \in {"idle", "append", "resizeApp", "clearApp"}
    BY <1>3, BeginMoves DEF Begin
  <2>2. ASSUME NEW p \in Predictions, NEW confident \in BOOLEAN, Decide(t, p, confident)
        PROVE  Planned'
    <3>1. Phase' = "resizeApp"
      BY <2>2, BeginMoves
    <3>2. plan' = Policy!Decide(mode, confident, Config) /\ mode' = mode
      BY <2>2 DEF Decide, Policy!Tick
    <3>3. plan'.mode = mode'
      BY <3>2 DEF Policy!Decide
    <3>. QED BY <3>1, <3>3 DEF Planned
  <2>3. CASE ~\E p \in Predictions, confident \in BOOLEAN : Decide(t, p, confident)
    <3>1. Phase' \in {"idle", "append", "clearApp"}
      BY <1>3, <2>3, BeginMoves DEF Begin
    <3>. QED BY <3>1 DEF Planned, TickSteps, Warming
  <2>. QED BY <2>2, <2>3
<1>4. CASE HostCalls
  <2>1. touched'
    BY <1>4 DEF HostCalls, HostApp, HostModel, HostKV, HostResizeApp, HostResizeModel, Accessor
  <2>. QED BY <1>1, <1>4, <2>1, HostMoves DEF Planned
<1>5. CASE UNCHANGED vars
  <2>1. /\ UNCHANGED <<mu, pc>> /\ UNCHANGED <<plan, mode>>
        /\ UNCHANGED <<blocks, total, pending, touched>>
    BY <1>5 DEF vars, policyVars, kvVars
  <2>2. KVP!StillEnough(plan.kv)' <=> KVP!StillEnough(plan.kv)
    BY <2>1 DEF KVP!StillEnough, KVP!ToSet, KVP!Tracked, KVP!Tokens, KVP!Counts,
                KVP!Evictable, KVP!InSink, KVP!RecentFrom
  <2>. QED BY <1>1, <2>1, <2>2, StayMoves DEF Planned
<1>. QED BY <1>2, <1>3, <1>4, <1>5 DEF Next

-----------------------------------------------------------------------------
(* The inductive invariant of the facade together with what it rules over.   *)
WholeInv ==
  IInv /\ PolicyInv /\ KVP!IInv /\ Registered /\ Leftovers /\ Planned

LEMMA InitWholeInv == Init => WholeInv
<1>. SUFFICES ASSUME Init PROVE WholeInv
  OBVIOUS
<1>1. IInv
  BY InitIInv
<1>2. Phase = "idle"
  BY DEF Init, Phase
<1>3. PolicyInv
  BY PolicyInit DEF Init
<1>4. KVP!IInv
  BY KVInit DEF Init
<1>5. Registered
  BY DEF Init, Registered
<1>6. Leftovers
  BY <1>2 DEF Init, Leftovers, KV!Init
<1>7. Planned
  BY <1>2 DEF Planned, TickSteps, Warming
<1>. QED BY <1>1, <1>3, <1>4, <1>5, <1>6, <1>7 DEF WholeInv

LEMMA NextWholeInv == WholeInv /\ [Next]_vars => WholeInv'
<1>. SUFFICES ASSUME WholeInv, [Next]_vars PROVE WholeInv'
  OBVIOUS
<1>1. IInv'
  BY NextIInv DEF WholeInv
<1>2. PolicyInv'
  BY PolicySteps, PolicyNext DEF WholeInv
<1>3. KVP!IInv'
  BY KVNext DEF WholeInv
<1>4. Registered'
  BY NextKeepsRegistered DEF WholeInv
<1>5. Leftovers'
  BY NextKeepsLeftovers DEF WholeInv, IInv
<1>6. Planned'
  BY NextKeepsPlanned DEF WholeInv, IInv
<1>. QED BY <1>1, <1>2, <1>3, <1>4, <1>5, <1>6 DEF WholeInv

LEMMA AlwaysWholeInv == Spec => []WholeInv
BY InitWholeInv, NextWholeInv, PTL DEF Spec

(* The lock has one owner, which alone is inside a call; every component's   *)
(* state has its type; a call that returns leaves nothing of a tick behind.  *)
THEOREM TypeCorrect == Spec => []TypeOK
<1>1. WholeInv => TypeOK
  <2>. SUFFICES ASSUME WholeInv PROVE TypeOK
    OBVIOUS
  <2>1. Owned /\ Policy!TypeOK
    BY DEF WholeInv, IInv, PolicyInv
  <2>2. history \in Seq(Apps) /\ events \in Seq(Apps)
    BY DEF WholeInv, IInv, Logs
  <2>3. todo \in Seq(Apps)
    <3>1. CASE Phase \in Warming
      <4>1. todo \in Seq(ToSet(history))
        BY <3>1 DEF WholeInv, IInv, Known
      <4>2. ToSet(history) \subseteq Apps
        BY <2>2 DEF ToSet
      <4>. QED BY <4>1, <4>2, SeqMonotonic
    <3>2. CASE Phase \notin Warming
      BY <3>2 DEF WholeInv, Leftovers
    <3>. QED BY <3>1, <3>2
  <2>4. mu = None => todo = << >> /\ pending = << >>
    BY <2>1, AtRest DEF WholeInv, Leftovers, Warming
  <2>. QED BY <2>1, <2>2, <2>3, <2>4 DEF TypeOK, Owned, WholeInv, Registered
<1>. QED BY <1>1, AlwaysWholeInv, PTL

(* What hosts and ticks do to the device, the mode and the plan is what the   *)
(* power policy allows, so its theorems hold of the orchestrator.           *)
THEOREM ImplementsPolicy == Spec => Policy!Spec
<1>1. Init => Policy!Init
  BY DEF Init
<1>. QED BY <1>1, PolicySteps, PTL DEF Spec, Policy!Spec

(* What hosts, ticks and reset() do to the KV manager is what its module       *)
(* allows, tick() asking for the budget of one of the modes.                *)
THEOREM ImplementsKVManager == Spec => KV!Spec
<1>1. Init => KV!Init
  BY DEF Init
<1>2. WholeInv /\ [Next]_vars => [KV!Next]_(KV!vars)
  BY KVSteps DEF WholeInv
<1>. QED BY <1>1, <1>2, AlwaysWholeInv, PTL DEF Spec, KV!Spec

LEMMA TickReturns ==
  ASSUME Owned, [Next]_vars, NEW t \in Threads, pc[t] = "release", pc'[t] = "idle"
  PROVE  \E u \in Threads : TickReturn(u)
<1>1. Phase = "release"
  BY OrchestratorAssumption DEF Owned, Phase
<1>2. ASSUME UNCHANGED pc PROVE FALSE
  BY <1>2
<1>3. ASSUME NEW u \in Threads, Begin(u) PROVE FALSE
  BY <1>1, <1>3, BeginMoves DEF Begin
<1>4. ASSUME NEW u \in Threads, Continue(u), ~TickReturn(u) PROVE FALSE
  <2>1. Release(u)
    BY <1>1, <1>4, ContinueMoves DEF Continue
  <2>2. Owned' /\ Phase' = "release"
    BY <2>1, ContinueMoves
  <2>3. mu' = t
    BY <2>1 DEF Owned, Release, Goto
  <2>. QED BY <2>2, <2>3 DEF Owned
<1>5. HostCalls => UNCHANGED pc
  BY DEF HostCalls, HostApp, HostModel, HostKV, HostResizeApp, HostResizeModel, Accessor
<1>6. UNCHANGED vars => UNCHANGED pc
  BY DEF vars
<1>. QED BY <1>2, <1>3, <1>4, <1>5, <1>6 DEF Next

(* When tick() returns and no host interfered, the tracked KV blocks are      *)
(* within the budget of the mode in force, or none of them may be evicted.  *)
THEOREM TickKeepsBudget == Spec => TickEnforcesBudget
<1>1. ASSUME WholeInv, [Next]_vars, NEW t \in Threads, pc[t] = "release", pc'[t] = "idle"
      PROVE  \/ touched
             \/ total <= Policy!KVBudget(mode, Config)
             \/ \A i \in DOMAIN blocks : ~KV!Evictable(blocks[i], plan.kv)
  <2>1. PICK u \in Threads : TickReturn(u)
    BY <1>1, TickReturns DEF WholeInv, IInv
  <2>2. Phase = "release" /\ pending = << >>
    BY <1>1, <2>1, ContinueMoves DEF WholeInv, IInv, TickReturn
  <2>3. PICK budget : budget = plan.kv
    OBVIOUS
  <2>4. plan.mode = mode /\ (touched \/ KVP!StillEnough(budget))
    BY <1>1, <2>2, <2>3 DEF WholeInv, Planned, TickSteps
  <2>5. budget = Policy!KVBudget(mode, Config)
    BY <1>1, <2>3, <2>4, BudgetOfPlan DEF WholeInv
  <2>6. KVP!StillEnough(budget) =>
          \/ total <= budget
          \/ \A i \in KVP!Tracked : ~KVP!Evictable(blocks[i], budget)
    BY <1>1, <2>2, KVNumbers, KVP!EnoughAtEnd DEF WholeInv
  <2>7. \A i : KVP!Evictable(blocks[i], budget) <=> KV!Evictable(blocks[i], budget)
    BY DEF KVP!Evictable, KVP!InSink, KVP!RecentFrom,
           KV!Evictable, KV!InSink, KV!RecentFrom
  <2>. QED BY <2>3, <2>4, <2>5, <2>6, <2>7 DEF KVP!Tracked
<1>2. WholeInv /\ [Next]_vars =>
        [\A t \in Threads : pc[t] = "release" /\ pc'[t] = "idle" =>
           \/ touched
           \/ total <= Policy!KVBudget(mode, Config)
           \/ \A i \in DOMAIN blocks : ~KV!Evictable(blocks[i], plan.kv)]_vars
  BY <1>1
<1>. QED BY <1>2, AlwaysWholeInv, PTL DEF Spec, TickEnforcesBudget
=============================================================================
