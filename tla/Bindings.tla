------------------------------ MODULE Bindings ------------------------------
(***************************************************************************)
(* One Orchestrator object of the Android binding (Orchestrator.kt,         *)
(* memogent_jni.cpp) over the C ABI (memogent_c.cpp), used by threads of    *)
(* the host: its AtomicLong handle, the native wrapper behind it, the       *)
(* config it is made from, and the strings the C ABI returns pointers to:   *)
(* thread_local ones for predictions, one per wrapper for the KPIs.         *)
(* The core behind the wrapper is a counter of the opens it has recorded:   *)
(* predictions and KPIs are told apart by the count they were made at.      *)
(* Nothing makes close() wait for calls that are under way.  A call that     *)
(* goes on after the wrapper is deleted reads anything; what else undefined  *)
(* behaviour may do to the process is not followed.                        *)
(***************************************************************************)
EXTENDS Naturals

CONSTANTS Threads, None,
          MaxOpens      \* bound of the model: opens recorded

ASSUME BindingsAssumption == None \notin Threads /\ MaxOpens \in Nat

VARIABLES
  pc,                   \* the step each thread is at
  handle,               \* the AtomicLong: is it set?
  native,               \* of each thread: what it got for a handle
  live, deletes,        \* is the wrapper allocated; how often was it deleted
  configs,              \* threads whose mem_config_t is allocated
  core,                 \* mem::Orchestrator
  mu,                   \* the owner of the wrapper's mu
  apps,                 \* apps_cache, reasons_cache of each thread
  kpis,                 \* kpis_json_cache
  computed, copied      \* of each thread: the answer of the core, the copy
                        \* of it that the caller got

handleVars == <<handle, native, live, deletes, configs>>
textVars == <<mu, apps, kpis>>
resultVars == <<computed, copied>>
vars == <<pc, handleVars, core, textVars, resultVars>>

Torn == MaxOpens + 1    \* text that is being written
Texts == 0..Torn
Creating == {"configure", "create", "destroyConfig", "publish"}
OnWrapper == {"pass", "predict", "fill", "kpis", "store", "copyKpis"}
Steps == {"idle", "copy", "destroy"} \cup Creating \cup OnWrapper

Step(t, from, to) == pc[t] = from /\ pc' = [pc EXCEPT ![t] = to]

(* What may be read of the wrapper: its text, anything once it is deleted.  *)
Readable(text) == IF live THEN {text} ELSE Texts

-----------------------------------------------------------------------------
(* Orchestrator.create(), nativeCreate(): until it returns, nobody else has  *)
(* the object.                                                             *)
ConfigCreate(t) ==
  /\ \A u \in Threads : pc[u] = "idle"
  /\ ~live /\ deletes = 0
  /\ Step(t, "idle", "configure")
  /\ configs' = configs \cup {t}
  /\ UNCHANGED <<handle, native, live, deletes, core, textVars, resultVars>>

(* mem_config_set_string(): the statuses are ignored; what was set shows in  *)
(* whether the core can be made.                                           *)
Configure(t) ==
  /\ Step(t, "configure", "create")
  /\ UNCHANGED <<handleVars, core, textVars, resultVars>>

(* The config is copied; an unknown predictor or policy is an error.        *)
Create(t) ==
  /\ Step(t, "create", "destroyConfig")
  /\ \E ok \in BOOLEAN : live' = ok /\ native' = [native EXCEPT ![t] = ok]
  /\ UNCHANGED <<handle, deletes, configs, core, textVars, resultVars>>

(* Mutant: a failure returns before the config is destroyed.                *)
ConfigDestroyIfCreated(t) ==
  /\ Step(t, "destroyConfig", "publish")
  /\ configs' = IF native[t] THEN configs \ {t} ELSE configs
  /\ UNCHANGED <<handle, native, live, deletes, core, textVars, resultVars>>

ConfigDestroy(t) ==
  /\ Step(t, "destroyConfig", "publish")
  /\ configs' = configs \ {t}
  /\ UNCHANGED <<handle, native, live, deletes, core, textVars, resultVars>>

(* h.set(native), or an exception. *)
Publish(t) ==
  /\ Step(t, "publish", "idle")
  /\ handle' = native[t]
  /\ native' = [native EXCEPT ![t] = FALSE]
  /\ UNCHANGED <<live, deletes, configs, core, textVars, resultVars>>

-----------------------------------------------------------------------------
(* A call reads the handle once, and returns at once when it is 0.          *)
Enter(t, to) ==
  /\ \A u \in Threads : pc[u] \notin Creating
  /\ Step(t, "idle", IF handle THEN to ELSE "idle")
  /\ native' = [native EXCEPT ![t] = handle]
  /\ UNCHANGED <<handle, live, deletes, configs, core, textVars, resultVars>>

(* record_*, update_device_state, tick, reset: passed on to the core, which  *)
(* counts an open, forgets all, or keeps its count.                        *)
PassOn(t) ==
  /\ Step(t, "pass", "idle")
  /\ \E c \in {0, core, core + 1} : c <= MaxOpens /\ core' = c
  /\ UNCHANGED <<handleVars, textVars, resultVars>>

(* mem_orchestrator_predict_next(): the core answers before mu is taken.    *)
Predict(t) ==
  /\ Step(t, "predict", "fill")
  /\ \E x \in Readable(core) : computed' = [computed EXCEPT ![t] = x]
  /\ UNCHANGED <<handleVars, core, textVars, copied>>

(* Mutant: the caches are static, but not thread_local.                     *)
StaticBuffer(t) == CHOOSE u \in Threads : TRUE

Buffer(t) == t

Fill(t) ==
  /\ mu = None
  /\ Step(t, "fill", "copy")
  /\ apps' = [apps EXCEPT ![Buffer(t)] = computed[t]]
  /\ UNCHANGED <<handleVars, core, mu, kpis, resultVars>>

(* nativePredictNext() copies what the pointers point to.                   *)
CopyApps(t) ==
  /\ Step(t, "copy", "idle")
  /\ copied' = [copied EXCEPT ![t] = apps[Buffer(t)]]
  /\ UNCHANGED <<handleVars, core, textVars, computed>>

(* Mutant: there is no lock_guard. *)
KpisUnlocked(t) ==
  /\ mu' = t
  /\ Step(t, "kpis", "store")
  /\ kpis' = Torn
  /\ UNCHANGED <<handleVars, core, apps, resultVars>>

(* mem_orchestrator_kpis_json(): the string is assigned under mu, and read   *)
(* by nativeKpisJson() after mu is released.                               *)
Kpis(t) ==
  /\ mu = None
  /\ mu' = t
  /\ Step(t, "kpis", "store")
  /\ kpis' = Torn
  /\ UNCHANGED <<handleVars, core, apps, resultVars>>

StoreKpis(t) ==
  /\ Step(t, "store", "copyKpis")
  /\ mu' = None
  /\ \E x \in Readable(core) :
        kpis' = x /\ computed' = [computed EXCEPT ![t] = x]
  /\ UNCHANGED <<handleVars, core, apps, copied>>

CopyKpis(t) ==
  /\ Step(t, "copyKpis", "idle")
  /\ \E x \in Readable(kpis) : copied' = [copied EXCEPT ![t] = x]
  /\ UNCHANGED <<handleVars, core, textVars, computed>>

-----------------------------------------------------------------------------
(* Mutant: get() instead of getAndSet(0). *)
CloseByGet(t) ==
  /\ Step(t, "idle", IF handle THEN "destroy" ELSE "idle")
  /\ UNCHANGED <<handleVars, core, textVars, resultVars>>

(* close(): getAndSet(0), and nativeDestroy() of what it got.  Several       *)
(* threads may close, and others may be inside a call.                     *)
Close(t) ==
  /\ Step(t, "idle", IF handle THEN "destroy" ELSE "idle")
  /\ handle' = FALSE
  /\ UNCHANGED <<native, live, deletes, configs, core, textVars, resultVars>>

Destroy(t) ==
  /\ Step(t, "destroy", "idle")
  /\ live' = FALSE
  /\ deletes' = deletes + 1
  /\ UNCHANGED <<handle, native, configs, core, textVars, resultVars>>

-----------------------------------------------------------------------------
Init ==
  /\ pc = [t \in Threads |-> "idle"]
  /\ handle = FALSE /\ native = [t \in Threads |-> FALSE]
  /\ live = FALSE /\ deletes = 0 /\ configs = {}
  /\ core = 0 /\ mu = None
  /\ apps = [t \in Threads |-> 0] /\ kpis = 0
  /\ computed = [t \in Threads |-> 0] /\ copied = [t \in Threads |-> 0]

Next ==
  \E t \in Threads :
    \/ ConfigCreate(t) \/ Configure(t) \/ Create(t) \/ ConfigDestroy(t) \/ Publish(t)
    \/ Enter(t, "pass") \/ PassOn(t)
    \/ Enter(t, "predict") \/ Predict(t) \/ Fill(t) \/ CopyApps(t)
    \/ Enter(t, "kpis") \/ Kpis(t) \/ StoreKpis(t) \/ CopyKpis(t)
    \/ Close(t) \/ Destroy(t)

Spec == Init /\ [][Next]_vars

-----------------------------------------------------------------------------
(* Type invariant; the wrapper's mu is held by the thread inside kpis_json. *)
TypeOK ==
  /\ pc \in [Threads -> Steps]
  /\ handle \in BOOLEAN /\ native \in [Threads -> BOOLEAN]
  /\ live \in BOOLEAN /\ deletes \in Nat /\ configs \subseteq Threads
  /\ core \in 0..MaxOpens /\ mu \in Threads \cup {None}
  /\ apps \in [Threads -> Texts] /\ kpis \in Texts
  /\ computed \in [Threads -> Texts] /\ copied \in [Threads -> Texts]
  /\ \A t \in Threads : pc[t] = "store" <=> mu = t

(* However calls to close() overlap, one of them takes the wrapper out of    *)
(* the handle: it finds it allocated, and it is never deleted twice.        *)
DeletedOnce ==
  /\ \A t \in Threads : pc[t] = "destroy" =>
        live /\ \A u \in Threads : u # t => pc[u] # "destroy"
  /\ deletes <= 1

(* INTEGRATION_ANDROID.md: "`Orchestrator` is thread-safe."  A call that is   *)
(* under way works on a wrapper that is still allocated.                    *)
LiveWhileUsed == \A t \in Threads : pc[t] \in OnWrapper => live

(* Nothing leaks: with no call under way every config is gone again, made    *)
(* or not, and the wrapper is allocated only as long as the handle names it. *)
NothingLeaks ==
  (\A t \in Threads : pc[t] = "idle") => configs = {} /\ (live <=> handle)

(* A caller copies the predictions its own call computed, whatever others    *)
(* predict between the call's return and the copy.                         *)
OwnPredictions ==
  [][\A t \in Threads : pc[t] = "copy" /\ pc'[t] = "idle" => copied'[t] = computed[t]]_vars

(* INTEGRATION_ANDROID.md: "`Orchestrator` is thread-safe."  A caller of     *)
(* kpisJson() gets a whole text, of an object that nobody closes meanwhile.  *)
KpisAreWhole ==
  [][\A t \in Threads :
       pc[t] = "copyKpis" /\ pc'[t] = "idle" /\ live => copied'[t] # Torn]_vars
=============================================================================
