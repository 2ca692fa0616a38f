--------------------------- MODULE BindingsProofs ---------------------------
(***************************************************************************)
(* Proofs about Bindings, for any number of threads.  The wrapper has one   *)
(* owner at a time: the thread that makes it, the handle, the thread that   *)
(* took it out of the handle.  The invariant says so step by step.  Calls   *)
(* under way own nothing, so they are not in it.                           *)
(***************************************************************************)
EXTENDS Bindings, TLAPS

(* The thread that makes the object is alone with it.                       *)
Alone ==
  \A t \in Threads : pc[t] \in Creating =>
     ~handle /\ deletes = 0 /\ \A u \in Threads : u # t => pc[u] = "idle"

(* A config is allocated from its creation to its destruction.              *)
Configured ==
  configs = {t \in Threads : pc[t] \in {"configure", "create", "destroyConfig"}}

(* Who took the wrapper out of the handle to delete it is the only one, and   *)
(* finds it allocated.                                                     *)
Owned ==
  \A t \in Threads :
    pc[t] = "destroy" =>
       ~handle /\ live /\ \A u \in Threads : u # t => pc[u] # "destroy"

(* The wrapper is allocated once, and as long as it has an owner.           *)
Held ==
  /\ handle => live
  /\ live => deletes = 0
  /\ deletes <= 1
  /\ \A t \in Threads :
       /\ pc[t] \in {"configure", "create"} => ~live
       /\ pc[t] \in {"destroyConfig", "publish"} => (live <=> native[t])
  /\ live => handle \/ \E t \in Threads : pc[t] \in {"destroyConfig", "publish", "destroy"}

(* The pointers handed out point to what was computed for the caller.       *)
Filled == \A t \in Threads : pc[t] = "copy" => apps[t] = computed[t]

IInv == TypeOK /\ Alone /\ Configured /\ Owned /\ Held /\ Filled

USE DEF Step, Creating, OnWrapper, Steps, Texts, Torn, handleVars, textVars,
        resultVars, Buffer, Readable

LEMMA InitIInv == Init => IInv
<1> SUFFICES ASSUME Init PROVE IInv
  OBVIOUS
<1>1. TypeOK
  <2>1. pc \in [Threads -> Steps] /\ native \in [Threads -> BOOLEAN]
    BY DEF Init
  <2>2. /\ apps \in [Threads -> Texts] /\ kpis \in Texts
        /\ computed \in [Threads -> Texts] /\ copied \in [Threads -> Texts]
    BY BindingsAssumption DEF Init
  <2>3. core \in 0..MaxOpens /\ mu \in Threads \cup {None} /\ deletes \in Nat
    BY BindingsAssumption DEF Init
  <2>4. \A t \in Threads : pc[t] = "store" <=> mu = t
    BY BindingsAssumption DEF Init
  <2> QED
    BY <2>1, <2>2, <2>3, <2>4 DEF Init, TypeOK
<1>2. Alone /\ Configured /\ Owned
  BY DEF Init, Alone, Configured, Owned
<1>3. Held /\ Filled
  BY DEF Init, Held, Filled
<1> QED
  BY <1>1, <1>2, <1>3 DEF IInv

(* One step per action, and under it one per part of the invariant.         *)
LEMMA NextIInv == IInv /\ [Next]_vars => IInv'
<1> SUFFICES ASSUME IInv, [Next]_vars PROVE IInv'
  OBVIOUS
<1> USE BindingsAssumption
<1>0. CASE UNCHANGED vars
  BY <1>0 DEF vars, IInv, TypeOK, Alone, Configured, Owned, Held, Filled
<1>1. ASSUME NEW t \in Threads, ConfigCreate(t) PROVE IInv'
  <2>1. TypeOK'
    BY <1>1 DEF IInv, TypeOK, ConfigCreate
  <2>2. Alone'
    BY <1>1 DEF IInv, TypeOK, Alone, Owned, Held, ConfigCreate
  <2>3. Configured'
    BY <1>1 DEF IInv, TypeOK, Alone, Configured, ConfigCreate
  <2>4. Owned'
    BY <1>1 DEF IInv, TypeOK, Alone, Owned, Held, ConfigCreate
  <2>5. Held'
    BY <1>1 DEF IInv, TypeOK, Alone, Owned, Held, ConfigCreate
  <2>6. Filled'
    BY <1>1 DEF IInv, TypeOK, Filled, ConfigCreate
  <2> QED
    BY <2>1, <2>2, <2>3, <2>4, <2>5, <2>6 DEF IInv
<1>2. ASSUME NEW t \in Threads, Configure(t) PROVE IInv'
  <2>1. TypeOK'
    BY <1>2 DEF IInv, TypeOK, Configure
  <2>2. Alone'
    BY <1>2 DEF IInv, TypeOK, Alone, Owned, Held, Configure
  <2>3. Configured'
    BY <1>2 DEF IInv, TypeOK, Alone, Configured, Configure
  <2>4. Owned'
    BY <1>2 DEF IInv, TypeOK, Alone, Owned, Held, Configure
  <2>5. Held'
    BY <1>2 DEF IInv, TypeOK, Alone, Owned, Held, Configure
  <2>6. Filled'
    BY <1>2 DEF IInv, TypeOK, Filled, Configure
  <2> QED
    BY <2>1, <2>2, <2>3, <2>4, <2>5, <2>6 DEF IInv
<1>3. ASSUME NEW t \in Threads, Create(t) PROVE IInv'
  <2>1. TypeOK'
    BY <1>3 DEF IInv, TypeOK, Create
  <2>2. Alone'
    BY <1>3 DEF IInv, TypeOK, Alone, Owned, Held, Create
  <2>3. Configured'
    BY <1>3 DEF IInv, TypeOK, Alone, Configured, Create
  <2>4. Owned'
    BY <1>3 DEF IInv, TypeOK, Alone, Owned, Held, Create
  <2>5. Held'
    BY <1>3 DEF IInv, TypeOK, Alone, Owned, Held, Create
  <2>6. Filled'
    BY <1>3 DEF IInv, TypeOK, Filled, Create
  <2> QED
    BY <2>1, <2>2, <2>3, <2>4, <2>5, <2>6 DEF IInv
<1>4. ASSUME NEW t \in Threads, ConfigDestroy(t) PROVE IInv'
  <2>1. TypeOK'
    BY <1>4 DEF IInv, TypeOK, ConfigDestroy
  <2>2. Alone'
    BY <1>4 DEF IInv, TypeOK, Alone, Owned, Held, ConfigDestroy
  <2>3. Configured'
    BY <1>4 DEF IInv, TypeOK, Alone, Configured, ConfigDestroy
  <2>4. Owned'
    BY <1>4 DEF IInv, TypeOK, Alone, Owned, Held, ConfigDestroy
  <2>5. Held'
    BY <1>4 DEF IInv, TypeOK, Alone, Owned, Held, ConfigDestroy
  <2>6. Filled'
    BY <1>4 DEF IInv, TypeOK, Filled, ConfigDestroy
  <2> QED
    BY <2>1, <2>2, <2>3, <2>4, <2>5, <2>6 DEF IInv
<1>5. ASSUME NEW t \in Threads, Publish(t) PROVE IInv'
  <2>1. TypeOK'
    BY <1>5 DEF IInv, TypeOK, Publish
  <2>2. Alone'
    BY <1>5 DEF IInv, TypeOK, Alone, Owned, Held, Publish
  <2>3. Configured'
    BY <1>5 DEF IInv, TypeOK, Alone, Configured, Publish
  <2>4. Owned'
    BY <1>5 DEF IInv, TypeOK, Alone, Owned, Held, Publish
  <2>5. Held'
    BY <1>5 DEF IInv, TypeOK, Alone, Owned, Held, Publish
  <2>6. Filled'
    BY <1>5 DEF IInv, TypeOK, Filled, Publish
  <2> QED
    BY <2>1, <2>2, <2>3, <2>4, <2>5, <2>6 DEF IInv
<1>6. ASSUME NEW t \in Threads, NEW to \in {"pass", "predict", "kpis"}, Enter(t, to) PROVE IInv'
  <2>1. TypeOK'
    BY <1>6 DEF IInv, TypeOK, Enter
  <2>2. Alone'
    BY <1>6 DEF IInv, TypeOK, Alone, Owned, Held, Enter
  <2>3. Configured'
    BY <1>6 DEF IInv, TypeOK, Alone, Configured, Enter
  <2>4. Owned'
    BY <1>6 DEF IInv, TypeOK, Alone, Owned, Held, Enter
  <2>5. Held'
    BY <1>6 DEF IInv, TypeOK, Alone, Owned, Held, Enter
  <2>6. Filled'
    BY <1>6 DEF IInv, TypeOK, Filled, Enter
  <2> QED
    BY <2>1, <2>2, <2>3, <2>4, <2>5, <2>6 DEF IInv
<1>7. ASSUME NEW t \in Threads, PassOn(t) PROVE IInv'
  <2>1. TypeOK'
    BY <1>7 DEF IInv, TypeOK, PassOn
  <2>2. Alone'
    BY <1>7 DEF IInv, TypeOK, Alone, Owned, Held, PassOn
  <2>3. Configured'
    BY <1>7 DEF IInv, TypeOK, Alone, Configured, PassOn
  <2>4. Owned'
    BY <1>7 DEF IInv, TypeOK, Alone, Owned, Held, PassOn
  <2>5. Held'
    BY <1>7 DEF IInv, TypeOK, Alone, Owned, Held, PassOn
  <2>6. Filled'
    BY <1>7 DEF IInv, TypeOK, Filled, PassOn
  <2> QED
    BY <2>1, <2>2, <2>3, <2>4, <2>5, <2>6 DEF IInv
<1>8. ASSUME NEW t \in Threads, Predict(t) PROVE IInv'
  <2>1. TypeOK'
    BY <1>8 DEF IInv, TypeOK, Predict
  <2>2. Alone'
    BY <1>8 DEF IInv, TypeOK, Alone, Owned, Held, Predict
  <2>3. Configured'
    BY <1>8 DEF IInv, TypeOK, Alone, Configured, Predict
  <2>4. Owned'
    BY <1>8 DEF IInv, TypeOK, Alone, Owned, Held, Predict
  <2>5. Held'
    BY <1>8 DEF IInv, TypeOK, Alone, Owned, Held, Predict
  <2>6. Filled'
    BY <1>8 DEF IInv, TypeOK, Filled, Predict
  <2> QED
    BY <2>1, <2>2, <2>3, <2>4, <2>5, <2>6 DEF IInv
<1>9. ASSUME NEW t \in Threads, Fill(t) PROVE IInv'
  <2>1. TypeOK'
    BY <1>9 DEF IInv, TypeOK, Fill
  <2>2. Alone'
    BY <1>9 DEF IInv, TypeOK, Alone, Owned, Held, Fill
  <2>3. Configured'
    BY <1>9 DEF IInv, TypeOK, Alone, Configured, Fill
  <2>4. Owned'
    BY <1>9 DEF IInv, TypeOK, Alone, Owned, Held, Fill
  <2>5. Held'
    BY <1>9 DEF IInv, TypeOK, Alone, Owned, Held, Fill
  <2>6. Filled'
    BY <1>9 DEF IInv, TypeOK, Filled, Fill
  <2> QED
    BY <2>1, <2>2, <2>3, <2>4, <2>5, <2>6 DEF IInv
<1>10. ASSUME NEW t \in Threads, CopyApps(t) PROVE IInv'
  <2>1. TypeOK'
    BY <1>10 DEF IInv, TypeOK, CopyApps
  <2>2. Alone'
    BY <1>10 DEF IInv, TypeOK, Alone, Owned, Held, CopyApps
  <2>3. Configured'
    BY <1>10 DEF IInv, TypeOK, Alone, Configured, CopyApps
  <2>4. Owned'
    BY <1>10 DEF IInv, TypeOK, Alone, Owned, Held, CopyApps
  <2>5. Held'
    BY <1>10 DEF IInv, TypeOK, Alone, Owned, Held, CopyApps
  <2>6. Filled'
    BY <1>10 DEF IInv, TypeOK, Filled, CopyApps
  <2> QED
    BY <2>1, <2>2, <2>3, <2>4, <2>5, <2>6 DEF IInv
<1>11. ASSUME NEW t \in Threads, Kpis(t) PROVE IInv'
  <2>1. TypeOK'
    BY <1>11 DEF IInv, TypeOK, Kpis
  <2>2. Alone'
    BY <1>11 DEF IInv, TypeOK, Alone, Owned, Held, Kpis
  <2>3. Configured'
    BY <1>11 DEF IInv, TypeOK, Alone, Configured, Kpis
  <2>4. Owned'
    BY <1>11 DEF IInv, TypeOK, Alone, Owned, Held, Kpis
  <2>5. Held'
    BY <1>11 DEF IInv, TypeOK, Alone, Owned, Held, Kpis
  <2>6. Filled'
    BY <1>11 DEF IInv, TypeOK, Filled, Kpis
  <2> QED
    BY <2>1, <2>2, <2>3, <2>4, <2>5, <2>6 DEF IInv
<1>12. ASSUME NEW t \in Threads, StoreKpis(t) PROVE IInv'
  <2>1. TypeOK'
    BY <1>12 DEF IInv, TypeOK, StoreKpis
  <2>2. Alone'
    BY <1>12 DEF IInv, TypeOK, Alone, Owned, Held, StoreKpis
  <2>3. Configured'
    BY <1>12 DEF IInv, TypeOK, Alone, Configured, StoreKpis
  <2>4. Owned'
    BY <1>12 DEF IInv, TypeOK, Alone, Owned, Held, StoreKpis
  <2>5. Held'
    BY <1>12 DEF IInv, TypeOK, Alone, Owned, Held, StoreKpis
  <2>6. Filled'
    BY <1>12 DEF IInv, TypeOK, Filled, StoreKpis
  <2> QED
    BY <2>1, <2>2, <2>3, <2>4, <2>5, <2>6 DEF IInv
<1>13. ASSUME NEW t \in Threads, CopyKpis(t) PROVE IInv'
  <2>1. TypeOK'
    BY <1>13 DEF IInv, TypeOK, CopyKpis
  <2>2. Alone'
    BY <1>13 DEF IInv, TypeOK, Alone, Owned, Held, CopyKpis
  <2>3. Configured'
    BY <1>13 DEF IInv, TypeOK, Alone, Configured, CopyKpis
  <2>4. Owned'
    BY <1>13 DEF IInv, TypeOK, Alone, Owned, Held, CopyKpis
  <2>5. Held'
    BY <1>13 DEF IInv, TypeOK, Alone, Owned, Held, CopyKpis
  <2>6. Filled'
    BY <1>13 DEF IInv, TypeOK, Filled, CopyKpis
  <2> QED
    BY <2>1, <2>2, <2>3, <2>4, <2>5, <2>6 DEF IInv
<1>14. ASSUME NEW t \in Threads, Close(t) PROVE IInv'
  <2>1. TypeOK'
    BY <1>14 DEF IInv, TypeOK, Close
  <2>2. Alone'
    BY <1>14 DEF IInv, TypeOK, Alone, Owned, Held, Close
  <2>3. Configured'
    BY <1>14 DEF IInv, TypeOK, Alone, Configured, Close
  <2>4. Owned'
    BY <1>14 DEF IInv, TypeOK, Alone, Owned, Held, Close
  <2>5. Held'
    BY <1>14 DEF IInv, TypeOK, Alone, Owned, Held, Close
  <2>6. Filled'
    BY <1>14 DEF IInv, TypeOK, Filled, Close
  <2> QED
    BY <2>1, <2>2, <2>3, <2>4, <2>5, <2>6 DEF IInv
<1>15. ASSUME NEW t \in Threads, Destroy(t) PROVE IInv'
  <2>1. TypeOK'
    <3>0. deletes' = deletes + 1 /\ deletes \in Nat
      BY <1>15 DEF IInv, TypeOK, Destroy
    <3>1. deletes' \in Nat
      BY <3>0
    <3>3. pc' \in [Threads -> Steps]
      BY <1>15 DEF IInv, TypeOK, Destroy
    <3>4. live' \in BOOLEAN
      BY <1>15, ZenonT(30) DEF Destroy
    <3>2. \A u \in Threads : pc'[u] = "store" <=> mu' = u
      BY <1>15 DEF IInv, TypeOK, Destroy
    <3> QED
      BY <1>15, <3>1, <3>2, <3>3, <3>4 DEF IInv, TypeOK, Destroy
  <2>2. Alone'
    BY <1>15 DEF IInv, TypeOK, Alone, Owned, Held, Destroy
  <2>3. Configured'
    BY <1>15 DEF IInv, TypeOK, Alone, Configured, Destroy
  <2>4. Owned'
    BY <1>15 DEF IInv, TypeOK, Alone, Owned, Held, Destroy
  <2>5. Held'
    BY <1>15 DEF IInv, TypeOK, Alone, Owned, Held, Destroy
  <2>6. Filled'
    BY <1>15 DEF IInv, TypeOK, Filled, Destroy
  <2> QED
    BY <2>1, <2>2, <2>3, <2>4, <2>5, <2>6 DEF IInv
<1> QED
  BY <1>0, <1>1, <1>2, <1>3, <1>4, <1>5, <1>6, <1>7, <1>8, <1>9, <1>10, <1>11, <1>12, <1>13, <1>14, <1>15 DEF Next

THEOREM Invariance == Spec => []IInv
  BY InitIInv, NextIInv, PTL DEF Spec

(* Every variable keeps its type, and only the thread inside kpis_json holds *)
(* the wrapper's mu.                                                       *)
THEOREM TypeCorrect == Spec => []TypeOK
<1>1. IInv => TypeOK
  BY DEF IInv
<1> QED
  BY <1>1, Invariance, PTL

(* However many threads call close(), and whatever calls are under way, one   *)
(* of them takes the wrapper, finds it allocated and deletes it; nobody      *)
(* deletes it again.                                                       *)
THEOREM WrapperIsDeletedOnce == Spec => []DeletedOnce
<1>1. IInv => DeletedOnce
  BY DEF IInv, Owned, Held, DeletedOnce
<1> QED
  BY <1>1, Invariance, PTL

(* With no call under way every config is destroyed, whether the core could  *)
(* be made from it or not, and the wrapper is allocated exactly while the    *)
(* handle names it.                                                        *)
THEOREM NothingIsLeaked == Spec => []NothingLeaks
<1>1. IInv => NothingLeaks
  BY DEF IInv, Configured, Held, NothingLeaks
<1> QED
  BY <1>1, Invariance, PTL

(* A caller copies the predictions its own call computed.                    *)
THEOREM PredictionsAreOwn == Spec => OwnPredictions
<1>1. IInv /\ [Next]_vars =>
        [\A t \in Threads : pc[t] = "copy" /\ pc'[t] = "idle"
                             => copied'[t] = computed[t]]_vars
  <2> SUFFICES ASSUME IInv, [Next]_vars, NEW u \in Threads,
                      pc[u] = "copy", pc'[u] = "idle", vars' # vars
               PROVE  copied'[u] = computed[u]
    BY DEF vars
  <2>1. PICK t \in Threads :
          \/ ConfigCreate(t) \/ Configure(t) \/ Create(t) \/ ConfigDestroy(t) \/ Publish(t)
          \/ Enter(t, "pass") \/ PassOn(t)
          \/ Enter(t, "predict") \/ Predict(t) \/ Fill(t) \/ CopyApps(t)
          \/ Enter(t, "kpis") \/ Kpis(t) \/ StoreKpis(t) \/ CopyKpis(t)
          \/ Close(t) \/ Destroy(t)
    BY DEF Next, vars
  <2>2. pc[t] = "copy" /\ t = u
    BY <2>1 DEF IInv, TypeOK, ConfigCreate, Configure, Create, ConfigDestroy, Publish,
       Enter, PassOn, Predict, Fill, CopyApps, Kpis, StoreKpis, CopyKpis, Close, Destroy
  <2>3. CopyApps(t)
    BY <2>1, <2>2 DEF ConfigCreate, Configure, Create, ConfigDestroy, Publish,
       Enter, PassOn, Predict, Fill, Kpis, StoreKpis, CopyKpis, Close, Destroy
  <2> QED
    BY <2>2, <2>3 DEF CopyApps, IInv, TypeOK, Filled
<1> QED
  BY <1>1, Invariance, PTL DEF Spec, OwnPredictions
=============================================================================
