-------------------------- MODULE WindowPredictors --------------------------
(***************************************************************************)
(* MFUPredictor and MRUPredictor of predictors.cpp: a window of the last    *)
(* kHistoryCap apps, and, in the first, counts.  (seen_ of the second is    *)
(* never read.)                                                            *)
(***************************************************************************)
EXTENDS PredictorContract

CONSTANT HistoryCap         \* kHistoryCap

WindowAssumption == HistoryCap \in Nat \ {0}

VARIABLES counts,           \* counts_ of MFU
          history           \* history_ of both

windowVars == <<counts, history>>

Init == counts = NoCounts /\ history = << >>

Observe(ev) ==
  IF Learns(ev)
  THEN /\ counts' = Increment(counts, ev.app)
       /\ LET longer == Append(history, ev.app)
          IN  history' = IF Len(longer) > HistoryCap THEN Tail(longer) ELSE longer
  ELSE UNCHANGED windowVars

(* Mutant: counts_ is kept. *)
ResetHistory == history' = << >> /\ UNCHANGED counts

Reset == counts' = NoCounts /\ history' = << >>

PredictMFU(k) == Rankings(counts, k)

(* Mutant: the first place of an app in the window counts.                  *)
FirstIndex == [a \in Range(history) |-> Min({i \in DOMAIN history : history[i] = a})]

LastIndex == [a \in Range(history) |-> Max({i \in DOMAIN history : history[i] = a})]
PredictMRU(k) == Rankings(LastIndex, k)

(* types.hpp: a score is in [0, 1].  That of MFU is the count of the app over *)
(* the length of the window.                                               *)
ScoresInRange == \A a \in DOMAIN counts : counts[a] <= Len(history)
=============================================================================
