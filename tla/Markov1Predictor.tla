-------------------------- MODULE Markov1Predictor --------------------------
(***************************************************************************)
(* Markov1Predictor of predictors.cpp: counts of which app follows which.   *)
(* An AppId may be empty (the C ABI passes a null app_id on as ""), and an  *)
(* empty last_ stands for "no app yet".                                    *)
(***************************************************************************)
EXTENDS PredictorContract

CONSTANT NoApp              \* the empty AppId

VARIABLES transitions,      \* transitions_: app -> its followers' counts
          totals, unigram,  \* totals_, unigram_
          grandTotal, last  \* grand_total_, last_

markovVars == <<transitions, totals, unigram, grandTotal, last>>

Init ==
  /\ transitions = NoCounts /\ totals = NoCounts /\ unigram = NoCounts
  /\ grandTotal = 0 /\ last = NoApp

Followers(a) == IF a \in DOMAIN transitions THEN transitions[a] ELSE NoCounts

Observe(ev) ==
  IF Learns(ev)
  THEN /\ \/ /\ last = NoApp
             /\ UNCHANGED <<transitions, totals>>
          \/ /\ last # NoApp
             /\ transitions' = Assign(transitions, last, Increment(Followers(last), ev.app))
             /\ totals' = Increment(totals, last)
       /\ unigram' = Increment(unigram, ev.app)
       /\ grandTotal' = grandTotal + 1
       /\ last' = ev.app
  ELSE UNCHANGED markovVars

(* Mutant: last_ is kept. *)
ResetTables ==
  /\ transitions' = NoCounts /\ totals' = NoCounts /\ unigram' = NoCounts
  /\ grandTotal' = 0 /\ UNCHANGED last

Reset ==
  /\ transitions' = NoCounts /\ totals' = NoCounts /\ unigram' = NoCounts
  /\ grandTotal' = 0 /\ last' = NoApp

(* Mutant: the counts are smoothed, the divisor is not.                     *)
DivisorUnsmoothed == Count(totals, last)

(* The divisor of the Laplace smoothing. *)
Divisor == Count(totals, last) + Cardinality(DOMAIN unigram)

Fallback == last \notin DOMAIN transitions
Predict(k) ==
  IF last = NoApp THEN {<< >>}
  ELSE Rankings(IF Fallback THEN unigram ELSE transitions[last], k)

(* The scores of an answer, (count + 1) / divisor each, or a share of all   *)
(* uses in the fallback, add up to at most 1, as probabilities must.        *)
ScoresAreProbabilities ==
  last # NoApp =>
    IF Fallback THEN Total(unigram) <= grandTotal
    ELSE Total(transitions[last]) + Cardinality(DOMAIN transitions[last]) <= Divisor
=============================================================================
