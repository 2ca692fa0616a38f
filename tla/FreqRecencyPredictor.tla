------------------------ MODULE FreqRecencyPredictor ------------------------
(***************************************************************************)
(* FreqRecencyPredictor of predictors.cpp: 45% frequency, 30% recency, 25%  *)
(* habit of the hour.  Time is in hours; exp(-age) is a table of integers.  *)
(***************************************************************************)
EXTENDS PredictorContract

CONSTANTS NoHour,           \* hour_of_day is not set
          HoursPerDay,      \* 24
          Unit, Decay       \* exp(-age) in parts of Unit; the table of it

DecayAssumption ==
  /\ HoursPerDay \in Nat \ {0} /\ Unit \in Nat \ {0}
  /\ Decay \in [DOMAIN Decay -> Nat] /\ DOMAIN Decay \subseteq Int
  /\ 0 \in DOMAIN Decay /\ Decay[0] = Unit
  /\ \A age, older \in DOMAIN Decay : age <= older => Decay[age] >= Decay[older]

VARIABLES unigram, lastSeen, lastTs,    \* unigram_, last_seen_, last_ts_
          hourCounts, hourTotals        \* hour_counts_, hour_totals_

frequencyVars == <<unigram, lastSeen, lastTs, hourCounts, hourTotals>>

Init ==
  /\ unigram = NoCounts /\ lastSeen = NoCounts /\ lastTs = 0
  /\ hourCounts = NoCounts /\ hourTotals = NoCounts

CountsOf(hour) == IF hour \in DOMAIN hourCounts THEN hourCounts[hour] ELSE NoCounts

Observe(ev) ==
  IF Learns(ev)
  THEN /\ unigram' = Increment(unigram, ev.app)
       /\ lastSeen' = Assign(lastSeen, ev.app, ev.time)
       /\ lastTs' = ev.time
       /\ \/ /\ ev.hour = NoHour
             /\ UNCHANGED <<hourCounts, hourTotals>>
          \/ /\ ev.hour # NoHour
             /\ hourCounts' = Assign(hourCounts, ev.hour, Increment(CountsOf(ev.hour), ev.app))
             /\ hourTotals' = Increment(hourTotals, ev.hour)
  ELSE UNCHANGED frequencyVars

(* Mutant: the tables of the hours are kept. *)
ResetApps ==
  /\ unigram' = NoCounts /\ lastSeen' = NoCounts /\ lastTs' = 0
  /\ UNCHANGED <<hourCounts, hourTotals>>

Reset ==
  /\ unigram' = NoCounts /\ lastSeen' = NoCounts /\ lastTs' = 0
  /\ hourCounts' = NoCounts /\ hourTotals' = NoCounts

-----------------------------------------------------------------------------
(* Mutant: the age of an app seen "after" the last event is negative.       *)
AgeUnclamped(a) == lastTs - lastSeen[a]

(* Events may carry any timestamps, so an app may be seen after the last.   *)
Age(a) == Max({0, lastTs - lastSeen[a]})

(* The hour of the last timestamp (UTC), not the hour_of_day of its event.  *)
Hour == lastTs % HoursPerDay
HourTotal == Max({1, Count(hourTotals, Hour)})

(* score(app), in parts of 100 * Unit * Total(unigram) * HourTotal.         *)
Score(a) ==
  45 * unigram[a] * Unit * HourTotal
    + 30 * Decay[Age(a)] * Total(unigram) * HourTotal
    + 25 * Count(CountsOf(Hour), a) * Unit * Total(unigram)
Whole == 100 * Unit * Total(unigram) * HourTotal

Predict(k) ==
  IF DOMAIN unigram = {} THEN {<< >>}
  ELSE Rankings([a \in DOMAIN unigram |-> Score(a)], k)

(* types.hpp: a score is in [0, 1], whatever the order of the timestamps;   *)
(* so the app that scores 1 has the most of all three.                     *)
ScoresInRange == \A a \in DOMAIN unigram : Score(a) \in 0..Whole
=============================================================================
