----------------------------- MODULE Ingestion -----------------------------
(***************************************************************************)
(* What record_event() and reset() of orchestrator.cpp do to the predictor *)
(* and to storage, both under mu and so one step each.  The predictor is    *)
(* whichever make_predictor() built; here one of each is fed the same       *)
(* events.  The log that storage holds is what they are judged by.          *)
(***************************************************************************)
EXTENDS PredictorContract, RecencyLists

CONSTANTS
  Events,               \* the AppEvents hosts record: [type, app, time, hour]
  NoApp, HistoryCap, NoHour, HoursPerDay, Unit, Decay,
  TopKs,                \* the answers' lengths hosts ask for
  Names, Values,        \* names and values hosts save in storage
  MaxEvents             \* bound of the model: events between two resets

VARIABLES counts, history,
          transitions, totals, unigram, grandTotal, last,
          uses, lastSeen, lastTs, hourCounts, hourTotals,
          events, blobs, kv

Window == INSTANCE WindowPredictors
Markov == INSTANCE Markov1Predictor
FreqRecency == INSTANCE FreqRecencyPredictor WITH unigram <- uses
Store == INSTANCE Storage

IngestionAssumption ==
  /\ Window!WindowAssumption
  /\ FreqRecency!DecayAssumption
  /\ MaxEvents \in Nat /\ TopKs \subseteq Nat
  /\ \A ev, older \in Events :
        ev.time \in Int /\ ev.time - older.time \in DOMAIN Decay

predictorVars == <<counts, history, transitions, totals, unigram, grandTotal, last,
                   uses, lastSeen, lastTs, hourCounts, hourTotals>>
vars == <<predictorVars, events, blobs, kv>>

Init == Window!Init /\ Markov!Init /\ FreqRecency!Init /\ Store!Init

RecordEvent(ev) ==
  /\ Len(events) < MaxEvents
  /\ Window!Observe(ev) /\ Markov!Observe(ev) /\ FreqRecency!Observe(ev)
  /\ Store!AppendEvent(ev)

Reset == Window!Reset /\ Markov!Reset /\ FreqRecency!Reset /\ Store!Reset

(* Hosts save through storage(); serialize() gives an empty blob, and       *)
(* deserialize() of it changes nothing.                                    *)
Persist(name) == Store!SavePredictorState(name, << >>) /\ UNCHANGED predictorVars
Restore(name) == Store!HasPredictorState(name) /\ UNCHANGED vars
SaveKV(name, v) == Store!SaveKV(name, v) /\ UNCHANGED predictorVars

Next ==
  \/ \E ev \in Events : RecordEvent(ev)
  \/ \E name \in Names : Persist(name) \/ Restore(name) \/ \E v \in Values : SaveKV(name, v)
  \/ Reset

Spec == Init /\ [][Next]_vars

-----------------------------------------------------------------------------
Log == Learning(Store!LoadEvents(MaxEvents))
Learned == Range(Apps(Log))

(* The counts of MFU are of the whole log, the window is its end: the log   *)
(* of a limit that spans the window rebuilds it.                           *)
WindowMatches(log) ==
  /\ counts = Tally(DOMAIN log, Apps(log))
  /\ \A limit \in 0..MaxEvents :
       LET tail == Learning(Store!LoadEvents(limit))
       IN  \/ limit < Len(events) /\ Len(tail) < HistoryCap
           \/ history = [i \in 1..Len(history) |->
                           tail[Len(tail) - Len(history) + i].app]
  /\ Len(history) = Min({HistoryCap, Len(log)})

(* The tables of Markov-1 are the pairs of successive apps of the log that   *)
(* start with an app that has a name, and last_ is its end: nothing of      *)
(* before a reset() is joined to what comes after it.                      *)
Steps(log) == {i \in DOMAIN log : i < Len(log) /\ Apps(log)[i] # NoApp}
NextApps(log) == [i \in Steps(log) |-> Apps(log)[i + 1]]

MarkovMatches(log) ==
  /\ unigram = Tally(DOMAIN log, Apps(log)) /\ grandTotal = Len(log)
  /\ last = IF log = << >> THEN NoApp ELSE Last(log).app
  /\ transitions = Table(Steps(log), Apps(log), NextApps(log))
  /\ totals = Tally(Steps(log), Apps(log))

(* FreqRecency: each app's last place in the log gives its timestamp, in    *)
(* whatever order the timestamps come; the habits of an hour are those of   *)
(* the events that have it.                                                *)
Timed(log) == {i \in DOMAIN log : Hours(log)[i] # NoHour}
LastUse(log, a) == Max({i \in DOMAIN log : Apps(log)[i] = a})

FreqRecencyMatches(log) ==
  /\ uses = Tally(DOMAIN log, Apps(log))
  /\ lastSeen = [a \in Range(Apps(log)) |-> log[LastUse(log, a)].time]
  /\ lastTs = IF log = << >> THEN 0 ELSE Last(log).time
  /\ hourCounts = Table(Timed(log), Hours(log), Apps(log))
  /\ hourTotals = Tally(Timed(log), Hours(log))

(* Every predictor holds what the log says of its own: no order of events,   *)
(* saves and resets lets predictor and storage part.                       *)
PredictorsMatchLog == WindowMatches(Log) /\ MarkovMatches(Log) /\ FreqRecencyMatches(Log)

(* "the canonical Android Recents heuristic": MRU answers with one list,     *)
(* whatever the sort does with ties: the apps of the window in the order in *)
(* which a recents list, moving each app used to its front, has them.       *)
Recents == FoldLeft(LAMBDA list, a : Touch(list, a), << >>, history)
MRUIsRecents(k) == Window!PredictMRU(k) = {Cut(Recents, k)}

(* predictor.hpp, and what tick() takes for granted: for any order of ties,  *)
(* an answer is of different apps, all learned since the last reset(), and  *)
(* as many as were asked for unless there are no more candidates.           *)
AnswersAreRight ==
  \A k \in TopKs :
    /\ Answers(Window!PredictMFU(k), k, Learned)
    /\ MRUIsRecents(k)
    /\ Answers(Markov!Predict(k), k, Learned)
    /\ Answers(FreqRecency!Predict(k), k, Learned)
    /\ \A r \in Window!PredictMFU(k) \cup FreqRecency!Predict(k) :
         Len(r) = Min({k, Cardinality(Learned)})

(* types.hpp: a score is in [0, 1].  The scores of Markov-1 even add up to  *)
(* at most 1; those of FreqRecency stay in the range for any timestamps.    *)
ScoresInRange == Markov!ScoresAreProbabilities /\ FreqRecency!ScoresInRange
=============================================================================
