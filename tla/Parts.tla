------------------------------- MODULE Parts -------------------------------
(***************************************************************************)
(* Five parts of Orchestrator::Impl that share no state: the power policy,  *)
(* the KV manager, the model swap manager, the telemetry, and predictors     *)
(* with storage; and what each of them promises.                           *)
(***************************************************************************)
EXTENDS ModelSwap

CONSTANTS
  Devices, DefaultDevice, Configs,
  Blocks, Sink, Recent, TokenBudgets, Word32, MaxTotal,
  Kinds, TelemetryBuffer, Samples, MaxCalls,
  NoApp, HistoryCap, NoHour, HoursPerDay, Unit, TopKs, Names, Values, MaxEvents,
  Events, Decay

VARIABLES
  config, device, mode, plan,
  blocks, total, pending,
  buffer, latencies, predictions, cache, thrash, issues, stats, tick, calls,
  counts, history, transitions, totals, unigram, grandTotal, last,
  uses, lastSeen, lastTs, hourCounts, hourTotals, events, blobs, kv

policyVars == <<config, device, mode, plan>>
kvVars == <<blocks, total, pending>>
metricVars == <<buffer, latencies, predictions, cache, thrash, issues, stats, tick, calls>>
eventVars == <<counts, history, transitions, totals, unigram, grandTotal, last,
               uses, lastSeen, lastTs, hourCounts, hourTotals, events, blobs, kv>>

Policy == INSTANCE PowerPolicy
KV == INSTANCE KVCacheManager WITH Budgets <- TokenBudgets
Metrics == INSTANCE Telemetry WITH Pools <- <<"app", "model">>
Record == INSTANCE Ingestion

-----------------------------------------------------------------------------
(* The plan in force is made of numbers: no mode makes a capacity negative.  *)
PolicyTypeOK == Policy!TypeOK

(* The budget of a plan covers the windows that the KV manager subtracts.   *)
BudgetCoversWindows == Policy!BudgetCoversWindows

(* A device that gets worse never gets a milder mode.                       *)
WorseNeverMilder == Policy!WorseNeverMilder

(* Stricter plans take more of nothing.                                    *)
DegradesGracefully == Policy!DegradesGracefully

(* The ledger of the KV manager is well formed and no plan names a block     *)
(* twice; the telemetry keeps no more events than its buffer holds.         *)
PartsTypeOK == KV!TypeOK /\ Metrics!TypeOK

(* KV eviction plans take the coldest evictable blocks, enough, none more.   *)
PlansAreRight == KV!PlansAreRight

(* With an exact total no KV plan takes from the recent window.             *)
RecentKept == KV!RecentKept

(* Only observe() of a tracked sequence makes the token total drift.        *)
OnlyUpdatesDrift == KV!OnlyUpdatesDrift

(* The KPIs of a snapshot are consistent with what was recorded.            *)
KpisAreRight == Metrics!KpisAreRight

(* tick() records of each cache counters between its two reads.             *)
RecordsWhatItRead == Metrics!RecordsWhatItRead

(* Every predictor holds what the log of storage says.                      *)
PredictorsMatchLog == Record!PredictorsMatchLog

(* Answers are of different learned apps, as many as asked for; that of MRU  *)
(* is the recents list.                                                    *)
AnswersAreRight == Record!AnswersAreRight

(* Scores of Markov-1 add up to at most 1, those of FreqRecency are in range.*)
ScoresInRange == Record!ScoresInRange

(* types.hpp: "[0,1] higher = more likely", said of every predictor's score. *)
MFUScoresInRange == Record!Window!ScoresInRange
=============================================================================
