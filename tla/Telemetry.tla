----------------------------- MODULE Telemetry -----------------------------
(***************************************************************************)
(* InMemoryTelemetry of core/src/telemetry/telemetry.cpp, and the last      *)
(* lines of Orchestrator::tick(), which copy the counters of the two caches *)
(* into it: hits and misses by a stats() call each, in an order C++ leaves  *)
(* open, while other threads look keys up in the cache.                    *)
(***************************************************************************)
EXTENDS Integers, SequencesExt, FiniteSetsExt

CONSTANTS
  Kinds,                \* of events: "cache_hit", "cache_miss", ...
  TelemetryBuffer,      \* telemetry_buffer
  Samples,              \* the latencies a tick may take
  Pools,                \* <<"app", "model">>: the order tick() records them in
  MaxCalls              \* bound of the model: calls

TelemetryAssumption ==
  /\ {TelemetryBuffer, MaxCalls} \subseteq Nat
  /\ Samples \subseteq Nat
  /\ IsInjective(Pools)

VARIABLES
  buffer, latencies,    \* events_; latencies_["decision"]
  predictions,          \* predictions_total_, _top1_, _top3_
  cache,                \* cache_: pool -> [hits, misses]
  thrash, issues,       \* thrash_events_, stability_issues_
  stats,                \* of each cache: [hits, misses]
  tick,                 \* what tick() has read and has yet to record
  calls                 \* calls so far

tickVars == <<stats, tick>>
telemetryVars == <<buffer, latencies, predictions, cache, thrash, issues>>
vars == <<telemetryVars, tickVars, calls>>

PoolSet == ToSet(Pools)
Zero == [hits |-> 0, misses |-> 0]
NoTick == [left |-> << >>, toRead |-> {}, read |-> Zero,
           from |-> Zero, cleared |-> FALSE]

Init ==
  /\ buffer = << >> /\ latencies = << >> /\ thrash = 0 /\ issues = 0
  /\ predictions = [total |-> 0, top1 |-> 0, top3 |-> 0]
  /\ cache = [p \in {} |-> Zero] /\ stats = [p \in PoolSet |-> Zero]
  /\ tick = NoTick /\ calls = 0

Call == calls < MaxCalls /\ calls' = calls + 1

(* Mutant: the buffer is trimmed when it is full, before the event is added.*)
TrimLate(s) ==
  IF Len(s) > TelemetryBuffer + 1
  THEN SubSeq(s, Len(s) - TelemetryBuffer, Len(s)) ELSE s

Trim(s) ==
  IF Len(s) > TelemetryBuffer
  THEN SubSeq(s, Len(s) - TelemetryBuffer + 1, Len(s)) ELSE s

RecordEvent(kind) ==
  /\ Call
  /\ buffer' = Trim(Append(buffer, kind))
  /\ UNCHANGED <<latencies, predictions, cache, thrash, issues, tickVars>>

One(b) == IF b THEN 1 ELSE 0

(* Mutant: a prediction that was first is not counted among the first three.*)
RecordPredictionElse(top1, top3) ==
  /\ Call
  /\ predictions' = [total |-> predictions.total + 1,
                     top1 |-> predictions.top1 + One(top1),
                     top3 |-> predictions.top3 + One(top3 /\ ~top1)]
  /\ UNCHANGED <<buffer, latencies, cache, thrash, issues, tickVars>>

RecordPrediction(top1, top3) ==
  /\ Call
  /\ predictions' = [total |-> predictions.total + 1,
                     top1 |-> predictions.top1 + One(top1),
                     top3 |-> predictions.top3 + One(top3)]
  /\ UNCHANGED <<buffer, latencies, cache, thrash, issues, tickVars>>

RecordThrash(n) ==
  /\ Call
  /\ thrash' = thrash + n
  /\ UNCHANGED <<buffer, latencies, predictions, cache, issues, tickVars>>

RecordStabilityIssue ==
  /\ Call
  /\ issues' = issues + 1
  /\ UNCHANGED <<buffer, latencies, predictions, cache, thrash, tickVars>>

-----------------------------------------------------------------------------
(* Threads at the caches: a lookup, or clear().                             *)
Lookup(p, field) ==
  /\ Call
  /\ stats' = [stats EXCEPT ![p][field] = @ + 1]
  /\ UNCHANGED <<telemetryVars, tick>>

ClearCache(p) ==
  /\ Call
  /\ stats' = [stats EXCEPT ![p] = Zero]
  /\ tick' = [tick EXCEPT !.cleared = @ \/ (tick.left # << >> /\ Head(tick.left) = p)]
  /\ UNCHANGED telemetryVars

(* tick(): the latency, then the counters, pool by pool.                    *)
Reading(left) ==
  IF left = << >> THEN NoTick
  ELSE [left |-> left, toRead |-> {"hits", "misses"}, read |-> Zero,
        from |-> stats[Head(left)], cleared |-> FALSE]

RecordLatency(ms) ==
  /\ Call
  /\ tick = NoTick
  /\ latencies' = Append(latencies, ms)
  /\ tick' = Reading(Pools)
  /\ UNCHANGED <<buffer, predictions, cache, thrash, issues, stats>>

ReadStats(field) ==
  /\ field \in tick.toRead
  /\ tick' = [tick EXCEPT !.toRead = @ \ {field},
                          !.read[field] = stats[Head(tick.left)][field]]
  /\ UNCHANGED <<telemetryVars, stats, calls>>

(* Mutant: the counters of the caches, which are totals, are added up.      *)
RecordCacheAdding ==
  /\ tick.left # << >> /\ tick.toRead = {}
  /\ LET p == Head(tick.left)
         old == IF p \in DOMAIN cache THEN cache[p] ELSE Zero
     IN  cache' = [q \in DOMAIN cache \cup {p} |->
                     IF q = p THEN [f \in {"hits", "misses"} |-> old[f] + tick.read[f]]
                     ELSE cache[q]]
  /\ tick' = Reading(Tail(tick.left))
  /\ UNCHANGED <<buffer, latencies, predictions, thrash, issues, stats, calls>>

RecordCache ==
  /\ tick.left # << >> /\ tick.toRead = {}
  /\ cache' = [q \in DOMAIN cache \cup {Head(tick.left)} |->
                 IF q = Head(tick.left) THEN tick.read ELSE cache[q]]
  /\ tick' = Reading(Tail(tick.left))
  /\ UNCHANGED <<buffer, latencies, predictions, thrash, issues, stats, calls>>

(* snapshot(): the place of the p-th percentile in n sorted latencies.       *)
(* Mutant: the index counts from one. *)
RankBelow(n, p) == Max({1, (n * p) \div 100})

Rank(n, p) == Min({n, (n * p) \div 100 + 1})

(* std::sort puts the places of the samples in an order, ties in any.        *)
Ascending ==
  {order \in SetToSeqs(DOMAIN latencies) :
     \A i, j \in DOMAIN order : i < j => latencies[order[i]] <= latencies[order[j]]}
Sorted == CHOOSE order \in Ascending : TRUE
Percentile(p) ==
  IF latencies = << >> THEN 0 ELSE latencies[Sorted[Rank(Len(latencies), p)]]

(* The figures of snapshot(); its rates are quotients of two of them.       *)
Recorded(field) == SumFunction([p \in DOMAIN cache |-> cache[p][field]])
Kpis ==
  [decision |-> [p \in {50, 95, 99} |-> Percentile(p)],
   total |-> predictions.total, top1 |-> predictions.top1, top3 |-> predictions.top3,
   hits |-> Recorded("hits"), lookups |-> Recorded("hits") + Recorded("misses"),
   thrash |-> thrash, issues |-> issues]

(* snapshot() and to_json() hand Kpis to the host, and change nothing.      *)
Snapshot == UNCHANGED vars

Next ==
  \/ \E kind \in Kinds : RecordEvent(kind)
  \/ \E top1, top3 \in BOOLEAN : (top1 => top3) /\ RecordPrediction(top1, top3)
  \/ RecordThrash(1) \/ RecordStabilityIssue
  \/ \E p \in PoolSet : ClearCache(p) \/ \E f \in {"hits", "misses"} : Lookup(p, f)
  \/ \E ms \in Samples : RecordLatency(ms)
  \/ \E f \in {"hits", "misses"} : ReadStats(f)
  \/ RecordCache
  \/ Snapshot

Spec == Init /\ [][Next]_vars

-----------------------------------------------------------------------------
(* Type invariant; the event buffer never outgrows telemetry_buffer.        *)
TypeOK ==
  /\ buffer \in Seq(Kinds) /\ Len(buffer) <= TelemetryBuffer
  /\ latencies \in Seq(Samples)
  /\ \A p \in DOMAIN cache : p \in PoolSet /\ cache[p] \in [{"hits", "misses"} -> Nat]
  /\ {thrash, issues} \subseteq Nat /\ calls \in 0..MaxCalls

(* The places of the decisions that took no longer, and of those faster.     *)
AtMost(ms) == {i \in 1..Len(latencies) : latencies[i] <= ms}
Faster(ms) == {i \in 1..Len(latencies) : latencies[i] < ms}

(* The KPIs of a snapshot are consistent: p percent of the decisions took    *)
(* no longer than the p-th percentile, and no more than that were faster;   *)
(* of the predictions, no fewer were right among three than at first.       *)
KpisAreRight ==
  /\ \A p \in {50, 95, 99} :
        /\ 100 * Cardinality(AtMost(Kpis.decision[p])) >= p * Len(latencies)
        /\ 100 * Cardinality(Faster(Kpis.decision[p])) <= p * Len(latencies)
  /\ Kpis.top1 <= Kpis.top3 /\ Kpis.top3 <= Kpis.total
  /\ Kpis.hits <= Kpis.lookups

(* What tick() records of a cache may be no state the cache was ever in, but *)
(* unless the cache is cleared meanwhile neither counter is older than the   *)
(* first of the two reads, nor more than the cache has counted by then.     *)
RecordsWhatItRead ==
  [][tick.left # << >> /\ tick'.left # tick.left /\ ~tick.cleared =>
       \A f \in {"hits", "misses"} :
          cache'[Head(tick.left)][f] \in tick.from[f]..stats[Head(tick.left)][f]]_vars
=============================================================================
