------------------------- MODULE PredictorContract -------------------------
(***************************************************************************)
(* What the predictors of core/src/predictors/predictors.cpp have in       *)
(* common: which events they learn from, how their unordered_maps count,   *)
(* how predict() ranks and cuts; and what predictor.hpp promises of it.    *)
(***************************************************************************)
EXTENDS Integers, SequencesExt, FiniteSetsExt, Functions

Learns(ev) == ev.type \in {"AppOpen", "AppForeground"}

NoCounts == [x \in {} |-> 0]
Count(f, x) == IF x \in DOMAIN f THEN f[x] ELSE 0
Assign(f, x, v) == [y \in DOMAIN f \cup {x} |-> IF y = x THEN v ELSE f[y]]
Increment(f, x) == Assign(f, x, Count(f, x) + 1)
Total(f) == SumFunction(f)

Cut(ranking, k) == IF Len(ranking) <= k THEN ranking ELSE SubSeq(ranking, 1, k)

(* std::sort by descending score leaves ties in any order.                  *)
Rankings(score, k) ==
  {Cut(r, k) : r \in {s \in SetToSeqs(DOMAIN score) :
     \A i, j \in DOMAIN s : i < j => score[s[i]] >= score[s[j]]}}

-----------------------------------------------------------------------------
(* What a log says: the events learned from, in the order of the log; and   *)
(* of such a log the apps and hours at their places.                       *)
Learn(log, ev) == IF Learns(ev) THEN Append(log, ev) ELSE log
Learning(evs) == FoldLeft(LAMBDA log, ev : Learn(log, ev), << >>, evs)

Apps(log) == [i \in DOMAIN log |-> log[i].app]
Hours(log) == [i \in DOMAIN log |-> log[i].hour]

(* How often each key occurs at the places; and of each row, each column.   *)
Tally(places, key) ==
  [x \in {key[i] : i \in places} |-> Cardinality({i \in places : key[i] = x})]
Table(places, row, col) ==
  [x \in {row[i] : i \in places} |-> Tally({i \in places : row[i] = x}, col)]

(* predictor.hpp: "Return up to top_k predictions".  Whatever the sort does *)
(* with ties, they are different apps, and all of them have been learned.   *)
Answers(rankings, k, learned) ==
  \A r \in rankings : Len(r) <= k /\ IsInjective(r) /\ Range(r) \subseteq learned
=============================================================================
