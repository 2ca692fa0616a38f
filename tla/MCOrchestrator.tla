--------------------------- MODULE MCOrchestrator ---------------------------
EXTENDS Orchestrator, TLC

Device(t) ==
  [thermal |-> t, battery |-> 9, ram |-> 9, charging |-> FALSE, saver |-> FALSE]
MCDefaultDevice == Device(0)
MCDevices == {Device(t) : t \in 0..3}
MCConfig ==
  [thermalPaused |-> 3, thermalMinimal |-> 2, thermalReduced |-> 1,
   batteryPaused |-> 0, batteryMinimal |-> 1, batteryReduced |-> 2,
   ramPaused |-> 0, ramMinimal |-> 1,
   app |-> 2, model |-> 1, kv |-> 8, sink |-> 1, recent |-> 1, preload |-> TRUE]

(* 6 tokens behind the sink: in Minimal (budget 4) two blocks must go.      *)
Block(i, start, count) ==
  [id |-> i, start |-> start, count |-> count, salience |-> 0, pinned |-> FALSE]
MCBlocks == {Block(1, 1, 1), Block(2, 2, 1), Block(3, 3, 4)}
MCNoBlocks == {}

MCSymmetry == Permutations(Threads) \cup Permutations(Apps)
=============================================================================
