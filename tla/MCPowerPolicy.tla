--------------------------- MODULE MCPowerPolicy ---------------------------
(* The device snapshots and configurations that the power policy is run on. *)
EXTENDS Integers

Device(t, b, r, ch, s) ==
  [thermal |-> t, battery |-> b, ram |-> r, charging |-> ch, saver |-> s]

(* Thresholds lie at 1, 2, 3 (thermal, battery) and 0, 1 (ram); readings on *)
(* both sides of each; the saver switched on with ram to spare.             *)
MCDevices ==
  {Device(t, b, r, ch, FALSE) : t \in 0..3, b \in 0..3, r \in 0..2, ch \in BOOLEAN}
  \cup {Device(t, b, 2, ch, TRUE) : t \in 0..3, b \in 0..3, ch \in BOOLEAN}
MCDefaultDevice == Device(0, 3, 2, FALSE, FALSE)

Config(tp, tm, tr, bp, bm, br, app, model, kv, sink, recent, pre) ==
  [thermalPaused |-> tp, thermalMinimal |-> tm, thermalReduced |-> tr,
   batteryPaused |-> bp, batteryMinimal |-> bm, batteryReduced |-> br,
   ramPaused |-> 0, ramMinimal |-> 1,
   app |-> app, model |-> model, kv |-> kv, sink |-> sink, recent |-> recent,
   preload |-> pre]
Usual(app, model, kv, sink, recent, pre) ==
  Config(3, 2, 1, 0, 1, 2, app, model, kv, sink, recent, pre)

(* Any thresholds, the ones of the default order and orders that overlap.   *)
MCThresholds ==
  {Config(tp, tm, tr, bp, bm, br, 8, 1, 4, 1, 1, TRUE) :
     <<tp, tm, tr>> \in {<<3, 2, 1>>, <<1, 2, 3>>, <<2, 2, 2>>},
     <<bp, bm, br>> \in {<<0, 1, 2>>, <<2, 1, 0>>, <<1, 1, 1>>}}

(* Room for four app slots in half, a model, both windows in half; every    *)
(* remainder of the app slots by 2 and 4.                                   *)
MCRoomy ==
  {Usual(s[1], s[2], s[3], 1, s[4], pre) :
     s \in {<<8, 1, 6, 1>>, <<9, 2, 7, 2>>, <<10, 3, 12, 2>>, <<11, 1, 7, 1>>},
     pre \in BOOLEAN}
MCConfigs == MCThresholds \cup MCRoomy
=============================================================================
