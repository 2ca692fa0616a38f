------------------------------ MODULE MCParts ------------------------------
(***************************************************************************)
(* The parts of the core on small instances.  In a behaviour one of them is *)
(* used and the others are as built: whatever order their steps would mix   *)
(* in, no part could tell.                                                 *)
(***************************************************************************)
EXTENDS Parts, MCPowerPolicy, TLC

CONSTANTS small, medium, large, mail, maps

(* A context of 6 tokens in four blocks, the first in the sink; each cold    *)
(* or hot, the second perhaps pinned.                                       *)
MCBlocks ==
  {[id |-> s[1], start |-> s[2], count |-> s[3], salience |-> h, pinned |-> p] :
     s \in {<<1, 0, 1>>, <<3, 3, 1>>, <<4, 4, 2>>}, h \in {0, 1}, p \in {FALSE}}
  \cup
  {[id |-> 2, start |-> 1, count |-> 2, salience |-> h, pinned |-> p] :
     h \in {0, 1}, p \in BOOLEAN}

MCModels == {small, medium, large}
MCBytesOf == (small :> 1) @@ (medium :> 2) @@ (large :> 3)

(* Opens and a close of two apps, in and out of the order of time, with and  *)
(* without the hour, and an open of the empty AppId.                       *)
Event(type, app, time, hour) ==
  [type |-> type, app |-> app, time |-> time, hour |-> hour]
MCEvents ==
  {Event("AppOpen", mail, 1, NoHour), Event("AppOpen", mail, 3, 1),
   Event("AppForeground", maps, 2, 0), Event("AppOpen", maps, 0, 1),
   Event("AppClose", maps, 3, NoHour), Event("AppOpen", NoApp, 2, 0)}

(* exp(-age) in hundredths. *)
MCDecay == (-3 :> 2009) @@ (-2 :> 739) @@ (-1 :> 272) @@ (0 :> 100)
             @@ (1 :> 37) @@ (2 :> 14) @@ (3 :> 5)

ASSUME PartsAssumption ==
  /\ SwapAssumption /\ Policy!PowerAssumption /\ KV!KVAssumption
  /\ Metrics!TelemetryAssumption /\ Record!IngestionAssumption

(* What is not used is as built; of the configs one will do.                *)
PolicyUnused == Policy!Init /\ config = Usual(8, 1, 6, 1, 1, TRUE)
OthersUnused == KV!Init /\ Init /\ Metrics!Init /\ Record!Init

MCInit == Policy!Init /\ OthersUnused

MCNext ==
  \/ /\ OthersUnused /\ Policy!Next
     /\ UNCHANGED <<vars, kvVars, metricVars, eventVars>>
  \/ /\ PolicyUnused /\ Init /\ Metrics!Init /\ Record!Init /\ KV!Next
     /\ UNCHANGED <<policyVars, vars, metricVars, eventVars>>
  \/ /\ PolicyUnused /\ KV!Init /\ Metrics!Init /\ Record!Init /\ Next
     /\ UNCHANGED <<policyVars, kvVars, metricVars, eventVars>>
  \/ /\ PolicyUnused /\ KV!Init /\ Init /\ Record!Init /\ Metrics!Next
     /\ UNCHANGED <<policyVars, kvVars, vars, eventVars>>
  \/ /\ PolicyUnused /\ KV!Init /\ Init /\ Metrics!Init /\ Record!Next
     /\ UNCHANGED <<policyVars, kvVars, vars, metricVars>>

MCSpec == MCInit /\ [][MCNext]_<<policyVars, kvVars, vars, metricVars, eventVars>>
=============================================================================
