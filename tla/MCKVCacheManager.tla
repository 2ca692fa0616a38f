-------------------------- MODULE MCKVCacheManager --------------------------
(* A context of 6 tokens in four blocks of different lengths, the first in  *)
(* the sink; each cold or hot, and pinned or not.                           *)
EXTENDS KVCacheManager

MCSpans == {<<1, 0, 1>>, <<2, 1, 2>>, <<3, 3, 1>>, <<4, 4, 2>>}
MCBlocks ==
  {[id |-> s[1], start |-> s[2], count |-> s[3], salience |-> h, pinned |-> p] :
     s \in MCSpans, h \in {0, 1}, p \in BOOLEAN}

(* The same blocks, none pinned but the second. *)
MCPlainBlocks == {b \in MCBlocks : b.pinned => b.id = 2}
=============================================================================
