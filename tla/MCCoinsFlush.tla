---------------------------- MODULE MCCoinsFlush ----------------------------
(* Instances of CoinsFlush for TLC. *)
EXTENDS CoinsFlush

(* Two branches over a1.  One transaction, from c to t, is in both of them, *)
(* at different heights; on the longer one its other output is spent in     *)
(* the same block.                                                          *)
MCBlocks == {"g", "a1", "a2", "b2", "b3"}
MCParent == [b \in MCBlocks |->
    CASE b = "g" -> Null [] b = "a1" -> "g" [] b \in {"a2", "b2"} -> "a1" [] b = "b3" -> "b2"]
MCOutpoints == {"c", "t", "u"}
Coinbase(out) == [coinbase |-> TRUE, spends |-> {}, creates |-> out]
Tx(in, out) == [coinbase |-> FALSE, spends |-> in, creates |-> out]
MCVtx == [b \in MCBlocks |->
    CASE b \in {"g", "b2"} -> <<>>
      [] b = "a1" -> <<Coinbase({"c"})>>
      [] b = "a2" -> <<Tx({"c"}, {"t", "u"})>>
      [] b = "b3" -> <<Tx({"c"}, {"t", "u"}), Tx({"u"}, {})>>]

(* Nothing is claimed once a write has relied on a failed one: TLC looks at *)
(* such a state and at none after it.                                       *)
Undamaged == ~damaged
=============================================================================
