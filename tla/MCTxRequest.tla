---------------------------- MODULE MCTxRequest ----------------------------
(* Instances of TxRequest for TLC. *)
EXTENDS TxRequest

(* One transaction that every peer may announce, and a second one. *)
MCTxs == {1, 2}
MCPeers == 1..3
MCAnnounceable == ({1} \X MCPeers) \cup {<<2, 1>>}
MCPreferred == {3}
(* Among the others, the second is first for one transaction. *)
MCLowBits == [tx \in MCTxs |-> [p \in MCPeers |-> IF tx = 1 THEN p ELSE 4 - p]]
=============================================================================
