---------------------------- MODULE MCTxDownload ----------------------------
(* Instances of TxDownload for TLC. *)
EXTENDS TxDownload

(* An honest inbound peer and a preferred one that need not answer; and    *)
(* more transactions that only the latter announces, so that it gets to    *)
(* its limits.                                                             *)
MCPeers == 1..2
MCHonest == {1}
MCPreferred == {2}
MCTxs == 1..3
MCLowBits == [tx \in MCTxs |-> [p \in MCPeers |-> p]]
MCAnnounceable == ({1} \X MCPeers) \cup {<<2, 2>>, <<3, 2>>}
=============================================================================
