----------------------------- MODULE MCTxSigning -----------------------------
(* Instances of TxSigning for TLC. *)
EXTENDS TxSigning, TLC

(* ScriptPubKeyMans are interchangeable. *)
SpkmSymmetry == Permutations(Spkms)
=============================================================================
