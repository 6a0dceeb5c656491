--------------------------- MODULE MCQuantumWallet ---------------------------
(* Instances of QuantumWallet for TLC. *)
EXTENDS QuantumWallet, TLC

(* Keys of one scheme are interchangeable. *)
KeySymmetry == Permutations(MLKeys) \cup Permutations(Keys \ MLKeys)
=============================================================================
