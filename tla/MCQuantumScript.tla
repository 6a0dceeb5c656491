--------------------------- MODULE MCQuantumScript ---------------------------
(* Instances of QuantumScriptCheck for TLC. *)
EXTENDS QuantumScriptCheck

(* Scripts push scheme identifiers, public keys and small values. *)
MCScriptOps == {CheckSig, CheckVerify, Push(True), Push(Other)}
                 \cup {Push(<<kind, k>>) : kind \in {"alg", "pub"}, k \in Keys}

(* The ML-DSA-65 keys are interchangeable. *)
KeySymmetry == Permutations(MLKeys)
=============================================================================
