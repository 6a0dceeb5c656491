-------------------------- MODULE MCQuantumMempool --------------------------
(* Instances of QuantumMempool for TLC. *)
EXTENDS QuantumMempool

Tx(witness, script) == [witness |-> witness, script |-> script]

(* The transactions that the rules tell apart: an address spent with its   *)
(* signature; an address spent without one, which only a block before      *)
(* activation allows; a public key and no opcode, which is standard but    *)
(* too large before activation; and one that every rule allows.            *)
MCTxs ==
    {Tx(<<<<"sig", k>>>>, CreateQuantumWitnessScript(k)) : k \in MLKeys}
      \cup {Tx(<<>>, CreateQuantumWitnessScript(k)) : k \in Keys \ MLKeys}
      \cup {Tx(<<>>, <<Push(<<"pub", k>>)>>) : k \in Keys}
=============================================================================
