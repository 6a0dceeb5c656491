------------------------- MODULE QuantumScriptCheck -------------------------
(***************************************************************************)
(* Builds every spend of a bounded size, one element of the witness and    *)
(* one operation of the script at a time, and states what the rules of     *)
(* QuantumScript give for it.                                              *)
(***************************************************************************)
EXTENDS QuantumScript

CONSTANTS WitnessElements,  \* elements that may be on the witness stack
          ScriptOps,        \* operations that may be in the script
          MaxWitness,       \* bound on the elements of the witness
          MaxScript         \* bound on the operations of the script

ASSUME SpendsAssumption ==
    /\ WitnessElements \subseteq Elements /\ ScriptOps \subseteq Ops
    /\ MaxWitness \in Nat /\ MaxScript \in Nat

VARIABLES witness, script
spend_vars == <<witness, script>>

NoSpend == witness = <<>> /\ script = <<>>

AddElement == /\ Len(witness) < MaxWitness
              /\ \E e \in WitnessElements : witness' = Append(witness, e)
              /\ UNCHANGED script
AddOp == /\ Len(script) < MaxScript
         /\ \E op \in ScriptOps : script' = Append(script, op)
         /\ UNCHANGED witness

AddToSpend == AddElement \/ AddOp
Spends == NoSpend /\ [][AddToSpend]_spend_vars

Passes(flags) == ExecuteWitnessScript(flags, witness, script)
Active == GetBlockScriptFlags(TRUE)
Standard == STANDARD_SCRIPT_VERIFY_FLAGS
Signature(k) == <<"sig", k>>
-----------------------------------------------------------------------------
(* An address of the wallet, <key> OP_CHECKSIG_EX, is spent by a signature *)
(* of its key and by nothing else, in a block after activation and under   *)
(* the standard flags: every signature the signer can make fits through    *)
(* the size limits, and no other stack leaves a single true element.       *)
AddressSpending ==
    \A k \in Keys : script = CreateQuantumWitnessScript(k) =>
        /\ Passes(Active) <=> witness = <<Signature(k)>>
        /\ Passes(Standard) <=> witness = <<Signature(k)>>

(* A script of two keys that uses OP_CHECKSIGVERIFY_EX for the first needs *)
(* both signatures, in stack order, of the same or of different schemes.   *)
TwoKeySpending ==
    \A j, k \in Keys :
        script = <<Push(<<"pub", j>>), CheckVerify, Push(<<"pub", k>>), CheckSig>> =>
            (Passes(Active) <=> witness = <<Signature(k), Signature(j)>>)

(* The standard flags only add restrictions to those of a block after      *)
(* activation: what MemPoolAccept::PolicyScriptChecks accepts, such a      *)
(* block may contain.                                                      *)
StandardImpliesActive == Passes(Standard) => Passes(Active)
=============================================================================
