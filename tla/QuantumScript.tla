---------------------------- MODULE QuantumScript ----------------------------
(***************************************************************************)
(* The rules for one input that spends a P2WSH output with the quantum     *)
(* opcodes: what the interpreter accepts under given script flags, and     *)
(* what the relay policy recognises.  Pure definitions; QuantumScriptCheck *)
(* and QuantumMempool use them.                                            *)
(*                                                                         *)
(* The bytes of a stack element matter through its size, through what it   *)
(* is (a signature of this transaction, a public key, ...) and through the *)
(* key it belongs to: an element is a pair of a kind and a key.            *)
(***************************************************************************)
EXTENDS Integers, FiniteSets, SequencesExt

CONSTANTS Keys,    \* quantum keys
          MLKeys,  \* the ML-DSA-65 ones; the others are SLH-DSA-192f
          NoKey    \* the key of an element that has none

ASSUME ScriptKeysAssumption == MLKeys \subseteq Keys /\ NoKey \notin Keys

(* "alg": the scheme identifier of the key, one byte; "pub": the public    *)
(* key; "sig": <scheme> <signature> <hash type>, and "bad": the same for   *)
(* another transaction; "env": a QuantumSignature as Serialize writes it,  *)
(* <scheme> <length> <signature> <length> <public key>.                    *)
KeyKinds == {"alg", "pub", "sig", "bad", "env"}
Empty    == <<"empty", NoKey>>
True     == <<"true", NoKey>>   \* the byte 01
Other    == <<"other", NoKey>>  \* 72 bytes of anything
Elements == (KeyKinds \X Keys) \cup {Empty, True, Other}

SizeOf(e) ==
    LET ml == e[2] \in MLKeys
    IN  CASE e[1] = "empty" -> 0
          [] e[1] \in {"true", "alg"} -> 1
          [] e[1] = "other" -> 72
          [] e[1] = "pub" -> IF ml THEN 1952 ELSE 48
          [] e[1] \in {"sig", "bad"} -> IF ml THEN 3311 ELSE 35666
          [] e[1] = "env" -> IF ml THEN 5268 ELSE 35717

(* An operation of a script: a push, or one of the two opcodes. *)
Push(e)     == <<"push", e>>
CheckSig    == <<"OP_CHECKSIG_EX", Empty>>
CheckVerify == <<"OP_CHECKSIGVERIFY_EX", Empty>>
Ops         == {Push(e) : e \in Elements} \cup {CheckSig, CheckVerify}

OpSize(op) ==
    IF op[1] # "push" THEN 1
    ELSE LET n == SizeOf(op[2])
         IN  n + (CASE n = 0 -> 1 [] n \in 1..75 -> 1 [] n \in 76..255 -> 2 [] OTHER -> 3)
ScriptSize(script) == FoldLeft(LAMBDA n, op : n + OpSize(op), 0, script)

(* The witness script of the wallet's addresses. *)
CreateQuantumWitnessScript(k) == <<Push(<<"pub", k>>), CheckSig>>

-----------------------------------------------------------------------------
(* Script flags; those that no quantum opcode looks at are left out. *)
Flags == [quantum : BOOLEAN, nullfail : BOOLEAN, minimaldata : BOOLEAN, discourage : BOOLEAN]
STANDARD_SCRIPT_VERIFY_FLAGS ==
    [quantum |-> TRUE, nullfail |-> TRUE, minimaldata |-> TRUE, discourage |-> TRUE]
(* GetBlockScriptFlags of a block at which the deployment is active or not. *)
GetBlockScriptFlags(active) ==
    [quantum |-> active, nullfail |-> FALSE, minimaldata |-> FALSE, discourage |-> FALSE]

(* The exception to MAX_SCRIPT_ELEMENT_SIZE, by size.  (It also admits one *)
(* size of witness script, that of no element here.)                       *)
ElementAllowedIfStandard(flags, e) ==
    \/ SizeOf(e) <= 520
    \/ flags.discourage /\ SizeOf(e) \in (3310..3320) \cup (35665..35680) \cup {1952}
ElementAllowed(flags, e) ==
    \/ SizeOf(e) <= 520
    \/ flags.quantum /\ SizeOf(e) \in (3310..3320) \cup (35665..35680) \cup {1952}

(* EvalChecksigQuantum and CheckQuantumSignature: the scheme comes from    *)
(* the first byte of the signature, and the public key must be one of that *)
(* scheme.                                                                 *)
VerifiesAnyKey(sig, pub) == sig[1] = "sig" /\ pub[1] = "pub"
Verifies(sig, pub) == sig[1] = "sig" /\ pub = <<"pub", sig[2]>>

Failed == [ok |-> FALSE, stack |-> <<>>]
With(stack) == [ok |-> TRUE, stack |-> stack]

EvalPush(flags, stack, e) ==
    IF ElementAllowed(flags, e) /\ ~(flags.minimaldata /\ e[1] \in {"alg", "true"})
      THEN With(Append(stack, e)) ELSE Failed

(* A check that does not succeed ends the script: NULLFAIL, or the VERIFY  *)
(* opcode.                                                                 *)
NullfailOnly(flags, vchSig, verify) == flags.nullfail /\ vchSig # Empty
FailureAborts(flags, vchSig, verify) == verify \/ (flags.nullfail /\ vchSig # Empty)

(* Without the flag the opcodes do nothing. *)
EvalChecksigEx(flags, stack, verify) ==
    IF ~flags.quantum THEN (IF flags.discourage THEN Failed ELSE With(stack))
    ELSE IF Len(stack) < 2 THEN Failed
    ELSE LET rest    == SubSeq(stack, 1, Len(stack) - 2)
             vchSig  == stack[Len(stack) - 1]
             success == Verifies(vchSig, Last(stack))
         IN  IF ~success /\ FailureAborts(flags, vchSig, verify) THEN Failed
             ELSE IF verify THEN With(rest)
             ELSE With(Append(rest, IF success THEN True ELSE Empty))

EvalOp(flags, state, op) ==
    IF ~state.ok THEN state
    ELSE IF op[1] = "push" THEN EvalPush(flags, state.stack, op[2])
    ELSE EvalChecksigEx(flags, state.stack, op = CheckVerify)

(* EvalScript, from a stack *)
EvalScript(flags, stack, script) ==
    IF ScriptSize(script) > 10000 THEN Failed
    ELSE FoldLeft(LAMBDA state, op : EvalOp(flags, state, op), With(stack), script)

(* ExecuteWitnessScript; the witness is given without the script, which    *)
(* has the hash that the output commits to.                                *)
ExecuteWitnessScript(flags, witness, script) ==
    /\ \A i \in DOMAIN witness : ElementAllowed(flags, witness[i])
    /\ LET end == EvalScript(flags, witness, script)
       IN  end.ok /\ Len(end.stack) = 1 /\ end.stack[1] # Empty

-----------------------------------------------------------------------------
(* Relay policy *)

(* The scripts that IsWitnessStandard takes for quantum ones. *)
IsQuantumScript(script) ==
    \E j, k \in Keys : /\ script = <<Push(<<"alg", j>>), Push(<<"pub", k>>), CheckSig>>
                       /\ j \in MLKeys <=> k \in MLKeys

IsWitnessStandard(witness, script) ==
    LET quantum == IsQuantumScript(script)
    IN  /\ ScriptSize(script) <= (IF quantum THEN 25000 ELSE 3600)
        /\ Len(witness) <= 100
        /\ \A i \in DOMAIN witness :
              SizeOf(witness[i]) <= (IF quantum THEN 50000 ELSE 80)

(* The signatures of an input that CountQuantumSignatures and              *)
(* CheckQuantumSignaturePolicy see: those ParseQuantumSignature reads.     *)
QuantumSignatures(witness) ==
    {i \in DOMAIN witness : SizeOf(witness[i]) > 100 /\ witness[i][1] = "env"}
=============================================================================
