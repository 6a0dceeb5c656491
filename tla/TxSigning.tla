------------------------------ MODULE TxSigning ------------------------------
(***************************************************************************)
(* CWallet::SignTransaction on a transaction that spends quantum P2WSH     *)
(* outputs: the ScriptPubKeyMans of the wallet are offered the transaction *)
(* one after the other, in any order (they come from a set of pointers).   *)
(* Each runs ::SignTransaction over all inputs, and then undoes everything *)
(* it did when the first input it changed does not have a longer witness.  *)
(***************************************************************************)
EXTENDS Integers, FiniteSets

CONSTANTS N,      \* number of inputs
          Spkms   \* the ScriptPubKeyMans

ASSUME NAssumption     == N \in Nat \ {0}
ASSUME SpkmsAssumption == Spkms # {}

Inputs == 1..N

(* The witness of an input: nothing; only the witness script, left by a    *)
(* signer without the key; a signature that does not verify (made for an   *)
(* earlier version of the transaction) and the script; or a signature that *)
(* verifies and the script.                                                *)
Witnesses == {"empty", "script", "stale", "valid"}
StackSize(w) == CASE w = "empty" -> 0 [] w = "script" -> 1 [] OTHER -> 2

(* What the signing provider of an SPKM holds for an input. *)
Provisions == {"none", "script", "key"}

VARIABLES
    coins,         \* the inputs whose spent output is known and unspent
    amountless,    \* those of them whose amount is not known (it is MAX_MONEY)
    unmatched,     \* the inputs without an output of their index, for SIGHASH_SINGLE
    provides,      \* SPKM |-> input |-> what its provider holds
    start,         \* the witnesses the call was given
    witness,       \* input |-> its scriptWitness
    input_errors,  \* inputs with an entry in input_errors
    todo,          \* SPKMs that have not been tried
    result         \* "none" while running, then the value returned

given == <<coins, amountless, unmatched, provides, start>>
vars  == <<given, witness, input_errors, todo, result>>

TypeOK ==
    /\ {coins, amountless, unmatched} \subseteq SUBSET Inputs
    /\ provides \in [Spkms -> [Inputs -> Provisions]]
    /\ start \in [Inputs -> Witnesses]
    /\ witness \in [Inputs -> Witnesses]
    /\ input_errors \in SUBSET Inputs
    /\ todo \in SUBSET Spkms
    /\ result \in {"none", "true", "false"}

(* A script is tracked by at most one SPKM: OneOwner of QuantumWallet. *)
Init ==
    /\ coins \in SUBSET Inputs /\ amountless \in SUBSET coins
    /\ \E vout_size \in 0..N : unmatched = {i \in Inputs : i > vout_size}
    /\ provides \in {p \in [Spkms -> [Inputs -> Provisions]] :
                       \A i \in Inputs : \A d, e \in Spkms :
                          p[d][i] # "none" /\ p[e][i] # "none" => d = e}
    /\ start \in [Inputs -> Witnesses]
    /\ witness = start
    /\ input_errors = {}
    /\ todo = Spkms
    /\ result = "none"

-----------------------------------------------------------------------------
(* DataFromTransaction, ProduceSignature and UpdateInput for one input.  A *)
(* witness that verifies is complete and kept.  Otherwise the key gives a  *)
(* signature; without it, a witness script from the provider or from the   *)
(* old witness is all that is put back.                                    *)
ProducedAfresh(p, w) ==
    IF p = "key" THEN "valid"
    ELSE IF p = "script" \/ w # "empty" THEN "script"
    ELSE "empty"
Produced(p, w) ==
    IF w = "valid" \/ p = "key" THEN "valid"
    ELSE IF p = "script" \/ w # "empty" THEN "script"
    ELSE "empty"

(* ::SignTransaction: every input whose coin is known, and which, under    *)
(* SIGHASH_SINGLE, has an output.                                          *)
Signed(d) == [i \in Inputs |-> IF i \in coins \ unmatched THEN Produced(provides[d][i], witness[i])
                                                          ELSE witness[i]]
ErrorsFromZero(d) == {i - 1 : i \in {j \in Inputs : j \notin coins \/ Signed(d)[j] # "valid"}}
(* Its errors: the coin is not known; the witness commits to an amount     *)
(* that is not known; the input does not verify.  Errors of earlier SPKMs  *)
(* are kept for the inputs it does not complete.                           *)
Errors(d) ==
    {i \in Inputs : \/ i \notin coins
                    \/ i \in amountless /\ Signed(d)[i] # "empty"
                    \/ Signed(d)[i] # "valid"}

(* The loop that looks for progress stops at the first input that changed. *)
MadeProgressFromEmpty(new) ==
    \E i \in Inputs :
        /\ new[i] # witness[i]
        /\ \A j \in Inputs : j < i => new[j] = witness[j]
        /\ StackSize(new[i]) > 0 /\ StackSize(witness[i]) = 0
MadeProgress(new) ==
    \E i \in Inputs :
        /\ new[i] # witness[i]
        /\ \A j \in Inputs : j < i => new[j] = witness[j]
        /\ StackSize(new[i]) > StackSize(witness[i])

(* DescriptorScriptPubKeyMan::SignTransaction, and the loop of             *)
(* CWallet::SignTransaction around it.  The value returned is that of      *)
(* ::SignTransaction, whether or not the witnesses were put back.          *)
TrySpkm(d) ==
    /\ result = "none" /\ d \in todo
    /\ todo' = todo \ {d}
    /\ witness' = IF MadeProgress(Signed(d)) THEN Signed(d) ELSE witness
    /\ input_errors' = Errors(d)
    /\ result' = IF Errors(d) = {} THEN "true" ELSE "none"
    /\ UNCHANGED given

(* Every SPKM was tried. *)
GiveUp ==
    /\ result = "none" /\ todo = {}
    /\ result' = "false"
    /\ UNCHANGED <<given, witness, input_errors, todo>>

Next == GiveUp \/ \E d \in Spkms : TrySpkm(d)
Spec == Init /\ [][Next]_vars

-----------------------------------------------------------------------------
(* Properties *)

(* A signature that verifies is never lost to another SPKM: this is what   *)
(* the progress check of DescriptorScriptPubKeyMan::SignTransaction is     *)
(* for.                                                                    *)
ValidStaysValid == [][\A i \in Inputs : witness[i] = "valid" => witness'[i] = "valid"]_vars

(* The reference result for a transaction without stale signatures: every  *)
(* input that may be signed and for which some SPKM has the key is signed, *)
(* and the others get their witness script if anyone knows it.             *)
BestWitness(i) ==
    IF i \notin coins \ unmatched \/ start[i] = "valid" THEN start[i]
    ELSE IF \E d \in Spkms : provides[d][i] = "key" THEN "valid"
    ELSE IF start[i] = "script" \/ \E d \in Spkms : provides[d][i] = "script" THEN "script"
    ELSE "empty"

(* Without stale signatures, the call signs all that the wallet can sign,  *)
(* in whatever order the SPKMs come, and returns true exactly when every   *)
(* input has a witness that verifies and commits to a known amount.        *)
FreshOutcome ==
    result # "none" /\ (\A i \in Inputs : start[i] # "stale") =>
        /\ \A i \in Inputs : witness[i] = BestWitness(i)
        /\ (result = "true") =
           (\A i \in Inputs : i \in coins \ amountless /\ BestWitness(i) = "valid")

(* When true is returned, every input of the transaction that the caller   *)
(* gets has a signature that verifies, or a stale one was left in it: a    *)
(* new signature in the place of a stale one leaves the witness as long as *)
(* it was, so all that was done is taken back, and the value returned is   *)
(* still that of the attempt.  Nothing else makes the value wrong.         *)
TrueOutcome ==
    result = "true" => \/ \A i \in Inputs : witness[i] = "valid"
                       \/ \E i \in Inputs : witness[i] = "stale"

(* What the caller of CWallet::SignTransaction can rely on. *)
Outcome == FreshOutcome /\ TrueOutcome
=============================================================================
