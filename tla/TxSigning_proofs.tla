-------------------------- MODULE TxSigning_proofs --------------------------
(***************************************************************************)
(* Proofs about TxSigning, for any number of inputs and ScriptPubKeyMans.  *)
(*                                                                         *)
(* FreshOutcome speaks of the end of the call.  The invariant behind it    *)
(* says where the call is after any part of the loop: the witnesses are    *)
(* the best that the SPKMs tried so far can make.  The difficult fact is   *)
(* that the progress check, which looks at the first changed input only,   *)
(* then never undoes a change: without stale signatures every change makes *)
(* a witness longer (ChangeIsProgress), so the first one does too.         *)
(* TrueOutcome, for any witnesses to begin with, is an invariant itself.   *)
(***************************************************************************)
EXTENDS TxSigning, TLAPS, NaturalsInduction, WellFoundedInduction

(* The best witness that the SPKMs of a set can make for an input. *)
BestOf(i, tried) ==
    IF i \notin coins \ unmatched \/ start[i] = "valid" THEN start[i]
    ELSE IF \E d \in tried : provides[d][i] = "key" THEN "valid"
    ELSE IF start[i] = "script" \/ \E d \in tried : provides[d][i] = "script" THEN "script"
    ELSE "empty"

NoStale  == \A i \in Inputs : start[i] # "stale"
Complete == \A i \in Inputs : i \in coins \ amountless /\ witness[i] = "valid"

(* The loop invariant of CWallet::SignTransaction. *)
LoopInv ==
    NoStale =>
        /\ \A i \in Inputs : witness[i] = BestOf(i, Spkms \ todo)
        /\ result = "true" => Complete
        /\ result # "true" => todo = Spkms \/ ~Complete
        /\ result = "false" => todo = {}

SigningInv == TypeOK /\ LoopInv /\ TrueOutcome

-----------------------------------------------------------------------------
(* A set of inputs that is not empty has a first one. *)
LEMMA FirstInput ==
    ASSUME NEW T \in SUBSET Inputs, T # {}
    PROVE  \E i \in T : \A j \in T : ~(j < i)
<1>1. T \subseteq Nat
  BY NAssumption DEF Inputs
<1>2. \E i \in T : \A j \in T : <<j, i>> \notin OpToRel(<, Nat)
  BY <1>1, WFMin, NatLessThanWellFounded
<1>3. PICK i \in T : \A j \in T : <<j, i>> \notin OpToRel(<, Nat)
  BY <1>2
<1>4. ASSUME NEW j \in T PROVE ~(j < i)
  BY <1>1, <1>3 DEF OpToRel
<1> QED
  BY <1>4

(* ProduceSignature and UpdateInput leave one of the four witnesses. *)
LEMMA ProducedType ==
    ASSUME NEW p \in Provisions, NEW w \in Witnesses
    PROVE  Produced(p, w) \in Witnesses
BY DEF Produced, Witnesses

(* ::SignTransaction leaves every input with one of the four witnesses. *)
LEMMA SignedType ==
    ASSUME TypeOK, NEW d \in Spkms
    PROVE  Signed(d) \in [Inputs -> Witnesses]
<1>1. ASSUME NEW i \in Inputs
      PROVE  Produced(provides[d][i], witness[i]) \in Witnesses
  BY ProducedType DEF TypeOK
<1> QED
  BY <1>1 DEF Signed, TypeOK

(* A step of the loop keeps the types. *)
LEMMA StepType == TypeOK /\ [Next]_vars => TypeOK'
<1> SUFFICES ASSUME TypeOK, [Next]_vars PROVE TypeOK'
  OBVIOUS
<1>1. CASE GiveUp
  BY <1>1 DEF GiveUp, TypeOK, given
<1>2. ASSUME NEW d \in Spkms, TrySpkm(d) PROVE TypeOK'
  <2>1. witness' \in [Inputs -> Witnesses]
    BY <1>2, SignedType DEF TrySpkm, TypeOK
  <2>2. input_errors' \in SUBSET Inputs
    BY <1>2 DEF TrySpkm, Errors
  <2>3. todo' \in SUBSET Spkms /\ result' \in {"none", "true", "false"}
    BY <1>2 DEF TrySpkm, TypeOK
  <2> QED
    BY <1>2, <2>1, <2>2, <2>3 DEF TrySpkm, TypeOK, given
<1>3. CASE UNCHANGED vars
  BY <1>3 DEF vars, given, TypeOK
<1> QED
  BY <1>1, <1>2, <1>3 DEF Next

-----------------------------------------------------------------------------
(* A signature that verifies survives one SPKM. *)
LEMMA StepValid ==
    ASSUME TypeOK, [Next]_vars, NEW i \in Inputs, witness[i] = "valid"
    PROVE  witness'[i] = "valid"
<1>1. CASE GiveUp
  BY <1>1 DEF GiveUp
<1>2. ASSUME NEW d \in Spkms, TrySpkm(d) PROVE witness'[i] = "valid"
  <2>1. Signed(d)[i] = "valid"
    BY DEF Signed, Produced
  <2> QED
    BY <1>2, <2>1 DEF TrySpkm
<1>3. CASE UNCHANGED vars
  BY <1>3 DEF vars
<1> QED
  BY <1>1, <1>2, <1>3 DEF Next

(* Without a stale signature, whatever an SPKM changes gets longer, so the *)
(* first change it makes counts as progress.                               *)
LEMMA ChangeIsProgress ==
    ASSUME TypeOK, NEW d \in Spkms, Signed(d) # witness,
           \A i \in Inputs : witness[i] # "stale"
    PROVE  MadeProgress(Signed(d))
<1> DEFINE T == {i \in Inputs : Signed(d)[i] # witness[i]}
<1>1. Signed(d) \in [Inputs -> Witnesses] /\ witness \in [Inputs -> Witnesses]
  BY SignedType DEF TypeOK
<1>2. T # {}
  BY <1>1
<1>3. PICK i \in T : \A j \in T : ~(j < i)
  <2>1. T \in SUBSET Inputs
    OBVIOUS
  <2> HIDE DEF T
  <2> QED
    BY <1>2, <2>1, FirstInput
<1>4. \A j \in Inputs : j < i => Signed(d)[j] = witness[j]
  BY <1>3
<1>5. StackSize(Signed(d)[i]) > StackSize(witness[i])
  <2>1. Signed(d)[i] = Produced(provides[d][i], witness[i])
    BY DEF Signed
  <2>2. witness[i] \in {"empty", "script", "valid"}
    BY <1>1 DEF Witnesses
  <2>3. \/ witness[i] = "empty" /\ Signed(d)[i] \in {"script", "valid"}
        \/ witness[i] = "script" /\ Signed(d)[i] = "valid"
    BY <2>1, <2>2 DEF Produced
  <2> QED
    BY <2>3 DEF StackSize
<1> QED
  BY <1>3, <1>4, <1>5 DEF MadeProgress

(* So the witnesses are always those ::SignTransaction made. *)
LEMMA NothingUndone ==
    ASSUME TypeOK, NEW d \in Spkms, TrySpkm(d),
           \A i \in Inputs : witness[i] # "stale"
    PROVE  witness' = Signed(d)
BY ChangeIsProgress DEF TrySpkm

-----------------------------------------------------------------------------
(* The loop starts with nothing tried. *)
LEMMA InitSigningInv == Init => SigningInv
<1> SUFFICES ASSUME Init PROVE SigningInv
  OBVIOUS
<1>1. TypeOK
  BY DEF Init, TypeOK
<1>2. ASSUME NoStale, NEW i \in Inputs PROVE witness[i] = BestOf(i, Spkms \ todo)
  BY <1>1, <1>2 DEF Init, NoStale, BestOf, TypeOK, Witnesses
<1> QED
  BY <1>1, <1>2 DEF Init, SigningInv, LoopInv, TrueOutcome

(* One more SPKM: the best witness of those tried, for every input. *)
LEMMA StepBest ==
    ASSUME TypeOK, LoopInv, NoStale, NEW d \in Spkms, TrySpkm(d), NEW i \in Inputs
    PROVE  (witness[i] = BestOf(i, Spkms \ todo) => witness'[i] = BestOf(i, Spkms \ todo)')
<1> DEFINE Before == Spkms \ todo
<1>1. (Spkms \ todo)' = Before \cup {d} /\ d \in Spkms
  BY DEF TrySpkm
<1>2. witness' = Signed(d)
  <2>1. \A j \in Inputs : witness[j] # "stale"
    BY DEF LoopInv, NoStale, BestOf
  <2> QED
    BY <2>1, NothingUndone
<1>3. coins' = coins /\ unmatched' = unmatched /\ provides' = provides /\ start' = start
  BY DEF TrySpkm, given
<1>4. start[i] \in {"empty", "script", "valid"}
  BY DEF TypeOK, NoStale, Witnesses
<1>5. BestOf(i, Spkms \ todo)' =
        IF i \notin coins \ unmatched \/ start[i] = "valid" THEN start[i]
        ELSE IF \E e \in Before \cup {d} : provides[e][i] = "key" THEN "valid"
        ELSE IF start[i] = "script" \/ \E e \in Before \cup {d} : provides[e][i] = "script"
             THEN "script"
        ELSE "empty"
  BY <1>1, <1>3 DEF BestOf
<1>6. witness'[i] = IF i \in coins \ unmatched THEN Produced(provides[d][i], witness[i])
                    ELSE witness[i]
  BY <1>2 DEF Signed
<1> HIDE DEF Before
<1>7. SUFFICES ASSUME witness[i] = BestOf(i, Before)
               PROVE  witness'[i] = BestOf(i, Spkms \ todo)'
  BY DEF Before
<1> QED
  BY <1>4, <1>5, <1>6, <1>7 DEF BestOf, Produced

(* A step keeps the loop invariant. *)
LEMMA StepLoop == SigningInv /\ [Next]_vars => LoopInv'
<1> SUFFICES ASSUME TypeOK, LoopInv, [Next]_vars PROVE LoopInv'
  BY DEF SigningInv
<1>1. CASE GiveUp
  BY <1>1, SpkmsAssumption DEF GiveUp, given, LoopInv, NoStale, BestOf, Complete
<1>2. ASSUME NEW d \in Spkms, TrySpkm(d) PROVE LoopInv'
  <2>1. NoStale' <=> NoStale
    BY <1>2 DEF TrySpkm, given, NoStale
  <2>2. SUFFICES ASSUME NoStale PROVE
          /\ \A i \in Inputs : witness'[i] = BestOf(i, Spkms \ todo)'
          /\ result' = "true" => Complete'
          /\ result' # "true" => todo' = Spkms \/ ~Complete'
          /\ result' = "false" => todo' = {}
    BY <2>1 DEF LoopInv
  <2>3. ASSUME NEW i \in Inputs PROVE witness'[i] = BestOf(i, Spkms \ todo)'
    BY <1>2, <2>2, StepBest DEF LoopInv
  <2>4. witness' = Signed(d)
    <3>1. \A j \in Inputs : witness[j] # "stale"
      BY <2>2 DEF LoopInv, NoStale, BestOf
    <3> QED
      BY <1>2, <3>1, NothingUndone
  <2>5. Errors(d) = {} <=> Complete'
    BY <1>2, <2>4 DEF Errors, Complete, TrySpkm, given
  <2> QED
    BY <1>2, <2>3, <2>5 DEF TrySpkm
<1>3. CASE UNCHANGED vars
  BY <1>3 DEF vars, given, LoopInv, NoStale, BestOf, Complete
<1> QED
  BY <1>1, <1>2, <1>3 DEF Next

(* A value true comes from an attempt that gave every input a signature    *)
(* that verifies; if it was taken back, the first input it changed had a   *)
(* witness of the same length, a stale one.                                *)
LEMMA StepTrue == TypeOK /\ TrueOutcome /\ [Next]_vars => TrueOutcome'
<1> SUFFICES ASSUME TypeOK, TrueOutcome, [Next]_vars, result' = "true"
             PROVE  \/ \A i \in Inputs : witness'[i] = "valid"
                    \/ \E i \in Inputs : witness'[i] = "stale"
  BY DEF TrueOutcome
<1>1. CASE UNCHANGED vars
  BY <1>1 DEF vars, TrueOutcome
<1>2. CASE GiveUp
  BY <1>2 DEF GiveUp
<1>3. ASSUME NEW d \in Spkms, TrySpkm(d)
      PROVE  \/ \A i \in Inputs : witness'[i] = "valid"
             \/ \E i \in Inputs : witness'[i] = "stale"
  <2>1. ASSUME NEW i \in Inputs PROVE Signed(d)[i] = "valid"
    BY <1>3 DEF TrySpkm, Errors
  <2>2. CASE MadeProgress(Signed(d))
    BY <1>3, <2>1, <2>2 DEF TrySpkm
  <2>3. CASE ~MadeProgress(Signed(d))
    <3> DEFINE T == {i \in Inputs : witness[i] # "valid"}
    <3>1. witness' = witness
      BY <1>3, <2>3 DEF TrySpkm
    <3>2. CASE T = {}
      BY <3>1, <3>2
    <3>3. CASE T # {}
      <4>1. PICK i \in T : \A j \in T : ~(j < i)
        BY <3>3, FirstInput
      <4>2. /\ Signed(d)[i] # witness[i]
            /\ \A j \in Inputs : j < i => Signed(d)[j] = witness[j]
        BY <2>1, <4>1
      <4>3. ~(StackSize(Signed(d)[i]) > StackSize(witness[i]))
        BY <2>3, <4>1, <4>2 DEF MadeProgress
      <4>4. witness[i] \in Witnesses /\ Signed(d)[i] = "valid"
        BY <2>1, <4>1 DEF TypeOK
      <4>5. witness[i] = "stale"
        BY <4>1, <4>3, <4>4 DEF StackSize, Witnesses
      <4> QED
        BY <3>1, <4>1, <4>5
    <3> QED
      BY <3>2, <3>3
  <2> QED
    BY <2>2, <2>3
<1> QED
  BY <1>1, <1>2, <1>3 DEF Next

(* SigningInv is an invariant of the loop of CWallet::SignTransaction. *)
THEOREM SigningInvariant == Spec => []SigningInv
<1>1. SigningInv /\ [Next]_vars => SigningInv'
  BY StepType, StepLoop, StepTrue DEF SigningInv
<1> QED
  BY InitSigningInv, <1>1, PTL DEF Spec

(* The variables of the signing loop keep their types. *)
THEOREM SigningTypeCorrect == Spec => []TypeOK
<1>1. SigningInv => TypeOK
  BY DEF SigningInv
<1> QED
  BY SigningInvariant, <1>1, PTL

(* No SPKM ever destroys a signature that verifies, for any number of      *)
(* inputs and any stale or partial witnesses to begin with.                *)
THEOREM SigningKeepsValid == Spec => ValidStaysValid
<1>1. TypeOK /\ [Next]_vars =>
        [\A i \in Inputs : witness[i] = "valid" => witness'[i] = "valid"]_vars
  BY StepValid
<1> QED
  BY SigningTypeCorrect, <1>1, PTL DEF Spec, ValidStaysValid

(* Without stale signatures, the call ends with everything signed that the *)
(* wallet has keys for (and SIGHASH_SINGLE an output for), in whatever     *)
(* order the SPKMs were tried, and returns true exactly when every input   *)
(* verifies and has a known amount.  With stale signatures, true may also  *)
(* be returned when one of them was left, and only then.                   *)
THEOREM SigningOutcome == Spec => []Outcome
<1>1. SigningInv => FreshOutcome
  <2> SUFFICES ASSUME TypeOK, LoopInv, result # "none", NoStale
               PROVE  /\ \A i \in Inputs : witness[i] = BestWitness(i)
                      /\ (result = "true") = (\A i \in Inputs : i \in coins \ amountless /\ BestWitness(i) = "valid")
    BY DEF SigningInv, FreshOutcome, NoStale
  <2>1. CASE result = "false"
    <3>1. todo = {} /\ todo # Spkms /\ ~Complete
      BY <2>1, SpkmsAssumption DEF LoopInv
    <3>2. ASSUME NEW i \in Inputs PROVE witness[i] = BestWitness(i)
      BY <3>1 DEF LoopInv, BestOf, BestWitness
    <3> QED
      BY <2>1, <3>1, <3>2 DEF Complete
  <2>2. CASE result = "true"
    <3>1. Complete
      BY <2>2 DEF LoopInv
    <3>2. ASSUME NEW i \in Inputs PROVE BestWitness(i) = "valid"
      BY <3>1, SpkmsAssumption DEF Complete, LoopInv, BestOf, BestWitness, TypeOK
    <3> QED
      BY <2>2, <3>1, <3>2 DEF Complete
  <2> QED
    BY <2>1, <2>2 DEF TypeOK
<1>2. SigningInv => Outcome
  BY <1>1 DEF SigningInv, Outcome
<1> QED
  BY SigningInvariant, <1>2, PTL
=============================================================================
