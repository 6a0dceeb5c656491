------------------------ MODULE QuantumScript_proofs ------------------------
(***************************************************************************)
(* Proofs about QuantumScript and QuantumScriptCheck, for scripts and      *)
(* witness stacks of any length: how a script runs, operation by           *)
(* operation; that the standard flags only add restrictions; and what      *)
(* spends an address.                                                      *)
(***************************************************************************)
EXTENDS QuantumScriptCheck, NaturalsInduction, WellFoundedInduction, SequenceTheorems, TLAPS

(* A set of natural numbers has a least element. *)
LEMMA LeastNatural ==
  ASSUME NEW T, T \subseteq Nat, T # {}
  PROVE  \E m \in T : \A k \in T : m <= k
  <1>1. PICK m \in T : \A k \in T : <<k, m>> \notin OpToRel(<, Nat)
    BY WFMin, NatLessThanWellFounded
  <1>2. \A k \in T : ~(k < m)
    BY <1>1 DEF OpToRel
  <1> QED BY <1>2

(* Induction, for a set of natural numbers. *)
LEMMA InductiveSet ==
  ASSUME NEW T, 0 \in T, \A n \in Nat \ {0} : n - 1 \in T => n \in T
  PROVE  \A n \in Nat : n \in T
  <1> SUFFICES ASSUME NEW n \in Nat, n \notin T PROVE FALSE
    OBVIOUS
  <1>1. PICK m \in Nat \ T : \A k \in Nat \ T : m <= k
    <2> DEFINE M == Nat \ T
    <2>1. M \subseteq Nat /\ M # {}
      OBVIOUS
    <2> HIDE DEF M
    <2>2. \E m \in M : \A k \in M : m <= k
      BY <2>1, LeastNatural
    <2> QED BY <2>2 DEF M
  <1>2. m # 0 /\ m - 1 \in Nat
    BY <1>1
  <1>3. m - 1 \in T
    BY <1>1, <1>2
  <1> QED BY <1>1, <1>2, <1>3

(* The largest element of a set of numbers up to k that holds k. *)
LEMMA MaxIsBound ==
  ASSUME NEW k \in Nat, NEW s \in SUBSET (1..k), k \in s
  PROVE  Max(s) = k
  <1>1. \A y \in s : y \in Int /\ k >= y
    OBVIOUS
  <1>2. \A x \in s : (\A y \in s : x >= y) => x = k
    BY <1>1
  <1> QED BY <1>1, <1>2 DEF Max

(* EvalScript runs the operations one after the other.  FoldLeft is        *)
(* defined by recursion over the subsets of the domain of the script; that *)
(* recursion has a solution for 1..k for every k, by induction.            *)
EvalSolves(h, k, flags, stack, ops) ==
    h = [s \in SUBSET (1..k) |->
           IF s = {} THEN With(stack)
           ELSE EvalOp(flags, h[s \ {Max(s)}], ops[Max(s)])]

(* Such a solution exists. *)
LEMMA EvalSolution ==
  ASSUME NEW flags, NEW stack, NEW ops, NEW n \in Nat
  PROVE  \E h : EvalSolves(h, n, flags, stack, ops)
  <1> DEFINE T == {k \in Nat : \E h : EvalSolves(h, k, flags, stack, ops)}
  <1>1. 0 \in T
    <2> DEFINE h == [s \in SUBSET (1..0) |-> With(stack)]
    <2>1. \A s \in SUBSET (1..0) : s = {}
      OBVIOUS
    <2>2. EvalSolves(h, 0, flags, stack, ops)
      BY <2>1 DEF EvalSolves
    <2> QED BY <2>2
  <1>2. ASSUME NEW k \in Nat \ {0}, k - 1 \in T PROVE k \in T
    <2>1. PICK h : EvalSolves(h, k - 1, flags, stack, ops)
      BY <1>2
    <2> DEFINE g == [s \in SUBSET (1..k) |->
                       IF k \in s THEN EvalOp(flags, h[s \ {k}], ops[k]) ELSE h[s]]
    <2>2. ASSUME NEW s \in SUBSET (1..k)
          PROVE  g[s] = IF s = {} THEN With(stack)
                        ELSE EvalOp(flags, g[s \ {Max(s)}], ops[Max(s)])
      <3>1. CASE k \in s
        <4>1. Max(s) = k
          BY <3>1, MaxIsBound
        <4>2. s \ {k} \in SUBSET (1..k) /\ k \notin s \ {k}
          OBVIOUS
        <4> QED BY <3>1, <4>1, <4>2
      <3>2. CASE k \notin s
        <4>1. s \in SUBSET (1..(k - 1)) /\ s \in SUBSET (1..k)
          BY <3>2
        <4>2. s \ {Max(s)} \in SUBSET (1..k) /\ k \notin s \ {Max(s)}
          BY <3>2
        <4>3. g[s] = h[s] /\ g[s \ {Max(s)}] = h[s \ {Max(s)}]
          BY <3>2, <4>1, <4>2
        <4>4. h[s] = IF s = {} THEN With(stack)
                     ELSE EvalOp(flags, h[s \ {Max(s)}], ops[Max(s)])
          BY <2>1, <4>1 DEF EvalSolves
        <4> QED BY <4>3, <4>4
      <3> QED BY <3>1, <3>2
    <2>3. EvalSolves(g, k, flags, stack, ops)
      <3>1. g = [s \in SUBSET (1..k) |-> g[s]]
        OBVIOUS
      <3> HIDE DEF g
      <3> QED BY <2>2, <3>1 DEF EvalSolves
    <2> QED BY <2>3
  <1> HIDE DEF T
  <1>3. n \in T
    BY <1>1, <1>2, InductiveSet
  <1> QED BY <1>3 DEF T

(* The operations of EvalScript, whatever the size of the script. *)
EvalOps(flags, stack, ops) ==
    FoldLeft(LAMBDA state, op : EvalOp(flags, state, op), With(stack), ops)

(* EvalScript without the fold. *)
LEMMA EvalScriptOps ==
  ASSUME NEW flags, NEW stack, NEW ops
  PROVE  EvalScript(flags, stack, ops)
           = IF ScriptSize(ops) > 10000 THEN Failed ELSE EvalOps(flags, stack, ops)
  BY DEF EvalScript, EvalOps

(* EvalScript is a run of EvalOp over the script. *)
LEMMA EvalRun ==
  ASSUME NEW flags, NEW stack, NEW S, NEW ops \in Seq(S)
  PROVE  \E run : /\ run[0] = With(stack)
                  /\ \A i \in 1..Len(ops) : run[i] = EvalOp(flags, run[i - 1], ops[i])
                  /\ run[Len(ops)] = EvalOps(flags, stack, ops)
  <1> DEFINE n    == Len(ops)
             iter == CHOOSE h : EvalSolves(h, n, flags, stack, ops)
             run  == [i \in 0..n |-> iter[1..i]]
  <1>0. n \in Nat /\ DOMAIN ops = 1..n
    OBVIOUS
  <1>1. EvalSolves(iter, n, flags, stack, ops)
    BY <1>0, EvalSolution
  <1>2. EvalOps(flags, stack, ops) = iter[1..n]
    BY <1>0 DEF EvalOps, FoldLeft, MapThenFoldSet, EvalSolves
  <1> HIDE DEF iter
  <1>3. run[0] = With(stack)
    <2>1. 1..0 = {} /\ 1..0 \in SUBSET (1..n)
      OBVIOUS
    <2> QED BY <1>0, <1>1, <2>1 DEF EvalSolves
  <1>4. ASSUME NEW i \in 1..n PROVE run[i] = EvalOp(flags, run[i - 1], ops[i])
    <2>0. i \in Nat /\ i >= 1 /\ i <= n
      BY <1>0
    <2>1. /\ (1..i) \in SUBSET (1..n) /\ i \in 1..i
          /\ (1..i) \in SUBSET (1..i) /\ i \in Nat
      BY <1>0, <2>0
    <2>2. Max(1..i) = i /\ 1..i # {}
      BY <2>1, MaxIsBound
    <2>3. (1..i) \ {i} = 1..(i - 1)
      BY <1>0
    <2>4. iter[1..i] = EvalOp(flags, iter[1..(i - 1)], ops[i])
      BY <1>1, <2>1, <2>2, <2>3 DEF EvalSolves
    <2>5. i \in 0..n /\ i - 1 \in 0..n
      BY <1>0
    <2> QED BY <2>4, <2>5
  <1>5. run[n] = iter[1..n]
    BY <1>0
  <1> HIDE DEF run
  <1> QED BY <1>2, <1>3, <1>4, <1>5

(* One operation that the standard flags let pass does the same under the  *)
(* flags of a block after activation.                                      *)
LEMMA EvalOpStandard ==
  ASSUME NEW state, NEW op,
         EvalOp(STANDARD_SCRIPT_VERIFY_FLAGS, state, op).ok
  PROVE  /\ state.ok
         /\ EvalOp(GetBlockScriptFlags(TRUE), state, op)
              = EvalOp(STANDARD_SCRIPT_VERIFY_FLAGS, state, op)
  <1> DEFINE S == STANDARD_SCRIPT_VERIFY_FLAGS
             A == GetBlockScriptFlags(TRUE)
  <1>1. state.ok
    BY DEF EvalOp
  <1>2. ~Failed.ok
    BY DEF Failed
  <1>3. CASE op[1] = "push"
    <2>1. EvalPush(S, state.stack, op[2]).ok
      BY <1>1, <1>3 DEF EvalOp
    <2>2. EvalPush(A, state.stack, op[2]) = EvalPush(S, state.stack, op[2])
      BY <1>2, <2>1 DEF EvalPush, ElementAllowed, STANDARD_SCRIPT_VERIFY_FLAGS,
                        GetBlockScriptFlags
    <2> QED BY <1>1, <1>3, <2>2 DEF EvalOp
  <1>4. CASE op[1] # "push"
    <2> DEFINE verify == op = CheckVerify
               stack  == state.stack
    <2>1. EvalChecksigEx(S, stack, verify).ok
      BY <1>1, <1>4 DEF EvalOp
    <2>2. EvalChecksigEx(A, stack, verify) = EvalChecksigEx(S, stack, verify)
      BY <1>2, <2>1 DEF EvalChecksigEx, FailureAborts, STANDARD_SCRIPT_VERIFY_FLAGS,
                        GetBlockScriptFlags
    <2> QED BY <1>1, <1>4, <2>2 DEF EvalOp
  <1> QED BY <1>1, <1>3, <1>4

(* What the standard flags accept, a block after activation may contain:   *)
(* for every script and every witness stack.                               *)
LEMMA StandardIsActive ==
  ASSUME NEW O, NEW ops \in Seq(O), NEW elements,
         ExecuteWitnessScript(STANDARD_SCRIPT_VERIFY_FLAGS, elements, ops)
  PROVE  ExecuteWitnessScript(GetBlockScriptFlags(TRUE), elements, ops)
  <1> DEFINE S    == STANDARD_SCRIPT_VERIFY_FLAGS
             A    == GetBlockScriptFlags(TRUE)
             n    == Len(ops)
             endS == EvalOps(S, elements, ops)
             endA == EvalOps(A, elements, ops)
  <1>0. n \in Nat
    OBVIOUS
  <1>1. PICK rs : /\ rs[0] = With(elements)
                  /\ \A i \in 1..n : rs[i] = EvalOp(S, rs[i - 1], ops[i])
                  /\ rs[n] = endS
    BY EvalRun
  <1>2. PICK ra : /\ ra[0] = With(elements)
                  /\ \A i \in 1..n : ra[i] = EvalOp(A, ra[i - 1], ops[i])
                  /\ ra[n] = endA
    BY EvalRun
  <1>3. ~Failed.ok
    BY DEF Failed
  <1> HIDE DEF S, A
  <1>5. /\ ~(ScriptSize(ops) > 10000)
        /\ EvalScript(S, elements, ops) = endS
        /\ EvalScript(A, elements, ops) = endA
        /\ endS.ok
    BY <1>3, EvalScriptOps DEF ExecuteWitnessScript, S
  <1> HIDE DEF endS, endA
  <1> DEFINE T == {i \in Nat : i <= n /\ rs[i].ok => ra[i] = rs[i]}
  <1>6. 0 \in T
    BY <1>1, <1>2
  <1>7. ASSUME NEW i \in Nat \ {0}, i - 1 \in T PROVE i \in T
    <2> SUFFICES ASSUME i <= n, rs[i].ok PROVE ra[i] = rs[i]
      OBVIOUS
    <2>1. /\ i \in 1..n
          /\ rs[i] = EvalOp(S, rs[i - 1], ops[i])
          /\ ra[i] = EvalOp(A, ra[i - 1], ops[i])
      BY <1>0, <1>1, <1>2
    <2>2. rs[i - 1].ok /\ EvalOp(A, rs[i - 1], ops[i]) = EvalOp(S, rs[i - 1], ops[i])
      BY <2>1, EvalOpStandard DEF S, A
    <2>3. ra[i - 1] = rs[i - 1]
      BY <1>0, <1>7, <2>2
    <2> QED BY <2>1, <2>2, <2>3
  <1> HIDE DEF T
  <1>8. n \in T
    BY <1>0, <1>6, <1>7, InductiveSet
  <1>9. endA = endS
    BY <1>0, <1>1, <1>2, <1>5, <1>8 DEF T
  <1>10. \A e : ElementAllowed(S, e) => ElementAllowed(A, e)
    BY DEF ElementAllowed, STANDARD_SCRIPT_VERIFY_FLAGS, GetBlockScriptFlags, S, A
  <1>11. ExecuteWitnessScript(S, elements, ops)
    BY DEF S
  <1>12. ExecuteWitnessScript(A, elements, ops)
    BY <1>5, <1>9, <1>10, <1>11 DEF ExecuteWitnessScript
  <1> QED BY <1>12 DEF A
-----------------------------------------------------------------------------
(* The size of a script is the sum of the sizes of its operations; the     *)
(* argument is that of EvalRun.                                            *)
SizeSolves(h, k, ops) ==
    h = [s \in SUBSET (1..k) |->
           IF s = {} THEN 0 ELSE h[s \ {Max(s)}] + OpSize(ops[Max(s)])]

(* Such a solution exists. *)
LEMMA SizeSolution ==
  ASSUME NEW ops, NEW n \in Nat
  PROVE  \E h : SizeSolves(h, n, ops)
  <1> DEFINE T == {k \in Nat : \E h : SizeSolves(h, k, ops)}
  <1>1. 0 \in T
    <2> DEFINE h == [s \in SUBSET (1..0) |-> 0]
    <2>1. \A s \in SUBSET (1..0) : s = {}
      OBVIOUS
    <2>2. SizeSolves(h, 0, ops)
      BY <2>1 DEF SizeSolves
    <2> QED BY <2>2
  <1>2. ASSUME NEW k \in Nat \ {0}, k - 1 \in T PROVE k \in T
    <2>1. PICK h : SizeSolves(h, k - 1, ops)
      BY <1>2
    <2> DEFINE g == [s \in SUBSET (1..k) |->
                       IF k \in s THEN h[s \ {k}] + OpSize(ops[k]) ELSE h[s]]
    <2>2. ASSUME NEW s \in SUBSET (1..k)
          PROVE  g[s] = IF s = {} THEN 0 ELSE g[s \ {Max(s)}] + OpSize(ops[Max(s)])
      <3>1. CASE k \in s
        <4>1. Max(s) = k
          BY <3>1, MaxIsBound
        <4>2. s \ {k} \in SUBSET (1..k) /\ k \notin s \ {k}
          OBVIOUS
        <4> QED BY <3>1, <4>1, <4>2
      <3>2. CASE k \notin s
        <4>1. s \in SUBSET (1..(k - 1)) /\ s \in SUBSET (1..k)
          BY <3>2
        <4>2. s \ {Max(s)} \in SUBSET (1..k) /\ k \notin s \ {Max(s)}
          BY <3>2
        <4>3. g[s] = h[s] /\ g[s \ {Max(s)}] = h[s \ {Max(s)}]
          BY <3>2, <4>1, <4>2
        <4>4. h[s] = IF s = {} THEN 0 ELSE h[s \ {Max(s)}] + OpSize(ops[Max(s)])
          BY <2>1, <4>1 DEF SizeSolves
        <4> QED BY <4>3, <4>4
      <3> QED BY <3>1, <3>2
    <2>3. SizeSolves(g, k, ops)
      <3>1. g = [s \in SUBSET (1..k) |-> g[s]]
        OBVIOUS
      <3> HIDE DEF g
      <3> QED BY <2>2, <3>1 DEF SizeSolves
    <2> QED BY <2>3
  <1> HIDE DEF T
  <1>3. n \in T
    BY <1>1, <1>2, InductiveSet
  <1> QED BY <1>3 DEF T

(* ScriptSize adds up the sizes of the operations, one after the other. *)
LEMMA SizeRun ==
  ASSUME NEW S, NEW ops \in Seq(S)
  PROVE  \E run : /\ run[0] = 0
                  /\ \A i \in 1..Len(ops) : run[i] = run[i - 1] + OpSize(ops[i])
                  /\ run[Len(ops)] = ScriptSize(ops)
  <1> DEFINE n    == Len(ops)
             iter == CHOOSE h : SizeSolves(h, n, ops)
             run  == [i \in 0..n |-> iter[1..i]]
  <1>0. n \in Nat /\ DOMAIN ops = 1..n
    OBVIOUS
  <1>1. SizeSolves(iter, n, ops)
    BY <1>0, SizeSolution
  <1>2. ScriptSize(ops) = iter[1..n]
    BY <1>0 DEF ScriptSize, FoldLeft, MapThenFoldSet, SizeSolves
  <1> HIDE DEF iter
  <1>3. run[0] = 0
    <2>1. 1..0 = {} /\ 1..0 \in SUBSET (1..n)
      OBVIOUS
    <2> QED BY <1>0, <1>1, <2>1 DEF SizeSolves
  <1>4. ASSUME NEW i \in 1..n PROVE run[i] = run[i - 1] + OpSize(ops[i])
    <2>0. i \in Nat /\ i >= 1 /\ i <= n
      BY <1>0
    <2>1. /\ (1..i) \in SUBSET (1..n) /\ i \in 1..i
          /\ (1..i) \in SUBSET (1..i) /\ i \in Nat
      BY <1>0, <2>0
    <2>2. Max(1..i) = i /\ 1..i # {}
      BY <2>1, MaxIsBound
    <2>3. (1..i) \ {i} = 1..(i - 1)
      BY <1>0
    <2>4. iter[1..i] = iter[1..(i - 1)] + OpSize(ops[i])
      BY <1>1, <2>1, <2>2, <2>3 DEF SizeSolves
    <2>5. i \in 0..n /\ i - 1 \in 0..n
      BY <1>0
    <2> QED BY <2>4, <2>5
  <1>5. run[n] = iter[1..n]
    BY <1>0
  <1> HIDE DEF run
  <1> QED BY <1>2, <1>3, <1>4, <1>5

(* The sizes of the operations of the scripts with one and with two keys. *)
LEMMA OpSizes ==
  ASSUME NEW k \in Keys
  PROVE  /\ OpSize(Push(<<"pub", k>>)) \in Nat /\ OpSize(Push(<<"pub", k>>)) <= 1955
         /\ OpSize(CheckSig) = 1 /\ OpSize(CheckVerify) = 1
  <1>1. SizeOf(<<"pub", k>>) \in {48, 1952}
    BY DEF SizeOf
  <1>2. OpSize(Push(<<"pub", k>>)) \in Nat /\ OpSize(Push(<<"pub", k>>)) <= 1955
    <2>1. OpSize(Push(<<"pub", k>>))
            = LET n == SizeOf(<<"pub", k>>)
              IN  n + (CASE n = 0 -> 1 [] n \in 1..75 -> 1 [] n \in 76..255 -> 2 [] OTHER -> 3)
      BY DEF OpSize, Push
    <2>2. CASE SizeOf(<<"pub", k>>) = 48
      BY <2>1, <2>2
    <2>3. CASE SizeOf(<<"pub", k>>) = 1952
      BY <2>1, <2>3
    <2> QED BY <1>1, <2>2, <2>3
  <1>3. OpSize(CheckSig) = 1 /\ OpSize(CheckVerify) = 1
    BY DEF OpSize, CheckSig, CheckVerify
  <1> QED BY <1>2, <1>3

(* The flags of an active block, and the standard ones. *)
QuantumFlags == {GetBlockScriptFlags(TRUE), STANDARD_SCRIPT_VERIFY_FLAGS}

(* Public keys and signatures of both schemes fit through the size limits. *)
LEMMA KeyElementsAllowed ==
  ASSUME NEW flags \in QuantumFlags, NEW k \in Keys
  PROVE  ElementAllowed(flags, <<"pub", k>>) /\ ElementAllowed(flags, Signature(k))
  <1>1. flags.quantum
    BY DEF QuantumFlags, GetBlockScriptFlags, STANDARD_SCRIPT_VERIFY_FLAGS
  <1>2. SizeOf(<<"pub", k>>) \in {48, 1952} /\ SizeOf(Signature(k)) \in {3311, 35666}
    BY DEF SizeOf, Signature
  <1> QED BY <1>1, <1>2 DEF ElementAllowed

(* A public key is pushed under either flags. *)
LEMMA PushKey ==
  ASSUME NEW flags \in QuantumFlags, NEW k \in Keys, NEW stack
  PROVE  EvalOp(flags, With(stack), Push(<<"pub", k>>)) = With(Append(stack, <<"pub", k>>))
  <1>1. With(stack).ok /\ With(stack).stack = stack
    BY DEF With
  <1>2. EvalPush(flags, stack, <<"pub", k>>) = With(Append(stack, <<"pub", k>>))
    BY KeyElementsAllowed DEF EvalPush
  <1> QED BY <1>1, <1>2 DEF EvalOp, Push

(* An element verifies for a key when it is a signature of that key. *)
LEMMA VerifiesKey ==
  ASSUME NEW e \in Elements, NEW k \in Keys
  PROVE  Verifies(e, <<"pub", k>>) <=> e = Signature(k)
  <1>1. CASE e \in KeyKinds \X Keys
    BY <1>1 DEF Verifies, Signature
  <1>2. CASE e \in {Empty, True, Other}
    BY <1>2 DEF Verifies, Signature, Empty, True, Other
  <1> QED BY <1>1, <1>2 DEF Elements

(* A stack with one more element: its last two elements and the others. *)
LEMMA StackTop ==
  ASSUME NEW stack \in Seq(Elements), NEW e, stack # <<>>
  PROVE  LET s == Append(stack, e)
         IN  /\ Len(s) \in Nat /\ ~(Len(s) < 2) /\ Last(s) = e
             /\ s[Len(s) - 1] = Last(stack) /\ Last(stack) \in Elements
             /\ SubSeq(s, 1, Len(s) - 2) = Front(stack)
             /\ Front(stack) \in Seq(Elements) /\ Len(Front(stack)) = Len(stack) - 1
  <1>1. Len(stack) \in Nat /\ Len(stack) # 0
    OBVIOUS
  <1>2. Len(Append(stack, e)) = Len(stack) + 1
    OBVIOUS
  <1>3. \A i \in 1..Len(stack) : Append(stack, e)[i] = stack[i] /\ stack[i] \in Elements
    OBVIOUS
  <1>4. Append(stack, e)[Len(stack) + 1] = e
    OBVIOUS
  <1>5. Front(stack) = [i \in 1..(Len(stack) - 1) |-> stack[i]]
    BY <1>1 DEF Front
  <1>6. SubSeq(Append(stack, e), 1, Len(stack) - 1) = [i \in 1..(Len(stack) - 1) |-> stack[i]]
    BY <1>1, <1>2, <1>3
  <1>7. Front(stack) \in Seq(Elements) /\ Len(Front(stack)) = Len(stack) - 1
    <2>1. Len(stack) - 1 \in Nat /\ Len(stack) - 1 <= Len(stack)
      BY <1>1
    <2>2. \A i \in 1..(Len(stack) - 1) : stack[i] \in Elements
      <3>1. \A i \in 1..(Len(stack) - 1) : i \in 1..Len(stack)
        BY <1>1
      <3> QED BY <1>3, <3>1
    <2> QED BY <1>5, <2>1, <2>2
  <1> QED BY <1>1, <1>2, <1>3, <1>4, <1>5, <1>6, <1>7 DEF Last

(* <key> OP_CHECKSIGVERIFY_EX takes a signature of the key off the stack,  *)
(* and fails when there is none.                                           *)
LEMMA VerifyKey ==
  ASSUME NEW flags \in QuantumFlags, NEW k \in Keys, NEW stack \in Seq(Elements)
  PROVE  EvalOp(flags, With(Append(stack, <<"pub", k>>)), CheckVerify)
           = IF stack # <<>> /\ Last(stack) = Signature(k) THEN With(Front(stack)) ELSE Failed
  <1> DEFINE s == Append(stack, <<"pub", k>>)
  <1>1. flags.quantum
    BY DEF QuantumFlags, GetBlockScriptFlags, STANDARD_SCRIPT_VERIFY_FLAGS
  <1>2. EvalOp(flags, With(s), CheckVerify) = EvalChecksigEx(flags, s, TRUE)
    BY DEF EvalOp, With, CheckVerify
  <1>3. CASE stack = <<>>
    <2>1. Len(s) < 2
      BY <1>3
    <2> QED BY <1>1, <1>2, <1>3, <2>1 DEF EvalChecksigEx
  <1>4. CASE stack # <<>>
    <2>1. /\ ~(Len(s) < 2) /\ Last(s) = <<"pub", k>>
          /\ s[Len(s) - 1] = Last(stack) /\ Last(stack) \in Elements
          /\ SubSeq(s, 1, Len(s) - 2) = Front(stack)
      BY <1>4, StackTop
    <2>2. Verifies(s[Len(s) - 1], Last(s)) <=> Last(stack) = Signature(k)
      BY <2>1, VerifiesKey
    <2> HIDE DEF s
    <2>3. EvalChecksigEx(flags, s, TRUE)
            = IF Last(stack) = Signature(k) THEN With(Front(stack)) ELSE Failed
      BY <1>1, <2>1, <2>2 DEF EvalChecksigEx, FailureAborts
    <2> QED BY <1>2, <1>4, <2>3 DEF s
  <1> QED BY <1>3, <1>4

(* A script has succeeded. *)
Succeeds(end) == end.ok /\ Len(end.stack) = 1 /\ end.stack[1] # Empty

(* A script that ends in <key> OP_CHECKSIG_EX succeeds when one signature  *)
(* of the key is left, and nothing else.                                   *)
LEMMA CheckKey ==
  ASSUME NEW flags \in QuantumFlags, NEW k \in Keys, NEW stack \in Seq(Elements)
  PROVE  Succeeds(EvalOp(flags, With(Append(stack, <<"pub", k>>)), CheckSig))
           <=> stack = <<Signature(k)>>
  <1> DEFINE s == Append(stack, <<"pub", k>>)
             end == EvalOp(flags, With(s), CheckSig)
  <1>1. flags.quantum
    BY DEF QuantumFlags, GetBlockScriptFlags, STANDARD_SCRIPT_VERIFY_FLAGS
  <1>2. end = EvalChecksigEx(flags, s, FALSE)
    BY DEF EvalOp, With, CheckSig, CheckVerify
  <1>3. ~Succeeds(Failed)
    BY DEF Succeeds, Failed
  <1>4. CASE stack = <<>>
    <2>1. Len(s) < 2
      BY <1>4
    <2>2. end = Failed
      BY <1>1, <1>2, <2>1 DEF EvalChecksigEx
    <2> QED BY <1>3, <1>4, <2>2
  <1>5. CASE stack # <<>>
    <2>1. /\ ~(Len(s) < 2) /\ Last(s) = <<"pub", k>>
          /\ s[Len(s) - 1] = Last(stack) /\ Last(stack) \in Elements
          /\ SubSeq(s, 1, Len(s) - 2) = Front(stack)
          /\ Front(stack) \in Seq(Elements) /\ Len(Front(stack)) = Len(stack) - 1
      BY <1>5, StackTop
    <2>2. Verifies(s[Len(s) - 1], Last(s)) <=> Last(stack) = Signature(k)
      BY <2>1, VerifiesKey
    <2>3. True # Empty
      BY DEF True, Empty
    <2>4. /\ Len(Append(Front(stack), True)) = Len(stack)
          /\ Len(Append(Front(stack), Empty)) = Len(stack)
          /\ Len(stack) = 1 => /\ Append(Front(stack), True)[1] = True
                               /\ Append(Front(stack), Empty)[1] = Empty
      BY <2>1
    <2>5. (stack = <<Signature(k)>>) <=> (Len(stack) = 1 /\ Last(stack) = Signature(k))
      BY DEF Last
    <2>6. CASE Last(stack) = Signature(k)
      <3>1. end = With(Append(Front(stack), True))
        <4> HIDE DEF s, end
        <4> QED BY <1>1, <1>2, <2>1, <2>2, <2>6 DEF EvalChecksigEx
      <3>2. Succeeds(end) <=> Len(stack) = 1
        <4>1. Succeeds(With(Append(Front(stack), True)))
                <=> /\ Len(Append(Front(stack), True)) = 1
                    /\ Append(Front(stack), True)[1] # Empty
          BY DEF Succeeds, With
        <4> HIDE DEF end
        <4> QED BY <2>3, <2>4, <3>1, <4>1
      <3> QED BY <2>5, <2>6, <3>2
    <2>7. CASE Last(stack) # Signature(k)
      <3>1. end = Failed \/ end = With(Append(Front(stack), Empty))
        <4> HIDE DEF s, end
        <4> QED BY <1>1, <1>2, <2>1, <2>2, <2>7 DEF EvalChecksigEx
      <3>2. ~Succeeds(end)
        <4>1. Succeeds(With(Append(Front(stack), Empty)))
                <=> /\ Len(Append(Front(stack), Empty)) = 1
                    /\ Append(Front(stack), Empty)[1] # Empty
          BY DEF Succeeds, With
        <4> HIDE DEF end
        <4> QED BY <1>3, <2>4, <3>1, <4>1
      <3> QED BY <2>5, <2>7, <3>2
    <2> QED BY <2>6, <2>7
  <1> QED BY <1>4, <1>5

(* The end of a script that is not too long decides. *)
LEMMA ExecuteSucceeds ==
  ASSUME NEW flags, NEW stack, NEW ops, ScriptSize(ops) \in Nat, ScriptSize(ops) <= 10000
  PROVE  ExecuteWitnessScript(flags, stack, ops)
           <=> /\ \A i \in DOMAIN stack : ElementAllowed(flags, stack[i])
               /\ Succeeds(EvalOps(flags, stack, ops))
  <1>1. EvalScript(flags, stack, ops) = EvalOps(flags, stack, ops)
    BY EvalScriptOps
  <1> QED BY <1>1 DEF ExecuteWitnessScript, Succeeds

(* A script with the operations of an address. *)
LEMMA OneKeyScript ==
  ASSUME NEW flags \in QuantumFlags, NEW k \in Keys, NEW stack \in Seq(Elements)
  PROVE  ExecuteWitnessScript(flags, stack, CreateQuantumWitnessScript(k))
           <=> stack = <<Signature(k)>>
  <1> DEFINE P   == Push(<<"pub", k>>)
             ops == CreateQuantumWitnessScript(k)
  <1>1. ops = <<P, CheckSig>>
    BY DEF CreateQuantumWitnessScript
  <1> HIDE DEF P, ops
  <1>0. ops \in Seq({P, CheckSig})
    BY <1>1
  <1>2. ops \in Seq({P, CheckSig}) /\ Len(ops) = 2 /\ ops[1] = P /\ ops[2] = CheckSig
    BY <1>1
  <1>3. ScriptSize(ops) \in Nat /\ ScriptSize(ops) <= 10000
    <2>1. PICK run : /\ run[0] = 0
                     /\ \A i \in 1..Len(ops) : run[i] = run[i - 1] + OpSize(ops[i])
                     /\ run[Len(ops)] = ScriptSize(ops)
      BY <1>2, SizeRun
    <2>2. run[1] = run[0] + OpSize(P) /\ run[2] = run[1] + OpSize(CheckSig)
      <3>1. 1 \in 1..2 /\ 2 \in 1..2 /\ 1 - 1 = 0 /\ 2 - 1 = 1
        OBVIOUS
      <3> QED BY <1>2, <2>1, <3>1
    <2>3. (OpSize(P) \in Nat /\ OpSize(P) <= 1955) /\ OpSize(CheckSig) = 1
      BY OpSizes DEF P
    <2>4. PICK p \in Nat : p <= 1955 /\ p = OpSize(P)
      BY <2>3
    <2>5. run[1] = 0 + p /\ run[2] = run[1] + 1 /\ ScriptSize(ops) = run[2]
      BY <1>2, <2>1, <2>2, <2>3, <2>4
    <2>6. ScriptSize(ops) = p + 1
      BY <2>5
    <2> QED BY <2>4, <2>6
  <1>4. EvalOps(flags, stack, ops)
          = EvalOp(flags, With(Append(stack, <<"pub", k>>)), CheckSig)
    <2>1. PICK run : /\ run[0] = With(stack)
                     /\ \A i \in 1..Len(ops) : run[i] = EvalOp(flags, run[i - 1], ops[i])
                     /\ run[Len(ops)] = EvalOps(flags, stack, ops)
      BY <1>0, EvalRun
    <2>2. run[1] = EvalOp(flags, run[0], P) /\ run[2] = EvalOp(flags, run[1], CheckSig)
      <3>1. 1 \in 1..2 /\ 2 \in 1..2 /\ 1 - 1 = 0 /\ 2 - 1 = 1
        OBVIOUS
      <3> QED BY <1>2, <2>1, <3>1
    <2>3. run[1] = With(Append(stack, <<"pub", k>>))
      BY <2>1, <2>2, PushKey DEF P
    <2> QED BY <1>2, <2>1, <2>2, <2>3
  <1>5. Succeeds(EvalOps(flags, stack, ops)) <=> stack = <<Signature(k)>>
    BY <1>4, CheckKey
  <1>6. stack = <<Signature(k)>> => \A i \in DOMAIN stack : ElementAllowed(flags, stack[i])
    <2>1. ASSUME stack = <<Signature(k)>>
          PROVE  \A i \in DOMAIN stack : stack[i] = Signature(k)
      BY <2>1
    <2> QED BY <2>1, KeyElementsAllowed
  <1>7. ExecuteWitnessScript(flags, stack, ops) <=> stack = <<Signature(k)>>
    BY <1>3, <1>5, <1>6, ExecuteSucceeds
  <1> QED BY <1>7 DEF ops

(* A script of two keys, the first one with OP_CHECKSIGVERIFY_EX. *)
LEMMA TwoKeyScript ==
  ASSUME NEW flags \in QuantumFlags, NEW j \in Keys, NEW k \in Keys,
         NEW stack \in Seq(Elements)
  PROVE  ExecuteWitnessScript(flags, stack,
                              <<Push(<<"pub", j>>), CheckVerify, Push(<<"pub", k>>), CheckSig>>)
           <=> stack = <<Signature(k), Signature(j)>>
  <1> DEFINE J   == Push(<<"pub", j>>)
             K   == Push(<<"pub", k>>)
             ops == <<J, CheckVerify, K, CheckSig>>
  <1> HIDE DEF J, K
  <1>2. /\ ops \in Seq({J, CheckVerify, K, CheckSig}) /\ Len(ops) = 4
        /\ ops[1] = J /\ ops[2] = CheckVerify /\ ops[3] = K /\ ops[4] = CheckSig
    OBVIOUS
  <1> HIDE DEF ops
  <1>0. \A i \in 1..4 : i \in 1..Len(ops)
    BY <1>2
  <1>3. ScriptSize(ops) \in Nat /\ ScriptSize(ops) <= 10000
    <2>1. PICK run : /\ run[0] = 0
                     /\ \A i \in 1..Len(ops) : run[i] = run[i - 1] + OpSize(ops[i])
                     /\ run[Len(ops)] = ScriptSize(ops)
      BY <1>2, SizeRun
    <2>2. /\ run[1] = run[0] + OpSize(J) /\ run[2] = run[1] + OpSize(CheckVerify)
          /\ run[3] = run[2] + OpSize(K) /\ run[4] = run[3] + OpSize(CheckSig)
      <3>1. /\ 1 \in 1..4 /\ 2 \in 1..4 /\ 3 \in 1..4 /\ 4 \in 1..4
            /\ 1 - 1 = 0 /\ 2 - 1 = 1 /\ 3 - 1 = 2 /\ 4 - 1 = 3
        OBVIOUS
      <3> QED BY <1>0, <1>2, <2>1, <3>1
    <2>3. /\ (OpSize(J) \in Nat /\ OpSize(J) <= 1955) /\ (OpSize(K) \in Nat /\ OpSize(K) <= 1955)
          /\ OpSize(CheckSig) = 1 /\ OpSize(CheckVerify) = 1
      BY OpSizes DEF J, K
    <2>4. PICK p \in Nat, q \in Nat : p <= 1955 /\ q <= 1955 /\ p = OpSize(J) /\ q = OpSize(K)
      BY <2>3
    <2>5. /\ run[1] = 0 + p /\ run[2] = run[1] + 1 /\ run[3] = run[2] + q
          /\ run[4] = run[3] + 1 /\ ScriptSize(ops) = run[4]
      BY <1>2, <2>1, <2>2, <2>3, <2>4
    <2>6. ScriptSize(ops) = p + 1 + q + 1
      BY <2>5
    <2> QED BY <2>4, <2>6
  <1>4. PICK run : /\ run[0] = With(stack)
                   /\ \A i \in 1..Len(ops) : run[i] = EvalOp(flags, run[i - 1], ops[i])
                   /\ run[Len(ops)] = EvalOps(flags, stack, ops)
    BY <1>2, EvalRun
  <1>5. /\ run[1] = EvalOp(flags, run[0], J) /\ run[2] = EvalOp(flags, run[1], CheckVerify)
        /\ run[3] = EvalOp(flags, run[2], K) /\ run[4] = EvalOp(flags, run[3], CheckSig)
    <2>1. /\ 1 \in 1..4 /\ 2 \in 1..4 /\ 3 \in 1..4 /\ 4 \in 1..4
          /\ 1 - 1 = 0 /\ 2 - 1 = 1 /\ 3 - 1 = 2 /\ 4 - 1 = 3
      OBVIOUS
    <2> QED BY <1>0, <1>2, <1>4, <2>1
  <1>6. run[2] = IF stack # <<>> /\ Last(stack) = Signature(j) THEN With(Front(stack))
                 ELSE Failed
    <2>1. run[1] = With(Append(stack, <<"pub", j>>))
      BY <1>4, <1>5, PushKey DEF J
    <2> QED BY <1>5, <2>1, VerifyKey
  <1>7. Succeeds(EvalOps(flags, stack, ops)) <=> stack = <<Signature(k), Signature(j)>>
    <2>1. CASE stack # <<>> /\ Last(stack) = Signature(j)
      <3>1. Front(stack) \in Seq(Elements) /\ Len(Front(stack)) = Len(stack) - 1
        BY <2>1, StackTop
      <3>2. run[4] = EvalOp(flags, With(Append(Front(stack), <<"pub", k>>)), CheckSig)
        BY <1>5, <1>6, <2>1, PushKey DEF K
      <3>3. Succeeds(run[4]) <=> Front(stack) = <<Signature(k)>>
        BY <3>1, <3>2, CheckKey
      <3>4. Front(stack) = <<Signature(k)>> <=> stack = <<Signature(k), Signature(j)>>
        <4>1. ASSUME Front(stack) = <<Signature(k)>>
              PROVE  stack = <<Signature(k), Signature(j)>>
          <5>1. Len(stack) = 2 /\ Len(stack) \in Nat
            BY <3>1, <4>1
          <5>2. Front(stack) = [i \in 1..1 |-> stack[i]]
            BY <5>1 DEF Front
          <5>3. stack[1] = Signature(k)
            BY <4>1, <5>2
          <5>4. stack[2] = Signature(j)
            BY <2>1, <5>1 DEF Last
          <5> QED BY <5>1, <5>3, <5>4
        <4>2. ASSUME stack = <<Signature(k), Signature(j)>>
              PROVE  Front(stack) = <<Signature(k)>>
          <5>1. Len(stack) = 2 /\ stack[1] = Signature(k)
            BY <4>2
          <5>2. Front(stack) = [i \in 1..1 |-> stack[i]]
            BY <5>1 DEF Front
          <5> QED BY <5>1, <5>2
        <4> QED BY <4>1, <4>2
      <3> QED BY <1>2, <1>4, <3>3, <3>4
    <2>2. CASE ~(stack # <<>> /\ Last(stack) = Signature(j))
      <3>1. run[2] = Failed
        BY <1>6, <2>2
      <3>2. run[3] = Failed /\ run[4] = Failed
        <4>1. ~Failed.ok
          BY DEF Failed
        <4> QED BY <1>5, <3>1, <4>1 DEF EvalOp
      <3>3. ~Succeeds(run[4])
        BY <3>2 DEF Succeeds, Failed
      <3>4. stack # <<Signature(k), Signature(j)>>
        BY <2>2 DEF Last
      <3> QED BY <1>2, <1>4, <3>3, <3>4
    <2> QED BY <2>1, <2>2
  <1>8. ASSUME stack = <<Signature(k), Signature(j)>>
        PROVE  \A i \in DOMAIN stack : ElementAllowed(flags, stack[i])
    <2>1. \A i \in DOMAIN stack : stack[i] = Signature(k) \/ stack[i] = Signature(j)
      BY <1>8
    <2> QED BY <2>1, KeyElementsAllowed
  <1>9. ExecuteWitnessScript(flags, stack, ops) <=> stack = <<Signature(k), Signature(j)>>
    BY <1>3, <1>7, <1>8, ExecuteSucceeds
  <1> QED BY <1>9 DEF ops, J, K

-----------------------------------------------------------------------------
(* A spend is made of elements and of operations. *)
SpendInv == witness \in Seq(Elements) /\ script \in Seq(Ops)

(* SpendInv is an invariant, without any bound on the lengths. *)
LEMMA SpendInvariant == Spends => []SpendInv
  <1>1. NoSpend => SpendInv
    BY DEF NoSpend, SpendInv
  <1>2. SpendInv /\ [AddToSpend]_spend_vars => SpendInv'
    <2> SUFFICES ASSUME SpendInv, [AddToSpend]_spend_vars PROVE SpendInv'
      OBVIOUS
    <2>1. CASE AddElement
      <3>1. PICK e \in WitnessElements : witness' = Append(witness, e)
        BY <2>1 DEF AddElement
      <3>2. e \in Elements
        BY SpendsAssumption
      <3> QED BY <2>1, <3>1, <3>2 DEF AddElement, SpendInv
    <2>2. CASE AddOp
      <3>1. PICK op \in ScriptOps : script' = Append(script, op)
        BY <2>2 DEF AddOp
      <3>2. op \in Ops
        BY SpendsAssumption
      <3> QED BY <2>2, <3>1, <3>2 DEF AddOp, SpendInv
    <2>3. CASE UNCHANGED spend_vars
      BY <2>3 DEF spend_vars, SpendInv
    <2> QED BY <2>1, <2>2, <2>3 DEF AddToSpend
  <1> QED BY <1>1, <1>2, PTL DEF Spends

(* An address is spent by one signature of its key and by nothing else,    *)
(* whatever is put on the witness stack, in a block after activation and   *)
(* under the standard flags.                                               *)
THEOREM SpendAddress == Spends => []AddressSpending
  <1>1. SpendInv => AddressSpending
    BY OneKeyScript DEF SpendInv, AddressSpending, Passes, Active, Standard, QuantumFlags
  <1> QED BY SpendInvariant, <1>1, PTL

(* A script of two keys needs both signatures, in stack order. *)
THEOREM SpendTwoKeys == Spends => []TwoKeySpending
  <1>1. SpendInv => TwoKeySpending
    <2>1. Active \in QuantumFlags
      BY DEF Active, QuantumFlags
    <2>2. ASSUME SpendInv, NEW j \in Keys, NEW k \in Keys,
                 script = <<Push(<<"pub", j>>), CheckVerify, Push(<<"pub", k>>), CheckSig>>
          PROVE  Passes(Active) <=> witness = <<Signature(k), Signature(j)>>
      <3>1. ExecuteWitnessScript(Active, witness,
                <<Push(<<"pub", j>>), CheckVerify, Push(<<"pub", k>>), CheckSig>>)
              <=> witness = <<Signature(k), Signature(j)>>
        BY <2>1, <2>2, TwoKeyScript DEF SpendInv
      <3> QED BY <2>2, <3>1 DEF Passes
    <2> QED BY <2>2 DEF TwoKeySpending
  <1> QED BY SpendInvariant, <1>1, PTL

(* What PolicyScriptChecks accepts, a block after activation may contain,  *)
(* for scripts and witnesses of every length.                              *)
THEOREM SpendStandardImpliesActive == Spends => []StandardImpliesActive
  <1>1. SpendInv => StandardImpliesActive
    BY StandardIsActive DEF SpendInv, StandardImpliesActive, Passes, Active, Standard
  <1> QED BY SpendInvariant, <1>1, PTL
=============================================================================
