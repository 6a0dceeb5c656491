------------------------ MODULE VersionBits_proofs -------------------------
(***************************************************************************)
(* Proofs about VersionBits, for any tree of blocks, any deployment and    *)
(* any order of the queries: the caches never change an answer.            *)
(***************************************************************************)
EXTENDS VersionBits, FiniteSetTheorems, NaturalsInduction, WellFoundedInduction, TLAPS

(* A set of natural numbers has a least element. *)
LEMMA LeastNatural ==
  ASSUME NEW T, T \subseteq Nat, T # {}
  PROVE  \E m \in T : \A k \in T : m <= k
  <1>1. PICK m \in T : \A k \in T : <<k, m>> \notin OpToRel(<, Nat)
    BY WFMin, NatLessThanWellFounded
  <1>2. \A k \in T : ~(k < m)
    BY <1>1 DEF OpToRel
  <1> QED BY <1>2

(* Remainders. *)
LEMMA ModType == ASSUME NEW p \in Nat \ {0}, NEW x \in Nat PROVE x % p \in 0..(p - 1) /\ x % p <= x
OBVIOUS

(* A remainder of 0. *)
LEMMA Multiple ==
  ASSUME NEW p \in Nat \ {0}, NEW x \in Nat
  PROVE  x % p = 0 <=> \E k \in Nat : x = k * p
  <1>1. x = p * (x \div p) + (x % p) /\ x \div p \in Nat
    OBVIOUS
  <1>2. ASSUME x % p = 0 PROVE x = (x \div p) * p
    BY <1>1, <1>2
  <1>3. \A k \in Nat : (k * p) % p = 0
    OBVIOUS
  <1> QED BY <1>1, <1>2, <1>3

(* The last multiple up to a number. *)
LEMMA MultipleBelow ==
  ASSUME NEW p \in Nat \ {0}, NEW x \in Nat
  PROVE  x - (x % p) \in Nat /\ (x - (x % p)) % p = 0
  <1>1. x = p * (x \div p) + (x % p) /\ x \div p \in Nat
    OBVIOUS
  <1>2. x - (x % p) = (x \div p) * p
    BY <1>1, ModType
  <1>3. x - (x % p) \in Nat
    BY ModType
  <1> QED BY <1>1, <1>2, <1>3, Multiple

(* Two multiples of p are p apart. *)
LEMMA MultiplesApart ==
  ASSUME NEW p \in Nat \ {0}, NEW x \in Nat, NEW y \in Nat, x % p = 0, y % p = 0, x < y
  PROVE  x + p <= y
  <1>1. PICK k \in Nat : x = k * p
    BY Multiple
  <1>2. PICK l \in Nat : y = l * p
    BY Multiple
  <1>3. k < l
    <2>1. ASSUME l <= k PROVE FALSE
      <3>1. PICK d \in Nat : k = l + d
        BY <2>1
      <3>2. k * p = l * p + d * p /\ d * p >= 0
        BY <3>1
      <3> QED BY <1>1, <1>2, <3>2
    <2> QED BY <2>1
  <1>4. PICK d \in Nat : l = k + 1 + d
    BY <1>3
  <1>5. l * p = k * p + p + d * p /\ d * p >= 0
    BY <1>4
  <1> QED BY <1>1, <1>2, <1>5

(* The multiple before another. *)
LEMMA MultipleBefore ==
  ASSUME NEW p \in Nat \ {0}, NEW x \in Nat, x % p = 0, x > 0
  PROVE  x - p \in Nat /\ (x - p) % p = 0
  <1>1. PICK k \in Nat : x = k * p
    BY Multiple
  <1>2. k # 0
    BY <1>1
  <1>3. x - p = (k - 1) * p /\ k - 1 \in Nat
    BY <1>1, <1>2
  <1>4. x - p \in Nat
    <2>1. 0 + p <= x
      BY MultiplesApart
    <2> QED BY <2>1
  <1> QED BY <1>3, <1>4, Multiple

-----------------------------------------------------------------------------
(* A recursion on D, with values in V: base on Base, and elsewhere H of a  *)
(* number and of the value for the smaller number prev.                    *)
WellFounded(D, Base, V, base, prev, H) ==
  /\ D \in SUBSET (0..Len(Parent)) /\ Base \in SUBSET D /\ V # {}
  /\ base \in [Base -> V] /\ H \in [D \X V -> V]
  /\ \A e \in D \ Base : prev[e] \in D /\ prev[e] < e

(* It has a solution. *)
LEMMA Recursion ==
  ASSUME NEW D, NEW Base, NEW V, NEW base, NEW prev, NEW H,
         WellFounded(D, Base, V, base, prev, H)
  PROVE  \E f \in [D -> V] :
            \A e \in D : f[e] = IF e \in Base THEN base[e] ELSE H[<<e, f[prev[e]]>>]
  <1> DEFINE N == Len(Parent)
  <1>a. /\ N \in Nat /\ D \in SUBSET (0..N) /\ Base \in SUBSET D
        /\ base \in [Base -> V] /\ H \in [D \X V -> V]
        /\ \A e \in D \ Base : prev[e] \in D /\ prev[e] < e
    BY VersionBitsAssumption DEF WellFounded
  <1> HIDE DEF N
  <1>b. PICK v : v \in V
    BY DEF WellFounded
  <1> DEFINE Sol(f, n) == \A e \in D : e <= n => f[e] = IF e \in Base THEN base[e]
                                                     ELSE H[<<e, f[prev[e]]>>]
             T == {n \in Nat : \E f \in [D -> V] : Sol(f, n)}
  <1>1. 0 \in T
    <2> DEFINE f == [e \in D |-> IF e \in Base THEN base[e] ELSE v]
    <2>1. f \in [D -> V]
      BY <1>a, <1>b
    <2>2. \A e \in D : e <= 0 => e \in Base
      <3>1. ASSUME NEW e \in D, e <= 0, e \notin Base PROVE FALSE
        <4>1. prev[e] \in 0..N /\ prev[e] < e /\ e \in 0..N
          BY <1>a, <3>1
        <4> QED BY <1>a, <3>1, <4>1
      <3> QED BY <3>1
    <2>3. Sol(f, 0)
      BY <2>2
    <2> QED BY <2>1, <2>3
  <1>2. ASSUME NEW n \in Nat, n \in T PROVE n + 1 \in T
    <2>1. PICK f \in [D -> V] : Sol(f, n)
      BY <1>2
    <2> DEFINE g == [e \in D |-> IF e = n + 1 /\ e \notin Base THEN H[<<e, f[prev[e]]>>]
                                 ELSE IF e \in Base THEN base[e] ELSE f[e]]
    <2>2. g \in [D -> V]
      <3>1. \A e \in D \ Base : H[<<e, f[prev[e]]>>] \in V
        BY <1>a, <2>1
      <3> QED BY <1>a, <2>1, <3>1
    <2>3. ASSUME NEW e \in D, e <= n + 1, e \notin Base
          PROVE  g[e] = H[<<e, g[prev[e]]>>]
      <3>1. prev[e] \in D /\ prev[e] <= n /\ e \in Nat
        <4>1. prev[e] \in D /\ prev[e] < e /\ e \in D
          BY <1>a, <2>3
        <4>2. prev[e] \in 0..N /\ e \in 0..N
          BY <1>a, <4>1
        <4> QED BY <2>3, <4>1, <4>2
      <3>2. g[prev[e]] = f[prev[e]]
        BY <1>a, <2>1, <3>1
      <3>3. CASE e = n + 1
        BY <2>3, <3>2, <3>3
      <3>4. CASE e # n + 1
        <4>1. e <= n
          BY <2>3, <3>1, <3>4
        <4> QED BY <2>1, <2>3, <3>2, <3>4, <4>1
      <3> QED BY <3>3, <3>4
    <2>4. Sol(g, n + 1)
      BY <2>3
    <2> HIDE DEF g, Sol
    <2> QED BY <2>2, <2>4
  <1> HIDE DEF T
  <1>3. \A n \in Nat : n \in T
    <2> SUFFICES ASSUME NEW k \in Nat, k \notin T PROVE FALSE
      OBVIOUS
    <2> DEFINE M == Nat \ T
    <2>1. PICK m \in M : \A j \in M : m <= j
      BY LeastNatural
    <2>2. m # 0 /\ m \in Nat
      BY <1>1, <2>1
    <2>3. m - 1 \in Nat /\ m - 1 \in T
      BY <2>1, <2>2
    <2> QED BY <1>2, <2>1, <2>2, <2>3
  <1>4. PICK f \in [D -> V] : Sol(f, N)
    BY <1>3, <1>a DEF T
  <1>5. \A e \in D : e <= N
    BY <1>a
  <1> QED BY <1>4, <1>5

-----------------------------------------------------------------------------
(* The tree of blocks *)

Nodes == Blocks \cup {nullptr}

(* The blocks are numbers, and a parent has a smaller one. *)
LEMMA NodesAre ==
  /\ Len(Parent) \in Nat /\ Nodes = 0..Len(Parent) /\ Blocks = 1..Len(Parent)
  /\ \A b \in Blocks : b \in Nat \ {0} /\ Parent[b] \in Nodes /\ Parent[b] < b
  <1>1. Len(Parent) \in Nat /\ Blocks = 1..Len(Parent)
    BY VersionBitsAssumption DEF Blocks
  <1>2. Nodes = 0..Len(Parent)
    BY <1>1 DEF Nodes, nullptr
  <1>3. \A b \in Blocks : Parent[b] \in 0..b - 1
    BY VersionBitsAssumption
  <1>4. \A b \in Blocks : b \in Nat \ {0} /\ Parent[b] \in Nodes /\ Parent[b] < b
    BY <1>1, <1>2, <1>3
  <1> QED BY <1>1, <1>2, <1>4

(* Induction over the tree. *)
LEMMA TreeInduction ==
  ASSUME NEW S, nullptr \in S,
         \A b \in Blocks : (\A a \in Nodes : a < b => a \in S) => b \in S
  PROVE  \A b \in Nodes : b \in S
  <1> SUFFICES ASSUME NEW c \in Nodes, c \notin S PROVE FALSE
    OBVIOUS
  <1> DEFINE M == Nodes \ S
  <1>1. M \subseteq Nat /\ M # {}
    BY NodesAre
  <1> HIDE DEF M
  <1>2. PICK m \in M : \A k \in M : m <= k
    BY <1>1, LeastNatural
  <1>3. m \in Blocks /\ m \notin S /\ m \in Nat
    BY <1>1 DEF M, Nodes
  <1>4. \A a \in Nodes : a < m => a \in S
    <2>1. ASSUME NEW a \in Nodes, a < m, a \notin S PROVE FALSE
      <3>1. a \in M /\ a \in Nat
        BY <1>1, <2>1 DEF M
      <3> QED BY <1>2, <1>3, <2>1, <3>1
    <2> QED BY <2>1
  <1> QED BY <1>3, <1>4

HeightSolves(f) == f = [b \in Nodes |-> IF b = nullptr THEN -1 ELSE f[Parent[b]] + 1]

(* The height of a block. *)
LEMMA Heights ==
  /\ nHeight[nullptr] = -1
  /\ \A b \in Blocks : nHeight[b] = nHeight[Parent[b]] + 1 /\ nHeight[b] \in Nat
  /\ \A b \in Nodes : nHeight[b] \in Int /\ nHeight[b] >= -1
  <1> DEFINE H == [x \in Nodes \X Int |-> x[2] + 1]
             base == [x \in {nullptr} |-> -1]
  <1>1. \E f \in [Nodes -> Int] :
           \A b \in Nodes : f[b] = IF b \in {nullptr} THEN base[b] ELSE H[<<b, f[Parent[b]]>>]
    <2>1. Nodes \in SUBSET (0..Len(Parent)) /\ {nullptr} \in SUBSET Nodes
      BY NodesAre DEF Nodes
    <2>2. base \in [{nullptr} -> Int] /\ H \in [Nodes \X Int -> Int] /\ Int # {}
      OBVIOUS
    <2>3. \A e \in Nodes \ {nullptr} : Parent[e] \in Nodes /\ Parent[e] < e
      BY NodesAre DEF Nodes
    <2> HIDE DEF H, base
    <2>4. WellFounded(Nodes, {nullptr}, Int, base, Parent, H)
      BY <2>1, <2>2, <2>3 DEF WellFounded
    <2> QED BY <2>4, Recursion
  <1>2. PICK f \in [Nodes -> Int] :
           \A b \in Nodes : f[b] = IF b \in {nullptr} THEN base[b] ELSE H[<<b, f[Parent[b]]>>]
    BY <1>1
  <1>3. \A b \in Nodes : f[b] = IF b = nullptr THEN -1 ELSE f[Parent[b]] + 1
    <2>1. ASSUME NEW b \in Nodes, b # nullptr PROVE f[b] = f[Parent[b]] + 1
      <3>1. Parent[b] \in Nodes /\ f[Parent[b]] \in Int
        BY <2>1, NodesAre DEF Nodes
      <3> QED BY <1>2, <2>1, <3>1
    <2>2. f[nullptr] = -1
      BY <1>2 DEF Nodes
    <2> QED BY <2>1, <2>2
  <1>4. HeightSolves(f)
    BY <1>3 DEF HeightSolves
  <1>5. nHeight = CHOOSE g : HeightSolves(g)
    BY DEF nHeight, HeightSolves, Nodes
  <1>6. HeightSolves(nHeight)
    BY <1>4, <1>5
  <1>7. nHeight[nullptr] = -1
    BY <1>6 DEF HeightSolves, Nodes
  <1>8. \A b \in Blocks : nHeight[b] = nHeight[Parent[b]] + 1
    <2>1. \A b \in Blocks : b \in Nodes /\ b # nullptr
      BY NodesAre DEF Nodes, nullptr
    <2> QED BY <1>6, <2>1 DEF HeightSolves
  <1> DEFINE S == {b \in Nodes : nHeight[b] \in Int /\ nHeight[b] >= -1}
  <1>9. nullptr \in S
    BY <1>7 DEF Nodes
  <1>10. ASSUME NEW b \in Blocks, \A a \in Nodes : a < b => a \in S
         PROVE  b \in S /\ nHeight[b] \in Nat
    <2>1. Parent[b] \in S /\ b \in Nodes
      BY <1>10, NodesAre DEF Nodes
    <2> QED BY <1>8, <2>1
  <1> HIDE DEF S
  <1>11. \A b \in Nodes : b \in S
    BY <1>9, <1>10, TreeInduction
  <1>12. \A b \in Blocks : nHeight[b] \in Nat
    BY <1>10, <1>11
  <1> QED BY <1>7, <1>8, <1>11, <1>12 DEF S

BranchSolves(f) == f = [b \in Nodes |-> IF b = nullptr THEN {} ELSE {b} \cup f[Parent[b]]]

(* A block and the ones before it. *)
LEMMA Branches ==
  /\ Branch[nullptr] = {}
  /\ \A b \in Blocks : Branch[b] = {b} \cup Branch[Parent[b]]
  /\ \A b \in Nodes : Branch[b] \subseteq Blocks /\ \A a \in Branch[b] : a <= b
  <1> DEFINE V == SUBSET Nodes
             H == [x \in Nodes \X V |-> {x[1]} \cup x[2]]
             base == [x \in {nullptr} |-> {}]
  <1>1. \E f \in [Nodes -> V] :
           \A b \in Nodes : f[b] = IF b \in {nullptr} THEN base[b] ELSE H[<<b, f[Parent[b]]>>]
    <2>1. Nodes \in SUBSET (0..Len(Parent)) /\ {nullptr} \in SUBSET Nodes
      BY NodesAre DEF Nodes
    <2>2. base \in [{nullptr} -> V] /\ V # {}
      OBVIOUS
    <2>3. H \in [Nodes \X V -> V]
      OBVIOUS
    <2>4. \A e \in Nodes \ {nullptr} : Parent[e] \in Nodes /\ Parent[e] < e
      BY NodesAre DEF Nodes
    <2> HIDE DEF H, base, V
    <2>5. WellFounded(Nodes, {nullptr}, V, base, Parent, H)
      BY <2>1, <2>2, <2>3, <2>4 DEF WellFounded
    <2> QED BY <2>5, Recursion
  <1>2. PICK f \in [Nodes -> V] :
           \A b \in Nodes : f[b] = IF b \in {nullptr} THEN base[b] ELSE H[<<b, f[Parent[b]]>>]
    BY <1>1
  <1>3. \A b \in Nodes : f[b] = IF b = nullptr THEN {} ELSE {b} \cup f[Parent[b]]
    <2>1. ASSUME NEW b \in Nodes, b # nullptr PROVE f[b] = {b} \cup f[Parent[b]]
      <3>1. Parent[b] \in Nodes /\ f[Parent[b]] \in V
        BY <2>1, NodesAre DEF Nodes
      <3> HIDE DEF V
      <3>2. H[<<b, f[Parent[b]]>>] = {b} \cup f[Parent[b]]
        BY <3>1
      <3> HIDE DEF H
      <3> QED BY <1>2, <2>1, <3>2
    <2>2. f[nullptr] = {}
      BY <1>2 DEF Nodes
    <2> QED BY <2>1, <2>2
  <1>4. BranchSolves(f)
    <2>1. f = [b \in Nodes |-> f[b]]
      OBVIOUS
    <2> QED BY <1>3, <2>1 DEF BranchSolves
  <1>5. Branch = CHOOSE g : BranchSolves(g)
    BY DEF Branch, BranchSolves, Nodes
  <1>6. BranchSolves(Branch)
    BY <1>4, <1>5
  <1>7. Branch[nullptr] = {}
    BY <1>6 DEF BranchSolves, Nodes
  <1>8. \A b \in Blocks : Branch[b] = {b} \cup Branch[Parent[b]]
    <2>1. \A b \in Blocks : b \in Nodes /\ b # nullptr
      BY NodesAre DEF Nodes, nullptr
    <2> QED BY <1>6, <2>1 DEF BranchSolves
  <1> DEFINE S == {b \in Nodes : Branch[b] \subseteq Blocks /\ \A a \in Branch[b] : a <= b}
  <1>9. nullptr \in S
    BY <1>7 DEF Nodes
  <1>10. ASSUME NEW b \in Blocks, \A a \in Nodes : a < b => a \in S
         PROVE  b \in S
    <2>1. Parent[b] \in S /\ b \in Nodes /\ Parent[b] < b /\ b \in Nat /\ Parent[b] \in Nat
      BY <1>10, NodesAre DEF Nodes
    <2>2. ASSUME NEW a \in Branch[b] PROVE a \in Blocks /\ a <= b
      <3>1. CASE a = b
        BY <2>1, <3>1
      <3>2. CASE a \in Branch[Parent[b]]
        <4>1. a \in Blocks /\ a <= Parent[b]
          BY <2>1, <3>2
        <4> QED BY <2>1, <4>1, NodesAre
      <3> QED BY <1>8, <3>1, <3>2
    <2> QED BY <2>1, <2>2
  <1> HIDE DEF S
  <1>11. \A b \in Nodes : b \in S
    BY <1>9, <1>10, TreeInduction
  <1> QED BY <1>7, <1>8, <1>11 DEF S

(* Along a branch the height falls by one from block to block. *)
LEMMA BranchDown ==
  \A b \in Nodes : \A a \in Branch[b] :
      /\ Branch[a] \subseteq Branch[b] /\ a \in Branch[a]
      /\ nHeight[a] <= nHeight[b]
      /\ nHeight[a] = nHeight[b] => a = b
  <1> DEFINE OK(b, a) == /\ Branch[a] \subseteq Branch[b] /\ a \in Branch[a]
                         /\ nHeight[a] <= nHeight[b]
                         /\ nHeight[a] = nHeight[b] => a = b
             S == {b \in Nodes : \A a \in Branch[b] : OK(b, a)}
  <1>1. nullptr \in S
    BY Branches DEF Nodes
  <1>2. ASSUME NEW b \in Blocks, \A a \in Nodes : a < b => a \in S PROVE b \in S
    <2>1. /\ Parent[b] \in S /\ b \in Nodes /\ Branch[b] = {b} \cup Branch[Parent[b]]
          /\ Parent[b] \in Nodes
      BY <1>2, NodesAre, Branches DEF Nodes
    <2>2. nHeight[b] = nHeight[Parent[b]] + 1 /\ nHeight[b] \in Nat /\ nHeight[Parent[b]] \in Int
      BY <2>1, Heights
    <2>3. ASSUME NEW a \in Branch[b] PROVE OK(b, a)
      <3>1. CASE a = b
        BY <2>1, <2>2, <3>1
      <3>2. CASE a \in Branch[Parent[b]]
        <4>1. OK(Parent[b], a)
          BY <2>1, <3>2
        <4>2. a \in Nodes /\ nHeight[a] \in Int
          BY <2>1, <3>2, Branches, Heights DEF Nodes
        <4> QED BY <2>1, <2>2, <4>1, <4>2
      <3> QED BY <2>1, <3>1, <3>2
    <2> HIDE DEF OK
    <2> QED BY <2>1, <2>3
  <1> HIDE DEF S
  <1>3. \A b \in Nodes : b \in S
    BY <1>1, <1>2, TreeInduction
  <1> QED BY <1>3 DEF S

(* Of two blocks on a branch the lower one is before the other. *)
LEMMA BranchOrder ==
  \A b \in Nodes : \A a, x \in Branch[b] : nHeight[x] <= nHeight[a] => x \in Branch[a]
  <1> DEFINE S == {b \in Nodes : \A a, x \in Branch[b] :
                                    nHeight[x] <= nHeight[a] => x \in Branch[a]}
  <1>1. nullptr \in S
    BY Branches DEF Nodes
  <1>2. ASSUME NEW b \in Blocks, \A a \in Nodes : a < b => a \in S PROVE b \in S
    <2>1. /\ Parent[b] \in S /\ b \in Nodes /\ Branch[b] = {b} \cup Branch[Parent[b]]
          /\ Parent[b] \in Nodes
      BY <1>2, NodesAre, Branches DEF Nodes
    <2>2. nHeight[b] = nHeight[Parent[b]] + 1 /\ nHeight[b] \in Nat /\ nHeight[Parent[b]] \in Int
      BY <2>1, Heights
    <2>3. ASSUME NEW a \in Branch[b], NEW x \in Branch[b], nHeight[x] <= nHeight[a]
          PROVE  x \in Branch[a]
      <3>1. CASE a = b
        BY <3>1
      <3>2. CASE a # b
        <4>1. a \in Branch[Parent[b]]
          BY <2>1, <3>2
        <4>2. nHeight[a] <= nHeight[Parent[b]] /\ nHeight[a] \in Int
          BY <2>1, <4>1, BranchDown, Branches, Heights DEF Nodes
        <4>3. x # b
          BY <2>2, <2>3, <4>2
        <4>4. x \in Branch[Parent[b]]
          BY <2>1, <4>3
        <4> QED BY <2>1, <2>3, <4>1, <4>4
      <3> QED BY <3>1, <3>2
    <2> QED BY <2>1, <2>3
  <1> HIDE DEF S
  <1>3. \A b \in Nodes : b \in S
    BY <1>1, <1>2, TreeInduction
  <1> QED BY <1>3 DEF S

(* A branch has one block of each height. *)
LEMMA BranchUnique ==
  \A b \in Nodes : \A a, x \in Branch[b] : nHeight[x] = nHeight[a] => x = a
  <1> SUFFICES ASSUME NEW b \in Nodes, NEW a \in Branch[b], NEW x \in Branch[b],
                      nHeight[x] = nHeight[a]
               PROVE  x = a
    OBVIOUS
  <1>1. a \in Nodes /\ x \in Nodes /\ nHeight[a] \in Int /\ nHeight[x] \in Int
    BY Branches, Heights DEF Nodes
  <1>2. x \in Branch[a]
    BY <1>1, BranchOrder
  <1> QED BY <1>1, <1>2, BranchDown

(* A branch has a block of every height up to its own. *)
LEMMA BranchFull ==
  \A b \in Nodes : \A h \in Nat : h <= nHeight[b] => \E a \in Branch[b] : nHeight[a] = h
  <1> DEFINE S == {b \in Nodes : \A h \in Nat : h <= nHeight[b] =>
                                    \E a \in Branch[b] : nHeight[a] = h}
  <1>1. nullptr \in S
    BY Heights DEF Nodes
  <1>2. ASSUME NEW b \in Blocks, \A a \in Nodes : a < b => a \in S PROVE b \in S
    <2>1. /\ Parent[b] \in S /\ b \in Nodes /\ Branch[b] = {b} \cup Branch[Parent[b]]
          /\ Parent[b] \in Nodes
      BY <1>2, NodesAre, Branches DEF Nodes
    <2>2. nHeight[b] = nHeight[Parent[b]] + 1 /\ nHeight[b] \in Nat /\ nHeight[Parent[b]] \in Int
      BY <2>1, Heights
    <2>3. ASSUME NEW h \in Nat, h <= nHeight[b] PROVE \E a \in Branch[b] : nHeight[a] = h
      <3>1. CASE h = nHeight[b]
        BY <2>1, <3>1
      <3>2. CASE h # nHeight[b]
        <4>1. h <= nHeight[Parent[b]]
          BY <2>2, <2>3, <3>2
        <4> QED BY <2>1, <4>1
      <3> QED BY <3>1, <3>2
    <2> QED BY <2>1, <2>3
  <1> HIDE DEF S
  <1>3. \A b \in Nodes : b \in S
    BY <1>1, <1>2, TreeInduction
  <1> QED BY <1>3 DEF S

(* GetAncestor finds the block of a height, if that is one. *)
LEMMA Ancestor ==
  ASSUME NEW b \in Nodes, NEW h \in Int, h <= nHeight[b]
  PROVE  /\ h < 0 => GetAncestor(b, h) = nullptr
         /\ h >= 0 => GetAncestor(b, h) \in Branch[b] /\ nHeight[GetAncestor(b, h)] = h
         /\ GetAncestor(b, h) \in Nodes /\ GetAncestor(b, h) <= b
  <1>1. CASE h < 0
    <2>1. GetAncestor(b, h) = nullptr
      BY <1>1 DEF GetAncestor
    <2>2. nullptr \in Nodes /\ nullptr <= b
      BY NodesAre DEF nullptr
    <2> QED BY <1>1, <2>1, <2>2
  <1>2. CASE h >= 0
    <2>1. \E a \in Branch[b] : nHeight[a] = h
      BY <1>2, BranchFull
    <2>2. GetAncestor(b, h) = CHOOSE a \in Branch[b] : nHeight[a] = h
      BY <1>2 DEF GetAncestor
    <2>3. GetAncestor(b, h) \in Branch[b] /\ nHeight[GetAncestor(b, h)] = h
      BY <2>1, <2>2
    <2>4. GetAncestor(b, h) \in Nodes /\ GetAncestor(b, h) <= b
      BY <2>3, Branches DEF Nodes
    <2> QED BY <1>2, <2>3, <2>4
  <1> QED BY <1>1, <1>2

-----------------------------------------------------------------------------
(* The ends of the periods *)

IsEnd(e, period) == (nHeight[e] + 1) % period = 0

(* The end of the period before b: the last one up to b. *)
LEMMA EndOfPeriodIs ==
  ASSUME NEW b \in Nodes, NEW p \in Nat \ {0}
  PROVE  LET q == EndOfPeriod(b, p)
         IN  /\ q \in Nodes /\ q <= b /\ IsEnd(q, p)
             /\ q # nullptr => q \in Branch[b]
             /\ \A x \in Branch[b] : IsEnd(x, p) => x \in Branch[q]
             /\ Branch[q] \subseteq Branch[b]
             /\ IsEnd(b, p) => q = b
  <1> DEFINE h == nHeight[b] - ((nHeight[b] + 1) % p)
             q == EndOfPeriod(b, p)
  <1>1. nHeight[b] \in Int /\ nHeight[b] >= -1 /\ nHeight[b] + 1 \in Nat
    BY Heights
  <1>2. h \in Int /\ h <= nHeight[b] /\ h + 1 \in Nat /\ (h + 1) % p = 0
    <2>1. /\ (nHeight[b] + 1) % p \in 0..(p - 1)
          /\ (nHeight[b] + 1) - ((nHeight[b] + 1) % p) \in Nat
          /\ ((nHeight[b] + 1) - ((nHeight[b] + 1) % p)) % p = 0
      BY <1>1, ModType, MultipleBelow
    <2>2. h + 1 = (nHeight[b] + 1) - ((nHeight[b] + 1) % p)
      BY <1>1, <2>1
    <2>3. h \in Int /\ h <= nHeight[b]
      BY <1>1, <2>1
    <2> HIDE DEF h
    <2> QED BY <2>1, <2>2, <2>3
  <1>3. q = GetAncestor(b, h)
    BY DEF EndOfPeriod
  <1>4. IsEnd(b, p) => h = nHeight[b]
    BY <1>1 DEF IsEnd
  <1>5. ASSUME NEW x \in Branch[b], IsEnd(x, p) PROVE nHeight[x] <= h
    <2>1. x \in Blocks /\ nHeight[x] \in Nat /\ nHeight[x] <= nHeight[b]
      BY Branches, Heights, BranchDown
    <2>2. ASSUME h < nHeight[x] PROVE FALSE
      <3>1. (h + 1) + p <= nHeight[x] + 1
        <4>1. h + 1 < nHeight[x] + 1 /\ nHeight[x] + 1 \in Nat
          BY <1>2, <2>1, <2>2
        <4>2. (nHeight[x] + 1) % p = 0
          BY <1>5 DEF IsEnd
        <4> HIDE DEF h
        <4> QED BY <1>2, <4>1, <4>2, MultiplesApart
      <3>2. (nHeight[b] + 1) % p \in 0..(p - 1)
        BY <1>1, ModType
      <3> QED BY <1>1, <2>1, <3>1, <3>2
    <2> HIDE DEF h
    <2> QED BY <1>2, <2>1, <2>2
  <1> HIDE DEF h, q
  <1>6. /\ h < 0 => q = nullptr
        /\ h >= 0 => q \in Branch[b] /\ nHeight[q] = h
        /\ q \in Nodes /\ q <= b
    BY <1>2, <1>3, Ancestor
  <1>7. CASE h < 0
    <2>1. q = nullptr /\ h = -1
      BY <1>2, <1>6, <1>7
    <2>2. nHeight[q] = h
      BY <2>1, Heights
    <2>3. IsEnd(q, p)
      BY <1>2, <2>2 DEF IsEnd
    <2>4. \A x \in Branch[b] : ~IsEnd(x, p)
      <3>1. ASSUME NEW x \in Branch[b], IsEnd(x, p) PROVE FALSE
        <4>1. nHeight[x] \in Nat
          BY Branches, Heights
        <4> QED BY <1>5, <2>1, <3>1, <4>1
      <3> QED BY <3>1
    <2>5. Branch[q] = {}
      BY <2>1, Branches
    <2>6. IsEnd(b, p) => q = b
      <3>1. ASSUME IsEnd(b, p), b # nullptr PROVE FALSE
        <4>1. b \in Blocks
          BY <3>1 DEF Nodes
        <4>2. nHeight[b] \in Nat
          BY <4>1, Heights
        <4> QED BY <1>4, <2>1, <3>1, <4>2
      <3> QED BY <2>1, <3>1
    <2> QED BY <1>6, <2>1, <2>3, <2>4, <2>5, <2>6 DEF q
  <1>8. CASE h >= 0
    <2>1. q \in Branch[b] /\ nHeight[q] = h
      BY <1>6, <1>8
    <2>2. IsEnd(q, p)
      BY <1>2, <2>1 DEF IsEnd
    <2>3. \A x \in Branch[b] : IsEnd(x, p) => x \in Branch[q]
      BY <1>5, <2>1, BranchOrder
    <2>4. Branch[q] \subseteq Branch[b]
      BY <2>1, BranchDown
    <2>5. IsEnd(b, p) => q = b
      BY <1>4, <2>1, BranchDown
    <2> QED BY <1>6, <2>1, <2>2, <2>3, <2>4, <2>5 DEF q
  <1> QED BY <1>2, <1>7, <1>8

(* The end of the period before the one that e ends. *)
LEMMA PreviousEndIs ==
  ASSUME NEW e \in Blocks, NEW p \in Nat \ {0}
  PROVE  LET q == PreviousEnd(e, p)
         IN  /\ q \in Nodes /\ q < e
             /\ q # nullptr => q \in Branch[e]
             /\ IsEnd(e, p) => /\ IsEnd(q, p) /\ nHeight[q] = nHeight[e] - p
                               /\ \A x \in Branch[e] : IsEnd(x, p) => x = e \/ x \in Branch[q]
                               /\ Branch[q] \subseteq Branch[e]
                               /\ e \notin Branch[q]
  <1> DEFINE h == nHeight[e] - p
             q == PreviousEnd(e, p)
  <1>1. nHeight[e] \in Nat /\ e \in Nodes /\ e \in Nat \ {0}
    BY Heights, NodesAre DEF Nodes
  <1>2. h \in Int /\ h < nHeight[e]
    BY <1>1
  <1>3. q = GetAncestor(e, h)
    BY DEF PreviousEnd
  <1>4. h + p = nHeight[e]
    BY <1>1
  <1> HIDE DEF h, q
  <1>5. /\ h < 0 => q = nullptr
        /\ h >= 0 => q \in Branch[e] /\ nHeight[q] = h
        /\ q \in Nodes /\ q <= e
    BY <1>1, <1>2, <1>3, Ancestor
  <1>6. q < e
    <2>1. q # e
      <3>1. CASE h < 0
        BY <1>1, <1>5, <3>1 DEF nullptr
      <3>2. CASE h >= 0
        BY <1>1, <1>2, <1>5, <3>2
      <3> QED BY <1>2, <3>1, <3>2
    <2>2. q \in Nat
      BY <1>5, NodesAre
    <2> QED BY <1>1, <1>5, <2>1, <2>2
  <1>7. e \notin Branch[q]
    <2>1. \A a \in Branch[q] : a <= q /\ a \in Nat
      BY <1>5, Branches, NodesAre
    <2>2. q \in Nat
      BY <1>5, NodesAre
    <2> QED BY <1>1, <1>6, <2>1, <2>2
  <1>8. q # nullptr => q \in Branch[e]
    BY <1>2, <1>5
  <1>9. Branch[q] \subseteq Branch[e]
    <2>1. CASE q = nullptr
      BY <2>1, Branches
    <2>2. CASE q # nullptr
      BY <1>1, <1>8, <2>2, BranchDown
    <2> QED BY <2>1, <2>2
  <1>10. ASSUME IsEnd(e, p)
         PROVE  h + 1 \in Nat /\ (h + 1) % p = 0
    <2>1. nHeight[e] + 1 \in Nat /\ nHeight[e] + 1 > 0 /\ (nHeight[e] + 1) % p = 0
      BY <1>1, <1>10 DEF IsEnd
    <2>2. (nHeight[e] + 1) - p \in Nat /\ ((nHeight[e] + 1) - p) % p = 0
      BY <2>1, MultipleBefore
    <2>3. (nHeight[e] + 1) - p = h + 1
      BY <1>1, <1>2, <1>4
    <2> QED BY <2>2, <2>3
  <1>11. ASSUME IsEnd(e, p) PROVE nHeight[q] = h /\ IsEnd(q, p) /\ nHeight[q] = nHeight[e] - p
    <2>1. h + 1 \in Nat /\ (h + 1) % p = 0
      BY <1>10, <1>11
    <2>2. nHeight[q] = h
      <3>1. CASE h < 0
        <4>1. h = -1
          BY <1>2, <2>1, <3>1
        <4> QED BY <1>5, <3>1, <4>1, Heights
      <3>2. CASE h >= 0
        BY <1>5, <3>2
      <3> QED BY <1>2, <3>1, <3>2
    <2> QED BY <2>1, <2>2 DEF IsEnd, h
  <1>12. ASSUME IsEnd(e, p), NEW x \in Branch[e], IsEnd(x, p), x # e
         PROVE  x \in Branch[q]
    <2>1. x \in Blocks /\ nHeight[x] \in Nat /\ nHeight[x] < nHeight[e]
      <3>1. x \in Blocks /\ nHeight[x] \in Nat /\ nHeight[x] <= nHeight[e] /\ nHeight[x] # nHeight[e]
        BY <1>1, <1>12, Branches, Heights, BranchDown
      <3> QED BY <1>1, <3>1
    <2>2. nHeight[x] + 1 + p <= nHeight[e] + 1
      <3>1. /\ nHeight[x] + 1 \in Nat /\ (nHeight[x] + 1) % p = 0
            /\ nHeight[e] + 1 \in Nat /\ (nHeight[e] + 1) % p = 0
            /\ nHeight[x] + 1 < nHeight[e] + 1
        BY <1>1, <1>12, <2>1 DEF IsEnd
      <3> QED BY <3>1, MultiplesApart
    <2>3. nHeight[x] <= h
      BY <1>1, <1>2, <1>4, <2>1, <2>2
    <2>4. h >= 0
      BY <1>2, <2>1, <2>3
    <2>5. q \in Branch[e] /\ nHeight[q] = h
      BY <1>5, <2>4
    <2> QED BY <1>1, <2>3, <2>5, BranchOrder
  <1> QED BY <1>5, <1>6, <1>7, <1>8, <1>9, <1>11, <1>12 DEF q

-----------------------------------------------------------------------------
(* The rule, of an index idx and a set E of ends of periods on a branch *)

EndsOf(c, p) == {e \in Branch[p] : IsEnd(e, c.period)}
StartsIn(idx, c, E) == {e \in E : idx[e].mtp >= c.begin}
VotingIn(idx, c, E) == {e \in E : \E s \in StartsIn(idx, c, E) : nHeight[s] < nHeight[e]}
EnoughAt(c, sig, e) == CountFromEnd(e, c.period, sig) >= c.threshold
DecidesAt(idx, c, sig, e) == EnoughAt(c, sig, e) \/ idx[e].mtp >= c.end
DecidingIn(idx, c, sig, E) == {e \in VotingIn(idx, c, E) : DecidesAt(idx, c, sig, e)}
FirstIn(D) == CHOOSE e \in D : \A f \in D : nHeight[e] <= nHeight[f]
WaitedIn(c, E, first) == \E e \in E : /\ nHeight[e] > nHeight[first]
                                      /\ nHeight[e] + 1 >= c.min_activation_height
RuleIn(idx, c, sig, E) ==
  CASE c.begin = ALWAYS_ACTIVE -> "ACTIVE"
    [] c.begin = NEVER_ACTIVE -> "FAILED"
    [] c.begin >= 0 /\ StartsIn(idx, c, E) = {} -> "DEFINED"
    [] c.begin >= 0 /\ StartsIn(idx, c, E) # {} /\ DecidingIn(idx, c, sig, E) = {} -> "STARTED"
    [] c.begin >= 0 /\ DecidingIn(idx, c, sig, E) # {} ->
         IF ~EnoughAt(c, sig, FirstIn(DecidingIn(idx, c, sig, E))) THEN "FAILED"
         ELSE IF WaitedIn(c, E, FirstIn(DecidingIn(idx, c, sig, E))) THEN "ACTIVE"
         ELSE "LOCKED_IN"
RuleOf(idx, c, sig, p) == RuleIn(idx, c, sig, EndsOf(c, p))

(* It is the one of the specification. *)
LEMMA RuleIs ==
  ASSUME NEW c, NEW sig, NEW p
  PROVE  RuleState(c, sig, p) = RuleOf(index, c, sig, p)
  BY DEF RuleState, RuleOf, RuleIn, EndsOf, StartsIn, VotingIn, EnoughAt, DecidesAt, DecidingIn,
         FirstIn, WaitedIn, IsEnd, GetMedianTimePast

(* The cases of the rule, for a deployment with a time to begin. *)
LEMMA RuleCases ==
  ASSUME NEW idx, NEW c \in Parameters, NEW sig, NEW E, c.begin >= 0
  PROVE  LET first == FirstIn(DecidingIn(idx, c, sig, E))
         IN  /\ StartsIn(idx, c, E) = {} => RuleIn(idx, c, sig, E) = "DEFINED"
             /\ StartsIn(idx, c, E) # {} /\ DecidingIn(idx, c, sig, E) = {}
                  => RuleIn(idx, c, sig, E) = "STARTED"
             /\ DecidingIn(idx, c, sig, E) # {} =>
                  /\ StartsIn(idx, c, E) # {}
                  /\ ~EnoughAt(c, sig, first) => RuleIn(idx, c, sig, E) = "FAILED"
                  /\ EnoughAt(c, sig, first) /\ WaitedIn(c, E, first)
                       => RuleIn(idx, c, sig, E) = "ACTIVE"
                  /\ EnoughAt(c, sig, first) /\ ~WaitedIn(c, E, first)
                       => RuleIn(idx, c, sig, E) = "LOCKED_IN"
  <1> DEFINE first == FirstIn(DecidingIn(idx, c, sig, E))
  <1> HIDE DEF first
  <1>1. c.begin \in Int /\ c.begin # ALWAYS_ACTIVE /\ c.begin # NEVER_ACTIVE
    BY DEF Parameters, ALWAYS_ACTIVE, NEVER_ACTIVE
  <1>2. DecidingIn(idx, c, sig, E) # {} => StartsIn(idx, c, E) # {}
    BY DEF DecidingIn, VotingIn
  <1>3. RuleIn(idx, c, sig, E) =
          CASE c.begin = ALWAYS_ACTIVE -> "ACTIVE"
            [] c.begin = NEVER_ACTIVE -> "FAILED"
            [] c.begin >= 0 /\ StartsIn(idx, c, E) = {} -> "DEFINED"
            [] c.begin >= 0 /\ StartsIn(idx, c, E) # {} /\ DecidingIn(idx, c, sig, E) = {} -> "STARTED"
            [] c.begin >= 0 /\ DecidingIn(idx, c, sig, E) # {} ->
                 IF ~EnoughAt(c, sig, first) THEN "FAILED"
                 ELSE IF WaitedIn(c, E, first) THEN "ACTIVE" ELSE "LOCKED_IN"
    BY DEF RuleIn, first
  <1> QED BY <1>1, <1>2, <1>3 DEF first

(* The states. *)
LEMMA RuleType ==
  ASSUME NEW idx, NEW c \in Parameters, NEW sig, NEW E
  PROVE  RuleIn(idx, c, sig, E) \in States
  <1>1. CASE c.begin = ALWAYS_ACTIVE
    BY <1>1 DEF RuleIn, States, ALWAYS_ACTIVE, NEVER_ACTIVE
  <1>2. CASE c.begin = NEVER_ACTIVE
    BY <1>2 DEF RuleIn, States, ALWAYS_ACTIVE, NEVER_ACTIVE
  <1>3. CASE c.begin >= 0
    <2>1. RuleIn(idx, c, sig, E) \in {"DEFINED", "STARTED", "FAILED", "ACTIVE", "LOCKED_IN"}
      BY <1>3, RuleCases
    <2> QED BY <2>1 DEF States
  <1> QED BY <1>1, <1>2, <1>3 DEF Parameters

(* The first of the blocks that decide. *)
LEMMA FirstIs ==
  ASSUME NEW b \in Nodes, NEW D, D \subseteq Branch[b], D # {}
  PROVE  /\ FirstIn(D) \in D /\ \A f \in D : nHeight[FirstIn(D)] <= nHeight[f]
         /\ \A e \in D : (\A f \in D : nHeight[e] <= nHeight[f]) => e = FirstIn(D)
  <1> DEFINE T == {nHeight[x] : x \in D}
  <1>1. T \subseteq Nat /\ T # {}
    BY Branches, Heights
  <1> HIDE DEF T
  <1>2. PICK m \in T : \A k \in T : m <= k
    BY <1>1, LeastNatural
  <1>3. \E e \in D : \A f \in D : nHeight[e] <= nHeight[f]
    BY <1>2 DEF T
  <1>4. FirstIn(D) \in D /\ \A f \in D : nHeight[FirstIn(D)] <= nHeight[f]
    BY <1>3 DEF FirstIn
  <1>5. ASSUME NEW e \in D, \A f \in D : nHeight[e] <= nHeight[f] PROVE e = FirstIn(D)
    <2>1. /\ nHeight[e] <= nHeight[FirstIn(D)] /\ nHeight[FirstIn(D)] <= nHeight[e]
          /\ e \in Branch[b] /\ FirstIn(D) \in Branch[b]
      BY <1>4, <1>5
    <2>2. nHeight[e] \in Nat /\ nHeight[FirstIn(D)] \in Nat
      BY <2>1, Branches, Heights
    <2>3. nHeight[e] = nHeight[FirstIn(D)]
      BY <2>1, <2>2
    <2> QED BY <2>1, <2>3, BranchUnique
  <1> QED BY <1>4, <1>5

-----------------------------------------------------------------------------
(* What the index is: a header comes after its parent, and no earlier. *)
IndexInv ==
  /\ \E n \in Nat : n <= Len(Parent) /\ DOMAIN index = 1..n
  /\ \A b \in DOMAIN index : index[b] \in [mtp : Nat, signal : BOOLEAN]
  /\ \A b \in DOMAIN index : \A a \in Branch[b] : index[a].mtp <= index[b].mtp

(* The index holds the branch of every block in it. *)
LEMMA IndexedIs ==
  ASSUME IndexInv
  PROVE  /\ Indexed \subseteq Nodes /\ nullptr \in Indexed
         /\ DOMAIN index \subseteq Blocks /\ Indexed \ {nullptr} = DOMAIN index
         /\ \A b \in Indexed : \A a \in Nodes : a <= b => a \in Indexed
         /\ \A b \in Indexed : Branch[b] \subseteq DOMAIN index
         /\ \A b \in DOMAIN index : Parent[b] \in Indexed
         /\ \A b \in DOMAIN index : index[b].mtp \in Nat
  <1>1. PICK n \in Nat : n <= Len(Parent) /\ DOMAIN index = 1..n
    BY DEF IndexInv
  <1>2. Indexed = 0..n
    BY <1>1 DEF Indexed, nullptr
  <1>3. Indexed \subseteq Nodes /\ DOMAIN index \subseteq Blocks
    BY <1>1, <1>2, NodesAre
  <1>4. \A b \in Indexed : \A a \in Nodes : a <= b => a \in Indexed
    BY <1>1, <1>2, NodesAre
  <1>5. \A b \in Indexed : Branch[b] \subseteq DOMAIN index
    <2>1. ASSUME NEW b \in Indexed, NEW a \in Branch[b] PROVE a \in DOMAIN index
      <3>1. a \in Blocks /\ a <= b /\ b \in Nodes
        BY <1>3, Branches
      <3> QED BY <1>1, <1>2, <3>1, NodesAre
    <2> QED BY <2>1
  <1>6. \A b \in DOMAIN index : Parent[b] \in Indexed
    <2>1. ASSUME NEW b \in DOMAIN index PROVE Parent[b] \in Indexed
      <3>1. b \in Blocks /\ Parent[b] \in Nodes /\ Parent[b] < b
        BY <1>3, NodesAre
      <3>2. b \in Nat /\ Parent[b] \in Nat
        BY <3>1, NodesAre
      <3> QED BY <1>4, <3>1, <3>2 DEF Indexed
    <2> QED BY <2>1
  <1>7. \A b \in DOMAIN index : index[b].mtp \in Nat
    BY VersionBitsAssumption DEF IndexInv
  <1>8. Indexed \ {nullptr} = DOMAIN index /\ nullptr \in Indexed
    BY <1>1 DEF Indexed, nullptr
  <1> QED BY <1>3, <1>4, <1>5, <1>6, <1>7, <1>8

(* e is a later end than those of E. *)
LaterEnd(E, e) ==
  /\ e \in DOMAIN index /\ E \subseteq Branch[e] /\ e \notin E
  /\ \A x \in E : nHeight[x] < nHeight[e]

(* Before the start there is only DEFINED. *)
LEMMA RuleBefore ==
  ASSUME NEW c \in Parameters, NEW sig, NEW E, NEW e, IndexInv, c.begin >= 0,
         LaterEnd(E, e), GetMedianTimePast(e) < c.begin
  PROVE  RuleIn(index, c, sig, E \cup {e}) = "DEFINED"
  <1>1. e \in Blocks /\ e \in Indexed /\ index[e].mtp \in Nat /\ c.begin \in Int
    BY IndexedIs DEF LaterEnd, Indexed, Parameters, ALWAYS_ACTIVE, NEVER_ACTIVE
  <1>2. ASSUME NEW x \in E PROVE index[x].mtp < c.begin
    <2>1. x \in Branch[e] /\ index[x].mtp <= index[e].mtp /\ x \in DOMAIN index
      BY <1>1, IndexedIs DEF LaterEnd, IndexInv
    <2>2. index[x].mtp \in Nat
      BY <2>1, IndexedIs
    <2> QED BY <1>1, <2>1, <2>2 DEF GetMedianTimePast
  <1>3. \A x \in E : index[x].mtp \in Nat
    BY <1>1, IndexedIs DEF LaterEnd
  <1>4. StartsIn(index, c, E \cup {e}) = {}
    BY <1>1, <1>2, <1>3 DEF StartsIn, GetMedianTimePast
  <1> QED BY <1>4, RuleCases

Started(c, E, e) ==
  c \in Parameters /\ c.begin >= 0 /\ LaterEnd(E, e) /\ GetMedianTimePast(e) >= c.begin

(* What e adds to the ends that start and to those that decide. *)
SetsGrow(c, sig, E, e) ==
  /\ StartsIn(index, c, E \cup {e}) = StartsIn(index, c, E) \cup {e}
  /\ DecidingIn(index, c, sig, E \cup {e}) =
       DecidingIn(index, c, sig, E)
         \cup {x \in {e} : StartsIn(index, c, E) # {} /\ DecidesAt(index, c, sig, x)}

(* After the start an end decides only when the start was before it. *)
LEMMA RuleSets ==
  ASSUME NEW c, NEW sig, NEW E, NEW e, IndexInv, Started(c, E, e)
  PROVE  SetsGrow(c, sig, E, e)
  <1> USE DEF Started
  <1>1. e \in Blocks /\ e \in Indexed /\ nHeight[e] \in Nat
    BY IndexedIs, Heights DEF LaterEnd, Indexed
  <1>2. \A x \in E : nHeight[x] \in Nat /\ nHeight[x] < nHeight[e]
    BY <1>1, Branches, Heights DEF LaterEnd, Nodes
  <1>3. StartsIn(index, c, E \cup {e}) = StartsIn(index, c, E) \cup {e}
    BY DEF StartsIn, GetMedianTimePast
  <1>4. StartsIn(index, c, E) \subseteq E
    BY DEF StartsIn
  <1> DEFINE S == StartsIn(index, c, E)
             V == VotingIn(index, c, E \cup {e})
  <1>5. V = {x \in E \cup {e} : \E s \in S \cup {e} : nHeight[s] < nHeight[x]}
    BY <1>3 DEF VotingIn
  <1>6. VotingIn(index, c, E) = {x \in E : \E s \in S : nHeight[s] < nHeight[x]}
    BY DEF VotingIn
  <1> HIDE DEF S, V
  <1>7. ASSUME NEW x \in E
        PROVE  (\E s \in S \cup {e} : nHeight[s] < nHeight[x])
                 <=> (\E s \in S : nHeight[s] < nHeight[x])
    BY <1>1, <1>2
  <1>8. (\E s \in S \cup {e} : nHeight[s] < nHeight[e]) <=> S # {}
    BY <1>1, <1>2, <1>4 DEF S
  <1>9. V = VotingIn(index, c, E) \cup (IF S = {} THEN {} ELSE {e})
    <2>1. ASSUME NEW x PROVE x \in V <=> x \in VotingIn(index, c, E) \cup (IF S = {} THEN {} ELSE {e})
      BY <1>5, <1>6, <1>7, <1>8
    <2> QED BY <2>1
  <1>10. DecidingIn(index, c, sig, E \cup {e}) = {x \in V : DecidesAt(index, c, sig, x)}
    BY DEF DecidingIn, V
  <1>11. DecidingIn(index, c, sig, E \cup {e}) =
           DecidingIn(index, c, sig, E) \cup {x \in {e} : S # {} /\ DecidesAt(index, c, sig, x)}
    BY <1>9, <1>10 DEF DecidingIn
  <1> QED BY <1>3, <1>11 DEF S, SetsGrow

(* What is counted is finite. *)
LEMMA CountType ==
  ASSUME NEW e \in Nodes, NEW k, NEW sig
  PROVE  CountFromEnd(e, k, sig) \in Nat
  <1> DEFINE B == {b \in Branch[e] \cap sig : nHeight[b] > nHeight[e] - k}
  <1>1. B \subseteq 1..Len(Parent)
    BY Branches, NodesAre
  <1>2. IsFiniteSet(1..Len(Parent))
    BY NodesAre, FS_Interval
  <1>3. IsFiniteSet(B)
    BY <1>1, <1>2, FS_Subset
  <1> HIDE DEF B
  <1>4. Cardinality(B) \in Nat
    BY <1>3, FS_CardinalityType
  <1> QED BY <1>4 DEF B, CountFromEnd

(* The rule from one end to the next is the switch of GetStateFor. *)
LEMMA RuleNext ==
  ASSUME NEW c \in Parameters, NEW sig, NEW E, NEW e, IndexInv, c.begin >= 0,
         LaterEnd(E, e), GetMedianTimePast(e) >= c.begin
  PROVE  RuleIn(index, c, sig, E \cup {e}) = NextState(c, sig, RuleIn(index, c, sig, E), e)
  <1> DEFINE F == E \cup {e}
             S == StartsIn(index, c, E)
             D == DecidingIn(index, c, sig, E)
             G == DecidingIn(index, c, sig, F)
             old == RuleIn(index, c, sig, E)
             new == RuleIn(index, c, sig, F)
  <1>1. /\ StartsIn(index, c, F) = S \cup {e}
        /\ G = D \cup {x \in {e} : S # {} /\ DecidesAt(index, c, sig, x)}
    <2>1. Started(c, E, e)
      BY DEF Started
    <2>2. SetsGrow(c, sig, E, e)
      BY <2>1, RuleSets
    <2> QED BY <2>2 DEF SetsGrow
  <1>2. D \subseteq E
    BY DEF DecidingIn, VotingIn
  <1>3. D # {} => S # {}
    BY RuleCases
  <1>4. e \in Blocks /\ e \in Nodes /\ nHeight[e] \in Nat /\ e \in Branch[e]
    <2>1. e \in Blocks
      BY IndexedIs DEF LaterEnd
    <2> QED BY <2>1, Heights, Branches DEF Nodes
  <1>5. \A x \in E : nHeight[x] \in Nat /\ nHeight[x] < nHeight[e] /\ x \in Branch[e]
    BY <1>4, Branches, Heights DEF LaterEnd
  <1>6. /\ c.threshold \in Nat /\ c.end \in Int /\ c.begin \in Int /\ index[e].mtp \in Nat
        /\ c.min_activation_height \in Nat
    BY IndexedIs DEF LaterEnd, Parameters, ALWAYS_ACTIVE, NEVER_ACTIVE
  <1>7. CountFromEnd(e, c.period, sig) \in Nat
    BY <1>4, CountType
  <1>8. EnoughAt(c, sig, e) <=> ~(CountFromEnd(e, c.period, sig) < c.threshold)
    BY <1>6, <1>7 DEF EnoughAt
  <1>9. CASE S = {}
    <2>1. D = {} /\ G = {} /\ StartsIn(index, c, F) # {}
      BY <1>1, <1>3, <1>9
    <2>2. old = "DEFINED" /\ new = "STARTED"
      BY <1>9, <2>1, RuleCases
    <2> HIDE DEF old, new
    <2>3. NextState(c, sig, old, e) = "STARTED"
      BY <2>2 DEF NextState
    <2> QED BY <2>2, <2>3 DEF old, new
  <1>10. CASE S # {} /\ D = {}
    <2>1. old = "STARTED" /\ StartsIn(index, c, F) # {}
      BY <1>1, <1>10, RuleCases
    <2>2. CASE ~DecidesAt(index, c, sig, e)
      <3>1. G = {}
        BY <1>1, <1>10, <2>2
      <3>2. new = "STARTED"
        BY <2>1, <3>1, RuleCases
      <3>3. CountFromEnd(e, c.period, sig) < c.threshold /\ ~(GetMedianTimePast(e) >= c.end)
        BY <1>8, <2>2 DEF DecidesAt, GetMedianTimePast
      <3>4. ~(CountFromEnd(e, c.period, sig) >= c.threshold)
        BY <1>6, <1>7, <3>3
      <3> HIDE DEF old, new
      <3>5. NextState(c, sig, old, e) = "STARTED"
        BY <2>1, <3>3, <3>4 DEF NextState
      <3> QED BY <3>2, <3>5 DEF old, new
    <2>3. CASE DecidesAt(index, c, sig, e)
      <3>1. G = {e}
        BY <1>1, <1>10, <2>3
      <3>2. FirstIn(G) = e
        BY <3>1 DEF FirstIn
      <3>3. ~WaitedIn(c, F, e)
        BY <1>4, <1>5 DEF WaitedIn
      <3>4. CASE EnoughAt(c, sig, e)
        <4>1. new = "LOCKED_IN"
          BY <3>1, <3>2, <3>3, <3>4, RuleCases
        <4>2. CountFromEnd(e, c.period, sig) >= c.threshold
          BY <3>4 DEF EnoughAt
        <4> HIDE DEF old, new
        <4>3. NextState(c, sig, old, e) = "LOCKED_IN"
          BY <1>8, <2>1, <3>4, <4>2 DEF NextState
        <4> QED BY <4>1, <4>3 DEF old, new
      <3>5. CASE ~EnoughAt(c, sig, e)
        <4>1. new = "FAILED"
          BY <3>1, <3>2, <3>5, RuleCases
        <4>2. /\ CountFromEnd(e, c.period, sig) < c.threshold /\ GetMedianTimePast(e) >= c.end
              /\ ~(CountFromEnd(e, c.period, sig) >= c.threshold)
          BY <1>8, <2>3, <3>5 DEF DecidesAt, GetMedianTimePast, EnoughAt
        <4> HIDE DEF old, new
        <4>3. NextState(c, sig, old, e) = "FAILED"
          BY <2>1, <4>2 DEF NextState
        <4> QED BY <4>1, <4>3 DEF old, new
      <3> QED BY <3>4, <3>5
    <2> QED BY <2>2, <2>3
  <1>11. CASE D # {}
    <2>1. G # {} /\ D \subseteq G /\ G \subseteq D \cup {e} /\ G \subseteq Branch[e] /\ D \subseteq Branch[e]
      BY <1>1, <1>2, <1>4, <1>5, <1>11
    <2>2. FirstIn(D) \in D /\ \A f \in D : nHeight[FirstIn(D)] <= nHeight[f]
      BY <1>4, <1>11, <2>1, FirstIs
    <2>3. FirstIn(D) \in G /\ \A f \in G : nHeight[FirstIn(D)] <= nHeight[f]
      <3>1. nHeight[FirstIn(D)] < nHeight[e] /\ nHeight[FirstIn(D)] \in Nat
        BY <1>2, <1>5, <2>2
      <3>2. nHeight[FirstIn(D)] <= nHeight[e]
        BY <1>4, <3>1
      <3> QED BY <2>1, <2>2, <3>2
    <2> HIDE DEF D, G
    <2>4. FirstIn(G) = FirstIn(D)
      BY <1>4, <2>1, <2>3, FirstIs
    <2> DEFINE first == FirstIn(D)
    <2>5. first \in E /\ nHeight[first] < nHeight[e]
      BY <1>2, <1>5, <2>2
    <2> HIDE DEF first
    <2>6. WaitedIn(c, F, first) <=>
            WaitedIn(c, E, first) \/ nHeight[e] + 1 >= c.min_activation_height
      BY <1>4, <1>5, <2>5 DEF WaitedIn
    <2>7. /\ ~EnoughAt(c, sig, first) => old = "FAILED" /\ new = "FAILED"
          /\ EnoughAt(c, sig, first) /\ WaitedIn(c, E, first) => old = "ACTIVE"
          /\ EnoughAt(c, sig, first) /\ ~WaitedIn(c, E, first) => old = "LOCKED_IN"
          /\ EnoughAt(c, sig, first) /\ WaitedIn(c, F, first) => new = "ACTIVE"
          /\ EnoughAt(c, sig, first) /\ ~WaitedIn(c, F, first) => new = "LOCKED_IN"
      BY <1>11, <2>1, <2>4, RuleCases DEF first, D, G
    <2> HIDE DEF old, new, F, S
    <2>8. CASE ~EnoughAt(c, sig, first)
      <3>1. old = "FAILED" /\ new = "FAILED"
        BY <2>7, <2>8
      <3>2. NextState(c, sig, old, e) = "FAILED"
        BY <3>1 DEF NextState
      <3> QED BY <3>1, <3>2 DEF old, new, F
    <2>9. CASE EnoughAt(c, sig, first) /\ WaitedIn(c, E, first)
      <3>1. old = "ACTIVE" /\ new = "ACTIVE"
        BY <2>6, <2>7, <2>9
      <3>2. NextState(c, sig, old, e) = "ACTIVE"
        BY <3>1 DEF NextState
      <3> QED BY <3>1, <3>2 DEF old, new, F
    <2>10. CASE EnoughAt(c, sig, first) /\ ~WaitedIn(c, E, first)
      <3>1. old = "LOCKED_IN"
        BY <2>7, <2>10
      <3>2. CASE nHeight[e] + 1 >= c.min_activation_height
        <4>1. new = "ACTIVE"
          BY <2>6, <2>7, <2>10, <3>2
        <4>2. NextState(c, sig, old, e) = "ACTIVE"
          BY <3>1, <3>2 DEF NextState
        <4> QED BY <4>1, <4>2 DEF old, new, F
      <3>3. CASE ~(nHeight[e] + 1 >= c.min_activation_height)
        <4>1. new = "LOCKED_IN"
          BY <2>6, <2>7, <2>10, <3>3
        <4>2. NextState(c, sig, old, e) = "LOCKED_IN"
          BY <3>1, <3>3 DEF NextState
        <4> QED BY <4>1, <4>2 DEF old, new, F
      <3> QED BY <3>2, <3>3
    <2> QED BY <2>8, <2>9, <2>10
  <1> HIDE DEF S, D
  <1> QED BY <1>9, <1>10, <1>11

(* From one end of a branch to the next. *)
LEMMA RuleStep ==
  ASSUME NEW c \in Parameters, NEW sig, NEW e, IndexInv, c.begin >= 0,
         e \in DOMAIN index, IsEnd(e, c.period)
  PROVE  /\ BeforeStart(c, e) => RuleOf(index, c, sig, e) = "DEFINED"
         /\ ~BeforeStart(c, e) =>
              RuleOf(index, c, sig, e)
                = NextState(c, sig, RuleOf(index, c, sig, PreviousEnd(e, c.period)), e)
  <1> DEFINE q == PreviousEnd(e, c.period)
             E == EndsOf(c, q)
  <1>1. e \in Blocks /\ e \in Nodes /\ c.period \in Nat \ {0} /\ e # nullptr
    BY IndexedIs, NodesAre DEF Parameters, Nodes, nullptr
  <1>2. /\ q \in Nodes /\ Branch[q] \subseteq Branch[e] /\ e \notin Branch[q]
        /\ \A x \in Branch[e] : IsEnd(x, c.period) => x = e \/ x \in Branch[q]
    BY <1>1, PreviousEndIs
  <1>3. e \in Branch[e]
    BY <1>1, Branches
  <1> HIDE DEF q
  <1>4. EndsOf(c, e) = E \cup {e}
    BY <1>2, <1>3 DEF EndsOf
  <1>5. E \subseteq Branch[e] /\ e \notin E
    BY <1>2 DEF EndsOf
  <1> HIDE DEF E
  <1>6. \A x \in E : nHeight[x] < nHeight[e]
    <2>1. ASSUME NEW x \in E PROVE nHeight[x] < nHeight[e]
      <3>1. nHeight[x] \in Nat /\ nHeight[e] \in Nat
        BY <1>1, <1>5, Branches, Heights
      <3>2. nHeight[x] <= nHeight[e] /\ nHeight[x] # nHeight[e]
        BY <1>1, <1>5, BranchDown
      <3> QED BY <3>1, <3>2
    <2> QED BY <2>1
  <1>7. LaterEnd(E, e)
    BY <1>5, <1>6 DEF LaterEnd
  <1>8. index[e].mtp \in Nat /\ c.begin \in Int
    BY IndexedIs DEF Parameters, ALWAYS_ACTIVE, NEVER_ACTIVE
  <1>9. CASE GetMedianTimePast(e) < c.begin
    <2>1. RuleIn(index, c, sig, E \cup {e}) = "DEFINED"
      BY <1>7, <1>9, RuleBefore
    <2> QED BY <1>4, <1>9, <2>1 DEF RuleOf, BeforeStart
  <1>10. CASE GetMedianTimePast(e) >= c.begin
    <2>1. RuleIn(index, c, sig, E \cup {e}) = NextState(c, sig, RuleIn(index, c, sig, E), e)
      BY <1>7, <1>10, RuleNext
    <2>2. ~BeforeStart(c, e)
      BY <1>1, <1>8, <1>10 DEF BeforeStart, GetMedianTimePast
    <2> QED BY <1>4, <2>1, <2>2 DEF RuleOf, E, q
  <1> QED BY <1>8, <1>9, <1>10 DEF GetMedianTimePast

(* Before the first block. *)
LEMMA RuleNull ==
  ASSUME NEW idx, NEW c \in Parameters, NEW sig, c.begin >= 0
  PROVE  RuleOf(idx, c, sig, nullptr) = "DEFINED"
  <1>1. StartsIn(idx, c, EndsOf(c, nullptr)) = {}
    BY Branches DEF StartsIn, EndsOf
  <1> QED BY <1>1, RuleCases DEF RuleOf

(* The state within a period is the one at its start. *)
LEMMA RuleEnd ==
  ASSUME NEW idx, NEW c \in Parameters, NEW sig, NEW p \in Nodes
  PROVE  RuleOf(idx, c, sig, p) = RuleOf(idx, c, sig, EndOfPeriod(p, c.period))
  <1> DEFINE q == EndOfPeriod(p, c.period)
  <1>1. c.period \in Nat \ {0}
    BY DEF Parameters
  <1>2. Branch[q] \subseteq Branch[p] /\ \A x \in Branch[p] : IsEnd(x, c.period) => x \in Branch[q]
    BY <1>1, EndOfPeriodIs
  <1> HIDE DEF q
  <1>3. EndsOf(c, p) = EndsOf(c, q)
    BY <1>2 DEF EndsOf
  <1> QED BY <1>3 DEF RuleOf, q

(* The indexes and the signals are the same on the branch of p. *)
SameOn(idx, jdx, sig, tig, p) ==
  \A b \in Branch[p] : idx[b] = jdx[b] /\ (b \in sig <=> b \in tig)

(* The rule looks at nothing else than the branch. *)
LEMMA RuleSame ==
  ASSUME NEW idx, NEW jdx, NEW c, NEW sig, NEW tig, NEW p \in Nodes,
         SameOn(idx, jdx, sig, tig, p)
  PROVE  RuleOf(idx, c, sig, p) = RuleOf(jdx, c, tig, p)
  <1> DEFINE E == EndsOf(c, p)
  <1>1. E \subseteq Branch[p]
    BY DEF EndsOf
  <1>2. \A e \in E : EnoughAt(c, sig, e) <=> EnoughAt(c, tig, e)
    <2>1. ASSUME NEW e \in E PROVE EnoughAt(c, sig, e) <=> EnoughAt(c, tig, e)
      <3>1. Branch[e] \subseteq Branch[p]
        BY <1>1, BranchDown
      <3>2. Branch[e] \cap sig = Branch[e] \cap tig
        BY <3>1 DEF SameOn
      <3>3. CountFromEnd(e, c.period, sig) = CountFromEnd(e, c.period, tig)
        BY <3>2 DEF CountFromEnd
      <3> QED BY <3>3 DEF EnoughAt
    <2> QED BY <2>1
  <1> HIDE DEF E
  <1>3. StartsIn(idx, c, E) = StartsIn(jdx, c, E)
    BY <1>1 DEF StartsIn, SameOn
  <1>4. VotingIn(idx, c, E) = VotingIn(jdx, c, E) /\ VotingIn(idx, c, E) \subseteq E
    BY <1>3 DEF VotingIn
  <1>5. \A e \in E : DecidesAt(idx, c, sig, e) <=> DecidesAt(jdx, c, tig, e)
    BY <1>1, <1>2 DEF DecidesAt, SameOn
  <1> DEFINE D == DecidingIn(idx, c, sig, E)
  <1>6. D = DecidingIn(jdx, c, tig, E) /\ D \subseteq E
    BY <1>4, <1>5 DEF DecidingIn
  <1> HIDE DEF D
  <1>7. D # {} => FirstIn(D) \in E
    <2>1. D \subseteq Branch[p]
      BY <1>1, <1>6
    <2> QED BY <1>6, <2>1, FirstIs
  <1>8. D # {} => (EnoughAt(c, sig, FirstIn(D)) <=> EnoughAt(c, tig, FirstIn(D)))
    BY <1>2, <1>7
  <1>9. RuleIn(idx, c, sig, E) = RuleIn(jdx, c, tig, E)
    <2>1. RuleIn(idx, c, sig, E) =
            CASE c.begin = ALWAYS_ACTIVE -> "ACTIVE"
              [] c.begin = NEVER_ACTIVE -> "FAILED"
              [] c.begin >= 0 /\ StartsIn(idx, c, E) = {} -> "DEFINED"
              [] c.begin >= 0 /\ StartsIn(idx, c, E) # {} /\ D = {} -> "STARTED"
              [] c.begin >= 0 /\ D # {} ->
                   IF ~EnoughAt(c, sig, FirstIn(D)) THEN "FAILED"
                   ELSE IF WaitedIn(c, E, FirstIn(D)) THEN "ACTIVE" ELSE "LOCKED_IN"
      BY DEF RuleIn, D
    <2>2. RuleIn(jdx, c, tig, E) =
            CASE c.begin = ALWAYS_ACTIVE -> "ACTIVE"
              [] c.begin = NEVER_ACTIVE -> "FAILED"
              [] c.begin >= 0 /\ StartsIn(idx, c, E) = {} -> "DEFINED"
              [] c.begin >= 0 /\ StartsIn(idx, c, E) # {} /\ D = {} -> "STARTED"
              [] c.begin >= 0 /\ D # {} ->
                   IF ~EnoughAt(c, tig, FirstIn(D)) THEN "FAILED"
                   ELSE IF WaitedIn(c, E, FirstIn(D)) THEN "ACTIVE" ELSE "LOCKED_IN"
      BY <1>3, <1>6 DEF RuleIn
    <2> QED BY <1>8, <2>1, <2>2
  <1> QED BY <1>9 DEF RuleOf, E

-----------------------------------------------------------------------------
(* The cached states are those of the rule, at ends of periods. *)
SoundCache(c, sig, known) ==
  /\ DOMAIN known \subseteq Indexed
  /\ \A e \in DOMAIN known : IsEnd(e, c.period) /\ known[e] = RuleOf(index, c, sig, e)

(* The walk stays in the index. *)
LEMMA WalkPrevious ==
  ASSUME NEW c \in Parameters, IndexInv, NEW e \in Indexed, ~BeforeStart(c, e)
  PROVE  /\ PreviousEnd(e, c.period) \in Indexed /\ PreviousEnd(e, c.period) < e
         /\ e \in DOMAIN index
  <1>1. e \in DOMAIN index /\ e \in Blocks /\ c.period \in Nat \ {0} /\ e \in Nat
    BY IndexedIs, NodesAre DEF BeforeStart, Parameters
  <1>2. PreviousEnd(e, c.period) \in Nodes /\ PreviousEnd(e, c.period) < e
    BY <1>1, PreviousEndIs
  <1>3. PreviousEnd(e, c.period) \in Nat
    BY <1>2, NodesAre
  <1>4. PreviousEnd(e, c.period) <= e
    BY <1>1, <1>2, <1>3
  <1> QED BY <1>1, <1>2, <1>4, IndexedIs

ForwardSolves(f, c, known, sig) ==
  f = [e \in Indexed |->
         CASE e \in DOMAIN known -> known[e]
           [] e \notin DOMAIN known /\ BeforeStart(c, e) -> "DEFINED"
           [] OTHER -> NextState(c, sig, f[PreviousEnd(e, c.period)], e)]

(* The states computed forward from the end of the walk. *)
LEMMA ForwardIs ==
  ASSUME NEW c \in Parameters, NEW sig, NEW known, IndexInv, c.begin >= 0,
         SoundCache(c, sig, known)
  PROVE  LET f == CHOOSE g : ForwardSolves(g, c, known, sig)
         IN  /\ ForwardSolves(f, c, known, sig)
             /\ \A p : StateOf(c, known, sig, p) = f[EndOfPeriod(p, c.period)]
  <1> DEFINE Base == {e \in Indexed : e \in DOMAIN known \/ BeforeStart(c, e)}
             base == [e \in Base |-> IF e \in DOMAIN known THEN known[e] ELSE "DEFINED"]
             prev == [e \in Indexed |-> PreviousEnd(e, c.period)]
             H == [x \in Indexed \X States |-> NextState(c, sig, x[2], x[1])]
  <1>1. WellFounded(Indexed, Base, States, base, prev, H)
    <2>1. Indexed \in SUBSET (0..Len(Parent)) /\ Base \in SUBSET Indexed /\ States # {}
      BY IndexedIs, NodesAre DEF States
    <2>2. base \in [Base -> States]
      <3>1. ASSUME NEW e \in DOMAIN known PROVE known[e] \in States
        <4>1. known[e] = RuleOf(index, c, sig, e)
          BY DEF SoundCache
        <4> QED BY <4>1, RuleType DEF RuleOf
      <3>2. "DEFINED" \in States
        BY DEF States
      <3> QED BY <3>1, <3>2
    <2>3. H \in [Indexed \X States -> States]
      <3>1. ASSUME NEW e \in Indexed, NEW s \in States PROVE NextState(c, sig, s, e) \in States
        BY DEF NextState, States
      <3> QED BY <3>1
    <2>4. \A e \in Indexed \ Base : prev[e] \in Indexed /\ prev[e] < e
      BY WalkPrevious
    <2> HIDE DEF Base, base, prev, H
    <2> QED BY <2>1, <2>2, <2>3, <2>4 DEF WellFounded
  <1>2. PICK f \in [Indexed -> States] :
          \A e \in Indexed : f[e] = IF e \in Base THEN base[e] ELSE H[<<e, f[prev[e]]>>]
    <2> HIDE DEF Base, base, prev, H
    <2> QED BY <1>1, Recursion
  <1>3. \A e \in Indexed :
          f[e] = CASE e \in DOMAIN known -> known[e]
                   [] e \notin DOMAIN known /\ BeforeStart(c, e) -> "DEFINED"
                   [] OTHER -> NextState(c, sig, f[PreviousEnd(e, c.period)], e)
    <2>1. ASSUME NEW e \in Indexed, e \notin Base
          PROVE  f[e] = NextState(c, sig, f[PreviousEnd(e, c.period)], e)
      <3>1. PreviousEnd(e, c.period) \in Indexed
        BY <2>1, WalkPrevious
      <3>2. <<e, f[PreviousEnd(e, c.period)]>> \in Indexed \X States
        BY <1>2, <3>1
      <3> QED BY <1>2, <2>1, <3>2
    <2>2. ASSUME NEW e \in Indexed, e \in DOMAIN known PROVE f[e] = known[e]
      BY <1>2, <2>2
    <2>3. ASSUME NEW e \in Indexed, e \notin DOMAIN known, BeforeStart(c, e) PROVE f[e] = "DEFINED"
      BY <1>2, <2>3
    <2> QED BY <2>1, <2>2, <2>3
  <1>4. f = [e \in Indexed |-> f[e]]
    OBVIOUS
  <1>5. ForwardSolves(f, c, known, sig)
    <2> HIDE DEF Base, base, prev, H
    <2> QED BY <1>3, <1>4 DEF ForwardSolves
  <1>6. \A p : StateOf(c, known, sig, p)
                 = (CHOOSE g : ForwardSolves(g, c, known, sig))[EndOfPeriod(p, c.period)]
    BY DEF StateOf, ForwardSolves
  <1> QED BY <1>5, <1>6

(* GetStateFor computes what the rule says. *)
LEMMA StateIsRule ==
  ASSUME NEW c \in Parameters, NEW sig, NEW known, IndexInv, c.begin >= 0,
         SoundCache(c, sig, known), NEW p \in Indexed
  PROVE  StateOf(c, known, sig, p) = RuleOf(index, c, sig, p)
  <1> DEFINE f == CHOOSE g : ForwardSolves(g, c, known, sig)
             q == EndOfPeriod(p, c.period)
  <1>1. ForwardSolves(f, c, known, sig) /\ StateOf(c, known, sig, p) = f[q]
    BY ForwardIs
  <1> HIDE DEF f
  <1>2. \A e \in Indexed :
          f[e] = CASE e \in DOMAIN known -> known[e]
                   [] e \notin DOMAIN known /\ BeforeStart(c, e) -> "DEFINED"
                   [] OTHER -> NextState(c, sig, f[PreviousEnd(e, c.period)], e)
    BY <1>1 DEF ForwardSolves
  <1> DEFINE S == {e \in Nodes : e \in Indexed /\ IsEnd(e, c.period)
                                   => f[e] = RuleOf(index, c, sig, e)}
  <1>3. ASSUME NEW e \in Indexed, e \in DOMAIN known PROVE f[e] = RuleOf(index, c, sig, e)
    BY <1>2, <1>3 DEF SoundCache
  <1>4. nullptr \in S
    <2>1. nullptr \in Nodes /\ nullptr \in Indexed /\ BeforeStart(c, nullptr)
      BY IndexedIs DEF Nodes, BeforeStart
    <2>2. CASE nullptr \in DOMAIN known
      BY <1>3, <2>1, <2>2
    <2>3. CASE nullptr \notin DOMAIN known
      <3>1. f[nullptr] = "DEFINED"
        BY <1>2, <2>1, <2>3
      <3> QED BY <2>1, <3>1, RuleNull
    <2> QED BY <2>2, <2>3
  <1>5. ASSUME NEW e \in Blocks, \A a \in Nodes : a < e => a \in S PROVE e \in S
    <2> SUFFICES ASSUME e \in Indexed, IsEnd(e, c.period), e \notin DOMAIN known
                 PROVE  f[e] = RuleOf(index, c, sig, e)
      BY <1>3 DEF Nodes
    <2>1. e \in DOMAIN index
      BY IndexedIs, NodesAre DEF nullptr
    <2>2. CASE BeforeStart(c, e)
      <3>1. f[e] = "DEFINED"
        BY <1>2, <2>2
      <3> QED BY <2>1, <2>2, <3>1, RuleStep
    <2>3. CASE ~BeforeStart(c, e)
      <3> DEFINE r == PreviousEnd(e, c.period)
      <3>1. r \in Indexed /\ r < e
        BY <2>3, WalkPrevious
      <3>2. c.period \in Nat \ {0}
        BY DEF Parameters
      <3>3. r \in Nodes /\ IsEnd(r, c.period)
        BY <3>2, PreviousEndIs
      <3>4. f[e] = NextState(c, sig, f[r], e)
        BY <1>2, <2>3
      <3>5. RuleOf(index, c, sig, e) = NextState(c, sig, RuleOf(index, c, sig, r), e)
        BY <2>1, <2>3, RuleStep
      <3> HIDE DEF r
      <3>6. f[r] = RuleOf(index, c, sig, r)
        BY <1>5, <3>1, <3>3
      <3> QED BY <3>4, <3>5, <3>6
    <2> QED BY <2>2, <2>3
  <1> HIDE DEF S
  <1>6. \A e \in Nodes : e \in S
    BY <1>4, <1>5, TreeInduction
  <1>7. p \in Nodes /\ c.period \in Nat \ {0}
    BY IndexedIs DEF Parameters
  <1>8. q \in Nodes /\ q <= p /\ IsEnd(q, c.period)
    BY <1>7, EndOfPeriodIs
  <1>9. q \in Indexed
    BY <1>8, IndexedIs
  <1>10. RuleOf(index, c, sig, p) = RuleOf(index, c, sig, q)
    BY <1>7, RuleEnd
  <1> HIDE DEF q
  <1>11. f[q] = RuleOf(index, c, sig, q)
    BY <1>6, <1>8, <1>9 DEF S
  <1> QED BY <1>1, <1>10, <1>11

(* ... and so does the function with its tests for the special times. *)
LEMMA GetStateIsRule ==
  ASSUME NEW c \in Parameters, NEW sig, NEW known, IndexInv,
         SoundCache(c, sig, known), NEW p \in Indexed
  PROVE  GetStateFor(c, known, sig, p) = RuleOf(index, c, sig, p)
  <1>1. CASE c.begin = ALWAYS_ACTIVE
    BY <1>1 DEF GetStateFor, RuleOf, RuleIn, ALWAYS_ACTIVE, NEVER_ACTIVE
  <1>2. CASE c.begin = NEVER_ACTIVE
    BY <1>2 DEF GetStateFor, RuleOf, RuleIn, ALWAYS_ACTIVE, NEVER_ACTIVE
  <1>3. CASE c.begin >= 0
    <2>1. c.begin # ALWAYS_ACTIVE /\ c.begin # NEVER_ACTIVE
      BY <1>3 DEF ALWAYS_ACTIVE, NEVER_ACTIVE
    <2> QED BY <1>3, <2>1, StateIsRule DEF GetStateFor
  <1> QED BY <1>1, <1>2, <1>3 DEF Parameters

BackSolves(f, c, known) ==
  f = [e \in Indexed |-> IF e \in DOMAIN known \/ BeforeStart(c, e) THEN {e}
                         ELSE {e} \cup f[PreviousEnd(e, c.period)]]

(* The walk goes over ends of periods. *)
LEMMA WalkedIs ==
  ASSUME NEW c \in Parameters, NEW known, IndexInv, NEW p \in Indexed
  PROVE  Walked(c, known, p) \subseteq {e \in Indexed : IsEnd(e, c.period)}
  <1> DEFINE Base == {e \in Indexed : e \in DOMAIN known \/ BeforeStart(c, e)}
             V == SUBSET Indexed
             base == [e \in Base |-> {e}]
             prev == [e \in Indexed |-> PreviousEnd(e, c.period)]
             H == [x \in Indexed \X V |-> {x[1]} \cup x[2]]
             f == CHOOSE g : BackSolves(g, c, known)
             q == EndOfPeriod(p, c.period)
  <1>1. WellFounded(Indexed, Base, V, base, prev, H)
    <2>1. Indexed \in SUBSET (0..Len(Parent)) /\ Base \in SUBSET Indexed /\ V # {}
      BY IndexedIs, NodesAre
    <2>2. base \in [Base -> V]
      OBVIOUS
    <2>3. H \in [Indexed \X V -> V]
      OBVIOUS
    <2>4. \A e \in Indexed \ Base : prev[e] \in Indexed /\ prev[e] < e
      BY WalkPrevious
    <2> HIDE DEF Base, V, base, prev, H
    <2> QED BY <2>1, <2>2, <2>3, <2>4 DEF WellFounded
  <1>2. PICK g \in [Indexed -> V] :
          \A e \in Indexed : g[e] = IF e \in Base THEN base[e] ELSE H[<<e, g[prev[e]]>>]
    <2> HIDE DEF Base, V, base, prev, H
    <2> QED BY <1>1, Recursion
  <1>3. \A e \in Indexed :
          g[e] = IF e \in DOMAIN known \/ BeforeStart(c, e) THEN {e}
                 ELSE {e} \cup g[PreviousEnd(e, c.period)]
    <2>1. ASSUME NEW e \in Indexed, e \notin Base
          PROVE  g[e] = {e} \cup g[PreviousEnd(e, c.period)]
      <3>1. PreviousEnd(e, c.period) \in Indexed
        BY <2>1, WalkPrevious
      <3>2. g[PreviousEnd(e, c.period)] \in V
        BY <1>2, <3>1
      <3> HIDE DEF V
      <3>3. H[<<e, g[PreviousEnd(e, c.period)]>>] = {e} \cup g[PreviousEnd(e, c.period)]
        BY <3>2
      <3> HIDE DEF H
      <3> QED BY <1>2, <2>1, <3>3
    <2>2. ASSUME NEW e \in Base PROVE g[e] = {e}
      BY <1>2
    <2> QED BY <2>1, <2>2
  <1>4. BackSolves(g, c, known)
    <2>1. g = [e \in Indexed |-> g[e]]
      OBVIOUS
    <2> HIDE DEF Base, V, base, prev, H
    <2> QED BY <1>3, <2>1 DEF BackSolves
  <1>5. BackSolves(f, c, known)
    BY <1>4
  <1>6. Walked(c, known, p) = f[q]
    BY DEF Walked, BackSolves
  <1> HIDE DEF f
  <1>7. \A e \in Indexed :
          f[e] = IF e \in DOMAIN known \/ BeforeStart(c, e) THEN {e}
                 ELSE {e} \cup f[PreviousEnd(e, c.period)]
    BY <1>5 DEF BackSolves
  <1> DEFINE W == {e \in Indexed : IsEnd(e, c.period)}
             S == {e \in Nodes : e \in W => f[e] \subseteq W}
  <1>8. nullptr \in S
    <2>1. nullptr \in Nodes /\ nullptr \in Indexed /\ BeforeStart(c, nullptr)
      BY IndexedIs DEF Nodes, BeforeStart
    <2> QED BY <1>7, <2>1
  <1>9. ASSUME NEW e \in Blocks, \A a \in Nodes : a < e => a \in S PROVE e \in S
    <2> SUFFICES ASSUME e \in W PROVE f[e] \subseteq W
      BY DEF Nodes
    <2>1. CASE e \in DOMAIN known \/ BeforeStart(c, e)
      BY <1>7, <2>1
    <2>2. CASE ~(e \in DOMAIN known \/ BeforeStart(c, e))
      <3> DEFINE r == PreviousEnd(e, c.period)
      <3>1. r \in Indexed /\ r < e
        BY <2>2, WalkPrevious
      <3>2. c.period \in Nat \ {0}
        BY DEF Parameters
      <3>3. r \in Nodes /\ IsEnd(r, c.period)
        BY <3>2, PreviousEndIs
      <3>4. f[e] = {e} \cup f[r]
        BY <1>7, <2>2
      <3> HIDE DEF r
      <3>5. f[r] \subseteq W
        BY <1>9, <3>1, <3>3
      <3> QED BY <3>4, <3>5
    <2> QED BY <2>1, <2>2
  <1> HIDE DEF S
  <1>10. \A e \in Nodes : e \in S
    BY <1>8, <1>9, TreeInduction
  <1>11. p \in Nodes /\ c.period \in Nat \ {0}
    BY IndexedIs DEF Parameters
  <1>12. q \in Nodes /\ q <= p /\ IsEnd(q, c.period)
    BY <1>11, EndOfPeriodIs
  <1>13. q \in Indexed
    BY <1>12, IndexedIs
  <1> HIDE DEF q
  <1>14. f[q] \subseteq W
    BY <1>10, <1>12, <1>13 DEF S
  <1> QED BY <1>6, <1>14

(* Computed states may be added to a cache. *)
LEMMA CacheGrows ==
  ASSUME NEW c \in Parameters, NEW sig, NEW known, IndexInv, c.begin >= 0,
         SoundCache(c, sig, known),
         NEW F, F \subseteq {e \in Indexed : IsEnd(e, c.period)}
  PROVE  SoundCache(c, sig, Cached(c, known, sig, F))
  <1> DEFINE g == Cached(c, known, sig, F)
  <1>1. /\ DOMAIN g = F \cup DOMAIN known
        /\ \A e \in F : g[e] = StateOf(c, known, sig, e)
        /\ \A e \in DOMAIN known \ F : g[e] = known[e]
    BY DEF Cached
  <1>2. \A e \in F : StateOf(c, known, sig, e) = RuleOf(index, c, sig, e)
    BY StateIsRule
  <1> HIDE DEF g
  <1>3. SoundCache(c, sig, g)
    BY <1>1, <1>2 DEF SoundCache
  <1> QED BY <1>3 DEF g

(* What GetStateFor leaves in the cache. *)
LEMMA CacheAfterSound ==
  ASSUME NEW c \in Parameters, NEW sig, NEW known, IndexInv,
         SoundCache(c, sig, known), NEW p \in Indexed
  PROVE  SoundCache(c, sig, CacheAfter(c, known, sig, p))
  <1>1. CASE c.begin \in {ALWAYS_ACTIVE, NEVER_ACTIVE}
    BY <1>1 DEF CacheAfter
  <1>2. CASE c.begin \notin {ALWAYS_ACTIVE, NEVER_ACTIVE}
    <2>1. c.begin >= 0
      BY <1>2 DEF Parameters
    <2>2. Walked(c, known, p) \subseteq {e \in Indexed : IsEnd(e, c.period)}
      BY WalkedIs
    <2>3. SoundCache(c, sig, Cached(c, known, sig, Walked(c, known, p)))
      BY <2>1, <2>2, CacheGrows
    <2> QED BY <1>2, <2>3 DEF CacheAfter
  <1> QED BY <1>1, <1>2

-----------------------------------------------------------------------------
(* The signals that the deployment does not explain. *)
Unexplained == {b \in WarnCandidates :
                  RuleOf(index, dep, Signalling, Parent[b]) \notin {"STARTED", "LOCKED_IN"}}

(* Both caches hold what the rule says, of the branch of each block. *)
VBInv ==
  /\ dep \in Deployments
  /\ IndexInv
  /\ SoundCache(dep, Signalling, cache)
  /\ SoundCache(Warning, Unexplained, warn_cache)

(* The candidates are indexed, and the deployment's parameters are some. *)
LEMMA CandidatesAre ==
  ASSUME VBInv
  PROVE  /\ dep \in Parameters /\ Warning \in Parameters
         /\ WarnCandidates \subseteq DOMAIN index
         /\ \A b \in WarnCandidates : Parent[b] \in Indexed
  <1>1. WarnCandidates \subseteq DOMAIN index
    BY DEF WarnCandidates, Signalling
  <1>2. \A b \in DOMAIN index : Parent[b] \in Indexed
    BY IndexedIs DEF VBInv
  <1> QED BY <1>1, <1>2, VersionBitsAssumption DEF VBInv

(* The deployment's state is the one of the rule. *)
LEMMA StateIs ==
  ASSUME VBInv
  PROVE  \A p \in Indexed : State(p) = RuleOf(index, dep, Signalling, p)
  BY CandidatesAre, GetStateIsRule DEF VBInv, State

(* The warning's Condition asks the cache, and gets what the rule says. *)
LEMMA WarnSignallingIs ==
  ASSUME VBInv
  PROVE  WarnSignalling = Unexplained
  <1>1. \A b \in WarnCandidates : State(Parent[b]) = RuleOf(index, dep, Signalling, Parent[b])
    BY CandidatesAre, StateIs
  <1> QED BY <1>1 DEF WarnSignalling, Unexplained, ComputeBlockVersion

(* Initially *)
LEMMA VBInit == Init => VBInv
  <1> SUFFICES ASSUME Init PROVE VBInv
    OBVIOUS
  <1>1. DOMAIN index = {} /\ DOMAIN cache = {} /\ DOMAIN warn_cache = {}
    BY DEF Init
  <1>2. 0 \in Nat /\ 0 <= Len(Parent) /\ DOMAIN index = 1..0
    BY <1>1, NodesAre
  <1>3. IndexInv
    BY <1>1, <1>2 DEF IndexInv
  <1>4. SoundCache(dep, Signalling, cache) /\ SoundCache(Warning, Unexplained, warn_cache)
    BY <1>1 DEF SoundCache
  <1> QED BY <1>3, <1>4 DEF VBInv, Init

(* A step that leaves the index alone. *)
LEMMA CacheStep ==
  ASSUME VBInv, dep' = dep, index' = index,
         SoundCache(dep, Signalling, cache'), SoundCache(Warning, Unexplained, warn_cache')
  PROVE  VBInv'
  <1>1. Signalling' = Signalling /\ Indexed' = Indexed
    BY DEF Signalling, Indexed
  <1>2. Unexplained' = Unexplained
    BY <1>1 DEF Unexplained, WarnCandidates
  <1>3. IndexInv'
    BY DEF VBInv, IndexInv
  <1>4. SoundCache(dep, Signalling, cache)'
    BY <1>1 DEF SoundCache
  <1>5. SoundCache(Warning, Unexplained, warn_cache)'
    BY <1>1, <1>2 DEF SoundCache
  <1> QED BY <1>3, <1>4, <1>5 DEF VBInv

(* IsActiveAfter, ComputeBlockVersion and GBTStatus *)
LEMMA QueryStep ==
  ASSUME VBInv, NEW p \in Indexed, Query(p)
  PROVE  VBInv'
  <1>1. SoundCache(dep, Signalling, CacheAfter(dep, cache, Signalling, p))
    BY CandidatesAre, CacheAfterSound DEF VBInv
  <1> QED BY <1>1, CacheStep DEF Query, VBInv

(* Info *)
LEMMA InfoStep ==
  ASSUME VBInv, NEW b \in DOMAIN index, Info(b)
  PROVE  VBInv'
  <1>1. b \in Indexed /\ Parent[b] \in Indexed /\ dep \in Parameters /\ IndexInv
    BY CandidatesAre, IndexedIs DEF VBInv, Indexed
  <1> DEFINE first == CacheAfter(dep, cache, Signalling, Parent[b])
  <1>2. SoundCache(dep, Signalling, first)
    BY <1>1, CacheAfterSound DEF VBInv
  <1> HIDE DEF first
  <1>3. SoundCache(dep, Signalling, CacheAfter(dep, first, Signalling, b))
    BY <1>1, <1>2, CacheAfterSound
  <1> QED BY <1>3, CacheStep DEF Info, VBInv, first

(* CheckUnknownActivations *)
LEMMA WarnStep ==
  ASSUME VBInv, NEW b \in DOMAIN index, CheckUnknownActivations(b)
  PROVE  VBInv'
  <1>1. b \in Indexed /\ dep \in Parameters /\ Warning \in Parameters /\ IndexInv
    BY CandidatesAre DEF VBInv, Indexed
  <1>2. WarnSignalling = Unexplained
    BY WarnSignallingIs
  <1>3. SoundCache(Warning, Unexplained, CacheAfter(Warning, warn_cache, Unexplained, b))
    BY <1>1, CacheAfterSound DEF VBInv
  <1> DEFINE Asked == {Parent[a] : a \in WarnCounted(b, WarnSignalling)}
             Filled == UNION {Walked(dep, cache, p) : p \in Asked} \ DOMAIN cache
  <1>4. Asked \subseteq Indexed
    BY CandidatesAre DEF WarnCounted
  <1>5. Filled \subseteq {e \in Indexed : IsEnd(e, dep.period)}
    <2>1. \A p \in Asked : Walked(dep, cache, p) \subseteq {e \in Indexed : IsEnd(e, dep.period)}
      BY <1>1, <1>4, WalkedIs
    <2> QED BY <2>1
  <1>6. /\ warn_cache' = CacheAfter(Warning, warn_cache, WarnSignalling, b)
        /\ cache' = IF dep.begin < 0 THEN cache ELSE Cached(dep, cache, Signalling, Filled)
        /\ UNCHANGED <<dep, index>>
    BY DEF CheckUnknownActivations
  <1> HIDE DEF Filled
  <1>7. SoundCache(dep, Signalling, cache')
    <2>1. CASE dep.begin < 0
      BY <1>6, <2>1 DEF VBInv
    <2>2. CASE ~(dep.begin < 0)
      <3>1. dep.begin >= 0
        BY <1>1, <2>2 DEF Parameters, ALWAYS_ACTIVE, NEVER_ACTIVE
      <3>2. SoundCache(dep, Signalling, Cached(dep, cache, Signalling, Filled))
        BY <1>1, <1>5, <3>1, CacheGrows DEF VBInv
      <3> QED BY <1>6, <2>2, <3>2
    <2> QED BY <2>1, <2>2
  <1> QED BY <1>2, <1>3, <1>6, <1>7, CacheStep

(* A header that enters the index changes no state on the branches before. *)
LEMMA GrowStep ==
  ASSUME VBInv, IndexInv', UNCHANGED <<dep, cache, warn_cache>>,
         DOMAIN index \subseteq DOMAIN index', \A x \in DOMAIN index : index'[x] = index[x]
  PROVE  VBInv'
  <1>1. IndexInv /\ Indexed \subseteq Indexed' /\ Indexed \subseteq Nodes
    BY IndexedIs DEF VBInv, Indexed
  <1>2. \A x \in DOMAIN index : x \in Signalling' <=> x \in Signalling
    BY DEF Signalling
  <1>3. \A p \in Indexed : Branch[p] \subseteq DOMAIN index
    BY <1>1, IndexedIs
  <1>4. ASSUME NEW c, NEW p \in Indexed
        PROVE  RuleOf(index', c, Signalling', p) = RuleOf(index, c, Signalling, p)
    <2>1. SameOn(index', index, Signalling', Signalling, p)
      BY <1>2, <1>3 DEF SameOn
    <2> QED BY <1>1, <2>1, RuleSame
  <1>5. \A x \in DOMAIN index : x \in WarnCandidates' <=> x \in WarnCandidates
    BY <1>2 DEF WarnCandidates
  <1>6. \A x \in DOMAIN index : x \in Unexplained' <=> x \in Unexplained
    <2>1. ASSUME NEW x \in DOMAIN index PROVE x \in Unexplained' <=> x \in Unexplained
      <3>1. Parent[x] \in Indexed
        BY <1>1, IndexedIs
      <3>2. RuleOf(index', dep', Signalling', Parent[x]) = RuleOf(index, dep, Signalling, Parent[x])
        BY <1>4, <3>1
      <3> QED BY <1>5, <3>2 DEF Unexplained
    <2> QED BY <2>1
  <1>7. ASSUME NEW c, NEW p \in Indexed
        PROVE  RuleOf(index', c, Unexplained', p) = RuleOf(index, c, Unexplained, p)
    <2>1. SameOn(index', index, Unexplained', Unexplained, p)
      BY <1>3, <1>6 DEF SameOn
    <2> QED BY <1>1, <2>1, RuleSame
  <1>8. SoundCache(dep, Signalling, cache)'
    <2>1. /\ DOMAIN cache \subseteq Indexed
          /\ \A e \in DOMAIN cache : /\ IsEnd(e, dep.period)
                                     /\ cache[e] = RuleOf(index, dep, Signalling, e)
      BY DEF VBInv, SoundCache
    <2>2. \A e \in DOMAIN cache : cache[e] = RuleOf(index', dep, Signalling', e)
      BY <1>4, <2>1
    <2> QED BY <1>1, <2>1, <2>2 DEF SoundCache
  <1>9. SoundCache(Warning, Unexplained, warn_cache)'
    <2>1. /\ DOMAIN warn_cache \subseteq Indexed
          /\ \A e \in DOMAIN warn_cache : /\ IsEnd(e, Warning.period)
                                          /\ warn_cache[e] = RuleOf(index, Warning, Unexplained, e)
      BY DEF VBInv, SoundCache
    <2>2. \A e \in DOMAIN warn_cache : warn_cache[e] = RuleOf(index', Warning, Unexplained', e)
      BY <1>7, <2>1
    <2> QED BY <1>1, <2>1, <2>2 DEF SoundCache
  <1> QED BY <1>8, <1>9 DEF VBInv

(* AcceptBlockHeader *)
LEMMA HeaderStep ==
  ASSUME VBInv, NEW b \in Blocks, NEW header \in Headers[b], AcceptBlockHeader(b, header)
  PROVE  VBInv'
  <1> DEFINE mtp == header.later + (IF Parent[b] = nullptr THEN 0 ELSE GetMedianTimePast(Parent[b]))
  <1>1. PICK n \in Nat : n <= Len(Parent) /\ DOMAIN index = 1..n
    BY DEF VBInv, IndexInv
  <1>2. Cardinality(DOMAIN index) = n
    BY <1>1, FS_Interval
  <1>3. /\ b = Cardinality(DOMAIN index) + 1
        /\ AddToBlockIndex(b, mtp, header.signal)
        /\ UNCHANGED <<dep, cache, warn_cache>>
    BY DEF AcceptBlockHeader
  <1>4. b = n + 1 /\ b \notin DOMAIN index
    BY <1>1, <1>2, <1>3
  <1>5. /\ IndexInv /\ b \in Nodes /\ Parent[b] \in Nodes /\ Parent[b] < b
        /\ Branch[b] = {b} \cup Branch[Parent[b]]
    BY NodesAre, Branches DEF VBInv, Nodes
  <1>6. Parent[b] \in Indexed
    <2>1. Parent[b] \in 0..n
      BY <1>1, <1>4, <1>5, NodesAre
    <2> QED BY <1>1, <2>1 DEF Indexed, nullptr
  <1>7. header.later \in Nat /\ header.signal \in BOOLEAN
    BY VersionBitsAssumption
  <1>8. Parent[b] # nullptr =>
          /\ Parent[b] \in DOMAIN index /\ index[Parent[b]].mtp \in Nat
          /\ mtp = header.later + index[Parent[b]].mtp
    BY <1>5, <1>6, IndexedIs DEF GetMedianTimePast, Indexed
  <1>9. mtp \in Nat
    BY <1>3, <1>7, <1>8, VersionBitsAssumption
  <1>10. Parent[b] # nullptr => index[Parent[b]].mtp <= mtp
    BY <1>7, <1>8
  <1> HIDE DEF mtp
  <1>11. /\ DOMAIN index' = DOMAIN index \cup {b}
         /\ index'[b] = [mtp |-> mtp, signal |-> header.signal]
         /\ \A x \in DOMAIN index : index'[x] = index[x]
    BY <1>3, <1>4 DEF AddToBlockIndex
  <1>12. DOMAIN index' = 1..(n + 1) /\ n + 1 \in Nat /\ n + 1 <= Len(Parent)
    BY <1>1, <1>4, <1>11, NodesAre
  <1>13. ASSUME NEW x \in DOMAIN index' PROVE index'[x] \in [mtp : Nat, signal : BOOLEAN]
    BY <1>5, <1>7, <1>9, <1>11 DEF IndexInv
  <1>14. ASSUME NEW x \in DOMAIN index', NEW a \in Branch[x]
         PROVE  index'[a].mtp <= index'[x].mtp
    <2>1. CASE x \in DOMAIN index
      <3>1. a \in DOMAIN index /\ index[a].mtp <= index[x].mtp
        BY <1>5, <2>1, IndexedIs DEF IndexInv, Indexed
      <3> QED BY <1>11, <2>1, <3>1
    <2>2. CASE x = b /\ a = b
      BY <1>9, <1>11, <2>2
    <2>3. CASE x = b /\ a \in Branch[Parent[b]]
      <3>1. Parent[b] # nullptr
        BY <2>3, Branches
      <3>2. a \in DOMAIN index /\ index[a].mtp <= index[Parent[b]].mtp
        BY <1>5, <1>6, <1>8, <2>3, <3>1, IndexedIs DEF IndexInv
      <3>3. index[a].mtp \in Nat /\ index[Parent[b]].mtp \in Nat
        BY <1>5, <1>8, <3>1, <3>2, IndexedIs
      <3>4. index[a].mtp <= mtp
        BY <1>9, <1>10, <3>1, <3>2, <3>3
      <3> QED BY <1>11, <2>3, <3>2, <3>4
    <2> QED BY <1>5, <1>11, <2>1, <2>2, <2>3
  <1>15. IndexInv'
    BY <1>12, <1>13, <1>14 DEF IndexInv
  <1> QED BY <1>3, <1>11, <1>15, GrowStep

(* No step leaves the invariant. *)
LEMMA VBNext == VBInv /\ [Next]_vars => VBInv'
  <1> SUFFICES ASSUME VBInv, [Next]_vars PROVE VBInv'
    OBVIOUS
  <1>1. CASE \E b \in Blocks : \E header \in Headers[b] : AcceptBlockHeader(b, header)
    BY <1>1, HeaderStep
  <1>2. CASE \E p \in Indexed : Query(p)
    BY <1>2, QueryStep
  <1>3. CASE \E b \in DOMAIN index : Info(b)
    BY <1>3, InfoStep
  <1>4. CASE \E b \in DOMAIN index : CheckUnknownActivations(b)
    BY <1>4, WarnStep
  <1>5. CASE UNCHANGED vars
    BY <1>5, CacheStep DEF vars, VBInv
  <1> QED BY <1>1, <1>2, <1>3, <1>4, <1>5 DEF Next

(* Both caches hold, in every reachable state, what the rule says of the   *)
(* branch of each cached block: however the tree of headers grows and in   *)
(* whatever order the queries come.                                        *)
THEOREM VBInvariant == Spec => []VBInv
  <1> QED BY VBInit, VBNext, PTL DEF Spec

(* The types of the index and of the caches, which hold only ThresholdState *)
(* values, and only blocks that are indexed and end a period.               *)
THEOREM VBTypeCorrect == Spec => []TypeOK
  <1>1. VBInv => TypeOK
    <2> SUFFICES ASSUME VBInv PROVE TypeOK
      OBVIOUS
    <2>1. IndexInv /\ dep \in Parameters /\ Warning \in Parameters
      BY CandidatesAre DEF VBInv
    <2>2. DOMAIN index \subseteq Blocks
      BY <2>1, IndexedIs
    <2>3. IsCache(cache, dep.period)
      BY <2>1, RuleType DEF VBInv, SoundCache, RuleOf, IsCache, IsEnd
    <2>4. IsCache(warn_cache, Warning.period)
      BY <2>1, RuleType DEF VBInv, SoundCache, RuleOf, IsCache, IsEnd
    <2> QED BY <2>2, <2>3, <2>4 DEF TypeOK, VBInv, IndexInv
  <1> QED BY <1>1, VBInvariant, PTL

(* GetStateFor answers what the rule of BIP 9 says of the block's own      *)
(* branch, whatever the deployment, the period and the threshold.          *)
THEOREM VBStateByRule == Spec => []StateByRule
  <1>1. VBInv => StateByRule
    BY StateIs, RuleIs DEF StateByRule
  <1> QED BY <1>1, VBInvariant, PTL

(* The warning of CheckUnknownActivations is the rule's, of the signals    *)
(* that the deployment does not explain by the rule.                       *)
THEOREM VBWarningByRule == Spec => []WarningByRule
  <1>1. VBInv => WarningByRule
    <2> SUFFICES ASSUME VBInv PROVE WarningByRule
      OBVIOUS
    <2>1. Warning \in Parameters /\ IndexInv /\ SoundCache(Warning, Unexplained, warn_cache)
      BY CandidatesAre DEF VBInv
    <2>2. \A p \in Indexed : GetStateFor(Warning, warn_cache, Unexplained, p)
                               = RuleOf(index, Warning, Unexplained, p)
      BY <2>1, GetStateIsRule
    <2>3. {b \in WarnCandidates :
             RuleState(dep, Signalling, Parent[b]) \notin {"STARTED", "LOCKED_IN"}} = Unexplained
      BY RuleIs DEF Unexplained
    <2>4. \A p : RuleState(Warning, Unexplained, p) = RuleOf(index, Warning, Unexplained, p)
      BY RuleIs
    <2> QED BY <2>2, <2>3, <2>4, WarnSignallingIs DEF WarningByRule
  <1> QED BY <1>1, VBInvariant, PTL

-----------------------------------------------------------------------------
(* What Info reports *)

(* The blocks of the period that e ends come after the previous end. *)
LEMMA PeriodStart ==
  ASSUME NEW e \in Blocks, NEW p \in Nat \ {0}, NEW a, IsEnd(e, p),
         a = nullptr \/ a \in Branch[e],
         nHeight[e] - p <= nHeight[a], nHeight[a] < nHeight[e]
  PROVE  EndOfPeriod(a, p) = PreviousEnd(e, p)
  <1> DEFINE q == PreviousEnd(e, p)
             x == EndOfPeriod(a, p)
  <1>1. e \in Nodes /\ a \in Nodes
    BY Branches DEF Nodes
  <1>2. /\ q \in Nodes /\ IsEnd(q, p) /\ nHeight[q] = nHeight[e] - p
        /\ q # nullptr => q \in Branch[e]
        /\ \A y \in Branch[e] : IsEnd(y, p) => y = e \/ y \in Branch[q]
    BY PreviousEndIs
  <1>3. /\ x \in Nodes /\ x <= a /\ IsEnd(x, p)
        /\ x # nullptr => x \in Branch[a]
        /\ \A y \in Branch[a] : IsEnd(y, p) => y \in Branch[x]
    BY <1>1, EndOfPeriodIs
  <1> HIDE DEF q, x
  <1>4. /\ nHeight[e] \in Int /\ nHeight[a] \in Int /\ nHeight[nullptr] = -1
        /\ \A y \in Blocks : nHeight[y] \in Nat
    BY <1>1, Heights
  <1>5. Branch[a] \subseteq Branch[e] /\ \A y \in Branch[a] : nHeight[y] <= nHeight[a]
    <2>1. CASE a = nullptr
      BY <2>1, Branches
    <2>2. CASE a \in Branch[e]
      BY <1>1, <2>2, BranchDown
    <2> QED BY <2>1, <2>2
  <1>6. x # nullptr => x \in Branch[q]
    <2>1. ASSUME x # nullptr PROVE x \in Branch[q]
      <3>1. x \in Branch[a] /\ x \in Branch[e] /\ nHeight[x] <= nHeight[a] /\ x \in Blocks
        BY <1>1, <1>3, <1>5, <2>1, Branches
      <3>2. x # e
        BY <1>4, <3>1
      <3> QED BY <1>2, <1>3, <3>1, <3>2
    <2> QED BY <2>1
  <1>7. CASE q = nullptr
    <2>1. Branch[q] = {}
      BY <1>7, Branches
    <2> QED BY <1>6, <1>7, <2>1 DEF q, x
  <1>8. CASE q # nullptr
    <2>1. q \in Branch[e] /\ q \in Blocks /\ nHeight[q] \in Nat
      BY <1>1, <1>2, <1>4, <1>8, Branches
    <2>2. a # nullptr
      BY <1>2, <1>4, <2>1
    <2>3. q \in Branch[a]
      BY <1>1, <1>2, <1>4, <2>1, <2>2, BranchOrder
    <2>4. q \in Branch[x]
      BY <1>2, <1>3, <2>3
    <2>5. x # nullptr
      BY <2>4, Branches
    <2>6. x <= q /\ q <= x /\ x \in Nat /\ q \in Nat
      BY <1>2, <1>3, <1>6, <2>4, <2>5, Branches, NodesAre
    <2> QED BY <2>6 DEF q, x
  <1> QED BY <1>7, <1>8

(* On a branch a period of k blocks more has at most k more signals. *)
LEMMA CountMore ==
  ASSUME NEW e \in Nodes, NEW b \in Branch[e], NEW k \in Int, NEW p \in Int, NEW sig,
         nHeight[e] - p = nHeight[b] - k
  PROVE  CountFromEnd(e, p, sig) <= CountFromEnd(b, k, sig) + (nHeight[e] - nHeight[b])
  <1> DEFINE A == {x \in Branch[e] \cap sig : nHeight[x] > nHeight[e] - p}
             B == {x \in Branch[b] \cap sig : nHeight[x] > nHeight[b] - k}
             C == {x \in Branch[e] : nHeight[x] > nHeight[b]}
             I == (nHeight[b] + 1)..nHeight[e]
  <1>1. /\ b \in Blocks /\ b \in Nodes /\ nHeight[b] \in Nat /\ nHeight[e] \in Int
        /\ nHeight[b] <= nHeight[e] /\ Branch[e] \subseteq Blocks
    BY Branches, Heights, BranchDown DEF Nodes
  <1>2. \A x \in Branch[e] : nHeight[x] \in Nat /\ nHeight[x] <= nHeight[e]
    BY <1>1, Heights, BranchDown
  <1>3. A \subseteq B \cup C
    <2>1. ASSUME NEW x \in A, x \notin C PROVE x \in B
      <3>1. x \in Branch[e] /\ nHeight[x] <= nHeight[b]
        BY <1>1, <1>2, <2>1
      <3>2. x \in Branch[b]
        BY <3>1, BranchOrder
      <3> QED BY <2>1, <3>2
    <2> QED BY <2>1
  <1>4. IsFiniteSet(Blocks)
    BY NodesAre, FS_Interval
  <1>5. IsFiniteSet(B) /\ IsFiniteSet(C)
    <2>1. B \subseteq Blocks /\ C \subseteq Blocks
      BY <1>1, Branches
    <2> QED BY <1>4, <2>1, FS_Subset
  <1>6. IsFiniteSet(I) /\ Cardinality(I) = nHeight[e] - nHeight[b]
    <2> DEFINE l == nHeight[b] + 1
               h == nHeight[e]
    <2>1. l \in Int /\ h \in Int /\ l <= h + 1 /\ h - nHeight[b] = h - l + 1
      BY <1>1
    <2>2. I = l..h
      OBVIOUS
    <2> HIDE DEF l, h, I
    <2>3. IsFiniteSet(l..h) /\ Cardinality(l..h) = IF l > h THEN 0 ELSE h - l + 1
      BY <2>1, FS_Interval
    <2>4. Cardinality(l..h) = h - l + 1
      <3>1. CASE l > h
        BY <2>1, <2>3, <3>1
      <3>2. CASE ~(l > h)
        BY <2>3, <3>2
      <3> QED BY <3>1, <3>2
    <2> QED BY <2>1, <2>2, <2>3, <2>4 DEF h
  <1>7. Cardinality(C) <= Cardinality(I)
    <2> DEFINE f == [x \in C |-> nHeight[x]]
    <2>1. f \in [C -> I]
      BY <1>1, <1>2
    <2>2. \A x, y \in C : f[x] = f[y] => x = y
      BY BranchUnique
    <2> HIDE DEF C, I, f
    <2>3. f \in Injection(C, I)
      BY <2>1, <2>2 DEF Injection, IsInjective
    <2> QED BY <1>6, <2>3, FS_Injection
  <1> HIDE DEF A, B, C, I
  <1>8. /\ IsFiniteSet(B \cup C)
        /\ Cardinality(B \cup C) = Cardinality(B) + Cardinality(C) - Cardinality(B \cap C)
    BY <1>5, FS_Union
  <1>9. Cardinality(A) <= Cardinality(B \cup C) /\ IsFiniteSet(A)
    BY <1>3, <1>8, FS_Subset
  <1>10. /\ Cardinality(A) \in Nat /\ Cardinality(B) \in Nat /\ Cardinality(C) \in Nat
         /\ Cardinality(B \cup C) \in Nat /\ Cardinality(B \cap C) \in Nat
    <2>1. IsFiniteSet(B \cap C)
      BY <1>5, FS_Subset
    <2> QED BY <1>5, <1>8, <1>9, <2>1, FS_CardinalityType
  <1>11. Cardinality(A) <= Cardinality(B) + (nHeight[e] - nHeight[b])
    BY <1>1, <1>6, <1>7, <1>8, <1>9, <1>10
  <1>12. CountFromEnd(e, p, sig) = Cardinality(A) /\ CountFromEnd(b, k, sig) = Cardinality(B)
    BY DEF CountFromEnd, A, B
  <1> QED BY <1>11, <1>12

(* A period voted on locks in exactly when it has enough signals. *)
LEMMA RuleVotes ==
  ASSUME NEW c \in Parameters, NEW sig, NEW e, IndexInv, c.begin >= 0,
         e \in DOMAIN index, IsEnd(e, c.period),
         RuleOf(index, c, sig, PreviousEnd(e, c.period)) = "STARTED"
  PROVE  RuleOf(index, c, sig, e) = "LOCKED_IN" <=> CountFromEnd(e, c.period, sig) >= c.threshold
  <1> DEFINE q == PreviousEnd(e, c.period)
             n == CountFromEnd(e, c.period, sig)
  <1>1. e \in Blocks /\ e \in Indexed /\ e \in Nodes /\ c.period \in Nat \ {0}
    BY IndexedIs DEF Indexed, Parameters, Nodes
  <1>2. q \in Nodes /\ IsEnd(q, c.period) /\ (q # nullptr => q \in Branch[e])
    BY <1>1, PreviousEndIs
  <1>3. q # nullptr
    BY RuleNull
  <1> HIDE DEF q
  <1>4. q \in DOMAIN index /\ index[q].mtp <= index[e].mtp
    BY <1>1, <1>2, <1>3, IndexedIs DEF IndexInv
  <1>5. ~BeforeStart(c, q)
    BY <1>2, <1>4, RuleStep DEF q
  <1>6. ~BeforeStart(c, e)
    <2>1. c.begin \in Int /\ index[q].mtp \in Nat /\ index[e].mtp \in Nat
      BY <1>4, IndexedIs DEF Parameters, ALWAYS_ACTIVE, NEVER_ACTIVE
    <2>2. e # nullptr
      BY <1>1, NodesAre DEF nullptr
    <2> QED BY <1>4, <1>5, <2>1, <2>2 DEF BeforeStart, GetMedianTimePast
  <1>7. RuleOf(index, c, sig, e) = NextState(c, sig, "STARTED", e)
    BY <1>6, RuleStep
  <1>8. n \in Nat /\ c.threshold \in Nat
    BY <1>1, CountType DEF Parameters
  <1>9. (n >= c.threshold) <=> ~(n < c.threshold)
    BY <1>8
  <1>10. CASE n >= c.threshold
    <2>1. NextState(c, sig, "STARTED", e) = "LOCKED_IN"
      BY <1>9, <1>10 DEF NextState
    <2> QED BY <1>7, <1>10, <2>1
  <1>11. CASE ~(n >= c.threshold)
    <2>1. NextState(c, sig, "STARTED", e) # "LOCKED_IN"
      BY <1>11 DEF NextState
    <2> QED BY <1>7, <1>11, <2>1
  <1> QED BY <1>10, <1>11

(* GetStateStatisticsFor, in a period that is voted on. *)
LEMMA PossibleIs ==
  ASSUME VBInv, dep.begin >= 0, NEW b \in DOMAIN index, State(Parent[b]) = "STARTED"
  PROVE  PossibleIsSound(b)
  <1> DEFINE R(x) == RuleOf(index, dep, Signalling, x)
             p == dep.period
             elapsed == 1 + (nHeight[b] % p)
             count == CountFromEnd(b, elapsed, Signalling)
  <1>1. /\ dep \in Parameters /\ IndexInv /\ p \in Nat \ {0} /\ dep.threshold \in Nat
        /\ \A x \in Indexed : State(x) = R(x)
    BY CandidatesAre, StateIs DEF VBInv, Parameters
  <1>2. /\ b \in Blocks /\ b \in Nodes /\ b \in Indexed /\ b \in Branch[b]
        /\ Parent[b] \in Indexed /\ Parent[b] \in Nodes
        /\ nHeight[b] \in Nat /\ nHeight[Parent[b]] = nHeight[b] - 1
    <2>1. b \in Blocks /\ b \in Nodes /\ b \in Indexed /\ Parent[b] \in Indexed
      BY <1>1, IndexedIs DEF Indexed, Nodes
    <2>2. nHeight[b] \in Nat /\ nHeight[b] = nHeight[Parent[b]] + 1 /\ nHeight[Parent[b]] \in Int
      BY <1>1, <2>1, Heights, IndexedIs
    <2>3. b \in Branch[b] /\ Parent[b] \in Nodes
      BY <1>1, <2>1, Branches, IndexedIs
    <2> QED BY <2>1, <2>2, <2>3
  <1>3. elapsed \in 1..p /\ (nHeight[b] + 1) - elapsed \in Nat /\ ((nHeight[b] + 1) - elapsed) % p = 0
    <2>1. /\ nHeight[b] % p \in 0..(p - 1) /\ nHeight[b] - (nHeight[b] % p) \in Nat
          /\ (nHeight[b] - (nHeight[b] % p)) % p = 0
      BY <1>1, <1>2, ModType, MultipleBelow
    <2>2. (nHeight[b] + 1) - elapsed = nHeight[b] - (nHeight[b] % p)
      BY <1>2, <2>1
    <2>3. elapsed \in 1..p
      BY <1>1, <2>1
    <2> HIDE DEF elapsed
    <2> QED BY <2>1, <2>2, <2>3
  <1>4. GetStateStatisticsFor(b) =
          [elapsed |-> elapsed, count |-> count, possible |-> p - dep.threshold >= elapsed - count]
    BY DEF GetStateStatisticsFor
  <1> HIDE DEF elapsed, p
  <1>5. count \in Nat
    BY <1>2, CountType
  <1> HIDE DEF count
  <1>6. ASSUME NEW e \in DOMAIN index, b \in Branch[e], nHeight[e] - nHeight[b] = p - elapsed
        PROVE  /\ IsEnd(e, p) /\ e \in Blocks /\ e \in Nodes /\ nHeight[e] \in Nat
               /\ R(e) = "LOCKED_IN" <=> CountFromEnd(e, p, Signalling) >= dep.threshold
               /\ CountFromEnd(e, p, Signalling) <= count + (p - elapsed)
    <2>1. e \in Blocks /\ e \in Nodes /\ nHeight[e] \in Nat
      BY <1>1, IndexedIs, Heights DEF Nodes
    <2>2. nHeight[e] + 1 \in Nat /\ nHeight[e] + 1 > 0 /\ (nHeight[e] + 1) - p = (nHeight[b] + 1) - elapsed
      BY <1>1, <1>2, <1>3, <1>6, <2>1
    <2>3. (nHeight[e] + 1) % p = 0
      <3> DEFINE x == (nHeight[b] + 1) - elapsed
      <3>1. x \in Nat /\ x % p = 0 /\ nHeight[e] + 1 = x + p
        BY <1>1, <1>3, <2>1, <2>2
      <3> HIDE DEF x
      <3>2. PICK k \in Nat : x = k * p
        BY <1>1, <3>1, Multiple
      <3>3. x + p = (k + 1) * p /\ x + p \in Nat /\ k + 1 \in Nat
        BY <1>1, <3>1, <3>2
      <3>4. (x + p) % p = 0
        BY <1>1, <3>3, Multiple
      <3> QED BY <3>1, <3>4
    <2>4. IsEnd(e, p)
      BY <2>3 DEF IsEnd
    <2>5. Parent[b] = nullptr \/ Parent[b] \in Branch[e]
      <3>1. ASSUME Parent[b] # nullptr PROVE Parent[b] \in Branch[e]
        <4>1. Parent[b] \in Blocks
          BY <1>2, <3>1 DEF Nodes
        <4>2. Parent[b] \in Branch[Parent[b]] /\ Branch[Parent[b]] \subseteq Branch[b]
          BY <1>2, <4>1, Branches
        <4>3. Branch[b] \subseteq Branch[e]
          BY <1>6, <2>1, BranchDown
        <4> QED BY <4>2, <4>3
      <3> QED BY <3>1
    <2>6. nHeight[e] - p <= nHeight[Parent[b]] /\ nHeight[Parent[b]] < nHeight[e]
      <3>1. nHeight[b] <= nHeight[e]
        BY <1>6, <2>1, BranchDown
      <3> QED BY <1>1, <1>2, <1>3, <1>6, <2>1, <3>1
    <2>7. EndOfPeriod(Parent[b], p) = PreviousEnd(e, p)
      BY <1>1, <2>1, <2>4, <2>5, <2>6, PeriodStart
    <2>8. R(Parent[b]) = R(EndOfPeriod(Parent[b], p)) /\ R(Parent[b]) = "STARTED"
      BY <1>1, <1>2, RuleEnd DEF p
    <2>9. R(e) = "LOCKED_IN" <=> CountFromEnd(e, p, Signalling) >= dep.threshold
      BY <1>1, <2>4, <2>7, <2>8, RuleVotes DEF p
    <2>10. CountFromEnd(e, p, Signalling) <= CountFromEnd(b, elapsed, Signalling) + (nHeight[e] - nHeight[b])
      <3>1. elapsed \in Int /\ p \in Int /\ nHeight[e] - p = nHeight[b] - elapsed
        BY <1>1, <1>2, <1>3, <1>6, <2>1
      <3> QED BY <1>6, <2>1, <3>1, CountMore
    <2> QED BY <1>6, <2>1, <2>4, <2>9, <2>10 DEF count
  <1>7. ASSUME ~(p - dep.threshold >= elapsed - count), NEW e \in DOMAIN index, b \in Branch[e],
               nHeight[e] - nHeight[b] = p - elapsed
        PROVE  State(e) # "LOCKED_IN"
    <2>1. /\ R(e) = "LOCKED_IN" <=> CountFromEnd(e, p, Signalling) >= dep.threshold
          /\ CountFromEnd(e, p, Signalling) <= count + (p - elapsed)
          /\ e \in Nodes
      BY <1>6, <1>7
    <2>2. CountFromEnd(e, p, Signalling) \in Nat
      BY <2>1, CountType
    <2>3. ~(CountFromEnd(e, p, Signalling) >= dep.threshold)
      BY <1>1, <1>3, <1>5, <1>7, <2>1, <2>2
    <2> QED BY <1>1, <2>1, <2>3 DEF Indexed
  <1>8. ASSUME EndOfPeriod(b, p) = b
        PROVE  (p - dep.threshold >= elapsed - count) <=> State(b) = "LOCKED_IN"
    <2>1. IsEnd(b, p)
      BY <1>1, <1>2, <1>8, EndOfPeriodIs
    <2>2. elapsed = p
      <3> DEFINE x == (nHeight[b] + 1) - elapsed
      <3>1. x \in Nat /\ x % p = 0 /\ nHeight[b] + 1 = x + elapsed /\ x < nHeight[b] + 1
        BY <1>1, <1>2, <1>3
      <3> HIDE DEF x
      <3>2. x + p <= nHeight[b] + 1
        BY <1>1, <1>2, <2>1, <3>1, MultiplesApart DEF IsEnd
      <3> QED BY <1>1, <1>2, <1>3, <3>1, <3>2
    <2>3. R(b) = "LOCKED_IN" <=> CountFromEnd(b, p, Signalling) >= dep.threshold
      <3>1. nHeight[b] - nHeight[b] = p - elapsed
        BY <1>1, <1>2, <2>2
      <3> QED BY <1>2, <1>6, <3>1
    <2>4. CountFromEnd(b, p, Signalling) = count
      BY <2>2 DEF count
    <2>5. (p - dep.threshold >= p - count) <=> count >= dep.threshold
      BY <1>1, <1>5
    <2> QED BY <1>1, <1>2, <2>2, <2>3, <2>4, <2>5
  <1> HIDE DEF R
  <1>9. GetStateStatisticsFor(b).possible = (p - dep.threshold >= elapsed - count)
        /\ GetStateStatisticsFor(b).elapsed = elapsed
    BY <1>4
  <1> QED BY <1>7, <1>8, <1>9 DEF PossibleIsSound, p

SinceSolves(f, initial) ==
  f = [e \in Indexed |->
         IF /\ PreviousEnd(e, dep.period) # nullptr
            /\ State(PreviousEnd(e, dep.period)) = initial
         THEN f[PreviousEnd(e, dep.period)] ELSE nHeight[e] + 1]

(* The walk back of GetStateSinceHeightFor. *)
LEMMA SinceWalk ==
  ASSUME VBInv, NEW initial
  PROVE  SinceSolves(CHOOSE g : SinceSolves(g, initial), initial)
  <1> DEFINE prev == [e \in Indexed |-> PreviousEnd(e, dep.period)]
             Base == {e \in Indexed : ~(prev[e] # nullptr /\ State(prev[e]) = initial)}
             base == [e \in Base |-> nHeight[e] + 1]
             H == [x \in Indexed \X Int |-> x[2]]
  <1>1. dep \in Parameters /\ IndexInv /\ dep.period \in Nat \ {0}
    BY CandidatesAre DEF VBInv, Parameters
  <1>2. ASSUME NEW e \in Indexed \ Base PROVE prev[e] \in Indexed /\ prev[e] < e
    <2>1. prev[e] # nullptr /\ prev[e] = PreviousEnd(e, dep.period)
      BY <1>2
    <2>2. e # nullptr
      <3>1. ASSUME e = nullptr PROVE FALSE
        <4>1. nHeight[nullptr] - dep.period < 0
          BY <1>1, Heights
        <4> QED BY <2>1, <3>1, <4>1 DEF PreviousEnd, GetAncestor
      <3> QED BY <3>1
    <2>3. e \in Blocks /\ e \in Nat
      BY <1>1, <2>2, IndexedIs, NodesAre
    <2>4. prev[e] \in Nodes /\ prev[e] < e
      BY <1>1, <2>1, <2>3, PreviousEndIs
    <2>5. prev[e] \in Nat
      BY <2>4, NodesAre
    <2>6. prev[e] <= e
      BY <2>3, <2>4, <2>5
    <2> QED BY <1>1, <2>4, <2>6, IndexedIs
  <1>3. WellFounded(Indexed, Base, Int, base, prev, H)
    <2>1. Indexed \in SUBSET (0..Len(Parent)) /\ Base \in SUBSET Indexed /\ Int # {}
      BY <1>1, IndexedIs, NodesAre
    <2>2. base \in [Base -> Int]
      BY <1>1, IndexedIs, Heights
    <2>3. H \in [Indexed \X Int -> Int]
      OBVIOUS
    <2> HIDE DEF Base, base, prev, H
    <2> QED BY <1>2, <2>1, <2>2, <2>3 DEF WellFounded
  <1>4. PICK g \in [Indexed -> Int] :
          \A e \in Indexed : g[e] = IF e \in Base THEN base[e] ELSE H[<<e, g[prev[e]]>>]
    <2> HIDE DEF Base, base, prev, H
    <2> QED BY <1>3, Recursion
  <1>5. \A e \in Indexed : g[e] = IF prev[e] # nullptr /\ State(prev[e]) = initial
                                  THEN g[prev[e]] ELSE nHeight[e] + 1
    <2>1. ASSUME NEW e \in Indexed, e \notin Base PROVE g[e] = g[prev[e]]
      <3>1. prev[e] \in Indexed
        BY <1>2, <2>1
      <3>2. <<e, g[prev[e]]>> \in Indexed \X Int
        BY <3>1
      <3> HIDE DEF Base, prev
      <3> QED BY <1>4, <2>1, <3>2
    <2>2. ASSUME NEW e \in Base PROVE g[e] = nHeight[e] + 1
      BY <1>4
    <2> HIDE DEF prev
    <2> QED BY <2>1, <2>2
  <1>6. g = [e \in Indexed |-> g[e]]
    OBVIOUS
  <1>7. SinceSolves(g, initial)
    <2> HIDE DEF Base, base, H
    <2> QED BY <1>5, <1>6 DEF SinceSolves
  <1> QED BY <1>7

(* It ends at the oldest end o of which all later ones have the state. *)
Oldest(s, e, o) ==
  /\ o \in Branch[e] /\ IsEnd(o, dep.period)
  /\ \A x \in Branch[e] : IsEnd(x, dep.period) /\ nHeight[o] <= nHeight[x]
                            => RuleOf(index, dep, Signalling, x) = s
  /\ RuleOf(index, dep, Signalling, PreviousEnd(o, dep.period)) # s

(* So the height found is the one after an Oldest. *)
LEMMA SinceOldest ==
  ASSUME VBInv, dep.begin >= 0, NEW s, s # "DEFINED", NEW f, SinceSolves(f, s),
         NEW q \in DOMAIN index, IsEnd(q, dep.period), RuleOf(index, dep, Signalling, q) = s
  PROVE  \E o \in Branch[q] : Oldest(s, q, o) /\ f[q] = nHeight[o] + 1
  <1> DEFINE R(x) == RuleOf(index, dep, Signalling, x)
             p == dep.period
             S == {e \in Nodes : e \in DOMAIN index /\ IsEnd(e, p) /\ R(e) = s
                     => \E o \in Branch[e] : Oldest(s, e, o) /\ f[e] = nHeight[o] + 1}
  <1>1. /\ dep \in Parameters /\ IndexInv /\ p \in Nat \ {0}
        /\ \A x \in Indexed : State(x) = R(x)
    BY CandidatesAre, StateIs DEF VBInv, Parameters
  <1>2. nullptr \in S
    <2>1. nullptr \notin DOMAIN index /\ nullptr \in Nodes
      BY <1>1, IndexedIs DEF Nodes
    <2> QED BY <2>1
  <1>3. ASSUME NEW e \in Blocks, \A a \in Nodes : a < e => a \in S PROVE e \in S
    <2> SUFFICES ASSUME e \in DOMAIN index, IsEnd(e, p), R(e) = s
                 PROVE  \E o \in Branch[e] : Oldest(s, e, o) /\ f[e] = nHeight[o] + 1
      BY DEF Nodes
    <2> DEFINE r == PreviousEnd(e, p)
    <2>1. e \in Nodes /\ e \in Indexed /\ e \in Branch[e] /\ nHeight[e] \in Nat
      BY Branches, Heights DEF Nodes, Indexed
    <2>2. /\ r \in Nodes /\ r < e /\ IsEnd(r, p) /\ (r # nullptr => r \in Branch[e])
          /\ \A x \in Branch[e] : IsEnd(x, p) => x = e \/ x \in Branch[r]
          /\ Branch[r] \subseteq Branch[e]
      BY <1>1, PreviousEndIs
    <2>3. r # nullptr => r \in DOMAIN index
      BY <1>1, <2>1, <2>2, IndexedIs
    <2>4. f[e] = IF r # nullptr /\ State(r) = s THEN f[r] ELSE nHeight[e] + 1
      BY <2>1 DEF SinceSolves
    <2> HIDE DEF r
    <2>5. CASE r # nullptr /\ State(r) = s
      <3>1. r \in DOMAIN index /\ R(r) = s
        BY <1>1, <2>3, <2>5 DEF Indexed
      <3>2. PICK o \in Branch[r] : Oldest(s, r, o) /\ f[r] = nHeight[o] + 1
        BY <1>3, <2>2, <3>1
      <3> HIDE DEF R
      <3>3. Oldest(s, e, o)
        <4>1. ASSUME NEW x \in Branch[e], IsEnd(x, p), nHeight[o] <= nHeight[x] PROVE R(x) = s
          BY <2>2, <3>2, <4>1 DEF Oldest, R
        <4> QED BY <2>2, <3>2, <4>1 DEF Oldest, R
      <3> QED BY <2>2, <2>4, <2>5, <3>2, <3>3
    <2>6. CASE ~(r # nullptr /\ State(r) = s)
      <3>1. R(r) # s
        <4>1. CASE r = nullptr
          BY <1>1, <4>1, RuleNull
        <4>2. CASE r # nullptr
          BY <1>1, <2>3, <2>6, <4>2 DEF Indexed
        <4> QED BY <4>1, <4>2
      <3>2. ASSUME NEW x \in Branch[e], nHeight[e] <= nHeight[x] PROVE R(x) = s
        <4>1. nHeight[x] \in Nat /\ nHeight[x] <= nHeight[e]
          BY <2>1, Branches, Heights, BranchDown
        <4>2. nHeight[x] = nHeight[e]
          BY <2>1, <3>2, <4>1
        <4>3. x = e
          BY <2>1, <4>2, BranchDown
        <4> QED BY <4>3
      <3> HIDE DEF R
      <3>3. Oldest(s, e, e)
        BY <2>1, <3>1, <3>2 DEF Oldest, r, R
      <3> QED BY <2>1, <2>4, <2>6, <3>3
    <2> QED BY <2>5, <2>6
  <1> HIDE DEF S
  <1>4. \A e \in Nodes : e \in S
    BY <1>2, <1>3, TreeInduction
  <1>5. q \in Nodes
    BY <1>1, IndexedIs DEF Nodes
  <1> QED BY <1>4, <1>5 DEF S

(* What is DEFINED was never anything else. *)
LEMMA DefinedBefore ==
  ASSUME NEW idx, NEW c \in Parameters, NEW sig, NEW b \in Nodes, NEW a \in Branch[b], c.begin >= 0,
         RuleOf(idx, c, sig, b) = "DEFINED"
  PROVE  RuleOf(idx, c, sig, a) = "DEFINED"
  <1>1. StartsIn(idx, c, EndsOf(c, b)) = {}
    <2>1. ASSUME StartsIn(idx, c, EndsOf(c, b)) # {} PROVE FALSE
      <3>1. RuleIn(idx, c, sig, EndsOf(c, b)) \in {"STARTED", "FAILED", "ACTIVE", "LOCKED_IN"}
        BY <2>1, RuleCases
      <3> QED BY <3>1 DEF RuleOf
    <2> QED BY <2>1
  <1>2. Branch[a] \subseteq Branch[b]
    BY BranchDown
  <1>3. StartsIn(idx, c, EndsOf(c, a)) = {}
    BY <1>1, <1>2 DEF StartsIn, EndsOf
  <1> QED BY <1>3, RuleCases DEF RuleOf

(* GetStateSinceHeightFor *)
LEMMA SinceIs ==
  ASSUME VBInv, dep.begin >= 0, NEW b \in DOMAIN index
  PROVE  SinceIsFirst(b)
  <1> DEFINE R(x) == RuleOf(index, dep, Signalling, x)
             p == dep.period
             s == R(b)
             q == EndOfPeriod(b, p)
             f == CHOOSE g : SinceSolves(g, s)
             since == GetStateSinceHeightFor(b)
  <1>1. /\ dep \in Parameters /\ IndexInv /\ p \in Nat \ {0}
        /\ \A x \in Indexed : State(x) = R(x)
        /\ \A x : RuleState(dep, Signalling, x) = R(x)
        /\ dep.begin \notin {ALWAYS_ACTIVE, NEVER_ACTIVE}
    BY CandidatesAre, StateIs, RuleIs DEF VBInv, Parameters, ALWAYS_ACTIVE, NEVER_ACTIVE
  <1>2. b \in Nodes /\ b \in Indexed /\ State(b) = s
    BY <1>1, IndexedIs DEF Indexed, Nodes
  <1>3. since = IF s = "DEFINED" THEN 0 ELSE f[q]
    <2>1. since = IF dep.begin \in {ALWAYS_ACTIVE, NEVER_ACTIVE} \/ State(b) = "DEFINED" THEN 0
                  ELSE (CHOOSE g : SinceSolves(g, State(b)))[EndOfPeriod(b, dep.period)]
      BY DEF GetStateSinceHeightFor, SinceSolves
    <2> QED BY <1>1, <1>2, <2>1
  <1> HIDE DEF since
  <1>4. CASE s = "DEFINED"
    <2>1. \A a \in Branch[b] : R(a) = "DEFINED"
      BY <1>1, <1>2, <1>4, DefinedBefore
    <2>2. since = 0
      BY <1>3, <1>4
    <2> HIDE DEF R
    <2>3. \A a \in Branch[b] : RuleState(dep, Signalling, a) = RuleState(dep, Signalling, b)
      BY <1>1, <1>4, <2>1
    <2> QED BY <2>2, <2>3 DEF SinceIsFirst, since
  <1>5. CASE s # "DEFINED"
    <2>1. /\ q \in Nodes /\ q <= b /\ IsEnd(q, p) /\ (q # nullptr => q \in Branch[b])
          /\ \A x \in Branch[b] : IsEnd(x, p) => x \in Branch[q]
          /\ Branch[q] \subseteq Branch[b]
      BY <1>1, <1>2, EndOfPeriodIs
    <2>2. R(q) = s
      BY <1>1, <1>2, RuleEnd
    <2>3. q # nullptr
      <3>1. ASSUME q = nullptr PROVE FALSE
        <4>1. R(nullptr) = "DEFINED"
          BY <1>1, RuleNull
        <4> HIDE DEF R, q, s
        <4> QED BY <1>5, <2>2, <3>1, <4>1
      <3> QED BY <3>1
    <2>4. q \in DOMAIN index
      BY <1>1, <1>2, <2>1, <2>3, IndexedIs
    <2>5. SinceSolves(f, s)
      BY SinceWalk
    <2> HIDE DEF f, s, q
    <2>6. PICK o \in Branch[q] : Oldest(s, q, o) /\ f[q] = nHeight[o] + 1
      BY <1>5, <2>1, <2>2, <2>4, <2>5, SinceOldest
    <2>7. o \in Branch[b] /\ o \in Blocks /\ o \in Nodes /\ nHeight[o] \in Nat /\ IsEnd(o, p)
          /\ since = nHeight[o] + 1
      BY <1>2, <1>3, <1>5, <2>1, <2>6, Branches, Heights DEF Oldest, Nodes
    <2>8. ASSUME NEW a \in Branch[b], nHeight[a] + 1 >= since PROVE R(a) = s
      <3> DEFINE x == EndOfPeriod(a, p)
      <3>1. a \in Nodes /\ nHeight[a] \in Nat /\ Branch[a] \subseteq Branch[b]
        BY <1>2, Branches, Heights, BranchDown DEF Nodes
      <3>2. nHeight[o] <= nHeight[a]
        BY <2>7, <2>8, <3>1
      <3>3. o \in Branch[a]
        BY <1>2, <2>7, <3>2, BranchOrder
      <3>4. x \in Nodes /\ IsEnd(x, p) /\ (x # nullptr => x \in Branch[a]) /\ o \in Branch[x]
        BY <1>1, <2>7, <3>1, <3>3, EndOfPeriodIs
      <3>5. R(a) = R(x)
        BY <1>1, <3>1, RuleEnd
      <3> HIDE DEF x, R
      <3>6. x # nullptr
        BY <3>4, Branches
      <3>7. x \in Branch[q] /\ nHeight[o] <= nHeight[x]
        BY <2>1, <3>1, <3>4, <3>6, BranchDown
      <3>8. R(x) = s
        BY <2>6, <3>4, <3>7 DEF Oldest, R
      <3> QED BY <3>5, <3>8
    <2>9. R(GetAncestor(b, since - 2)) # s
      <3> DEFINE a == GetAncestor(b, since - 2)
      <3>1. since - 2 = nHeight[o] - 1 /\ since - 2 \in Int
        BY <2>7
      <3>2. nHeight[o] <= nHeight[b] /\ nHeight[b] \in Int
        BY <1>2, <2>7, BranchDown, Heights
      <3>3. /\ since - 2 < 0 => a = nullptr
            /\ since - 2 >= 0 => a \in Branch[b] /\ nHeight[a] = since - 2
            /\ a \in Nodes
        <4>1. since - 2 <= nHeight[b]
          BY <2>7, <3>1, <3>2
        <4> QED BY <1>2, <3>1, <4>1, Ancestor
      <3> HIDE DEF a
      <3>4. nHeight[a] = nHeight[o] - 1 /\ (a = nullptr \/ a \in Branch[o])
        <4>1. CASE since - 2 < 0
          <5>1. a = nullptr /\ nHeight[o] = 0
            BY <2>7, <3>1, <3>3, <4>1
          <5> QED BY <5>1, Heights
        <4>2. CASE since - 2 >= 0
          <5>1. a \in Branch[b] /\ nHeight[a] = nHeight[o] - 1
            BY <3>1, <3>3, <4>2
          <5>2. nHeight[a] <= nHeight[o]
            BY <2>7, <5>1
          <5>3. a \in Branch[o]
            BY <1>2, <2>7, <5>1, <5>2, BranchOrder
          <5> QED BY <5>1, <5>3
        <4> QED BY <3>1, <4>1, <4>2
      <3>5. nHeight[o] - p <= nHeight[a] /\ nHeight[a] < nHeight[o]
        BY <1>1, <2>7, <3>4
      <3>6. EndOfPeriod(a, p) = PreviousEnd(o, p)
        BY <1>1, <2>7, <3>4, <3>5, PeriodStart
      <3>7. R(a) = R(PreviousEnd(o, p))
        BY <1>1, <3>3, <3>6, RuleEnd
      <3>8. R(PreviousEnd(o, p)) # s
        BY <2>6 DEF Oldest
      <3> QED BY <3>7, <3>8 DEF a
    <2>10. s = R(b)
      BY DEF s
    <2> HIDE DEF R
    <2> QED BY <1>1, <2>8, <2>9, <2>10 DEF SinceIsFirst, since
  <1> QED BY <1>4, <1>5

(* What Info reports is right, for any tree and any deployment: the height *)
(* since which the state holds, and whether lock-in is still possible.     *)
THEOREM VBInfoIsRight == Spec => []InfoIsRight
  <1>1. VBInv => InfoIsRight
    BY SinceIs, PossibleIs DEF InfoIsRight
  <1> QED BY <1>1, VBInvariant, PTL
=============================================================================
