-------------------------- MODULE TxRequest_proofs --------------------------
(***************************************************************************)
(* Proofs about TxRequest, for any peers, transactions, priorities, times  *)
(* and calls, and about TxDownload, for any peers, limits and delays.      *)
(*                                                                         *)
(* What each operation does is shown for the announcements of one          *)
(* transaction: it keeps them sane (Sane, what SanityCheck asserts), and   *)
(* but for which candidate is selected it changes little (MakesCompleted,  *)
(* Requests, Disconnects, TimePassed).  SetTimePoint is a fold over the    *)
(* announcements in the order of their times; it is followed one           *)
(* announcement at a time, by induction.  From there follow the            *)
(* invariants of both modules, and that TxRequest implements               *)
(* TxRequestRules: with the announcements sane, the BEST one is the one    *)
(* that the rules choose (BestIsToAsk).                                    *)
(***************************************************************************)
EXTENDS TxRequest, TxDownload, FiniteSetTheorems, NaturalsInduction, WellFoundedInduction, TLAPS

(* What folds compute. *)

(* A set of natural numbers has a least element. *)
LEMMA LeastNatural ==
    ASSUME NEW T, T \subseteq Nat, T # {}
    PROVE  \E m \in T : \A k \in T : m <= k
<1>1. PICK m \in T : \A k \in T : <<k, m>> \notin OpToRel(<, Nat)
  BY WFMin, NatLessThanWellFounded
<1>2. \A k \in T : ~(k < m)
  BY <1>1 DEF OpToRel
<1> QED
  BY <1>2

(* Induction, for a set of natural numbers. *)
LEMMA InductiveSet ==
    ASSUME NEW T, 0 \in T, \A n \in Nat \ {0} : n - 1 \in T => n \in T
    PROVE  \A n \in Nat : n \in T
<1> SUFFICES ASSUME NEW n \in Nat, n \notin T PROVE FALSE
  OBVIOUS
<1> DEFINE M == Nat \ T
<1>1. M \subseteq Nat /\ M # {}
  OBVIOUS
<1> HIDE DEF M
<1>2. PICK m \in M : \A k \in M : m <= k
  BY <1>1, LeastNatural
<1>3. m \in Nat /\ m \notin T /\ m # 0
  BY <1>2 DEF M
<1>4. m - 1 \in Nat /\ ~(m <= m - 1)
  BY <1>3
<1>5. m - 1 \in T
  BY <1>2, <1>4 DEF M
<1> QED
  BY <1>3, <1>5

(* Induction along a run of n steps. *)
LEMMA RunInduction ==
    ASSUME NEW n \in Nat, NEW T, NEW run, run[0] \in T,
           \A i \in 1..n : run[i - 1] \in T => run[i] \in T
    PROVE  \A i \in 0..n : run[i] \in T
<1> DEFINE S == {i \in Nat : i <= n => run[i] \in T}
<1>1. 0 \in S
  OBVIOUS
<1>2. ASSUME NEW i \in Nat \ {0}, i - 1 \in S PROVE i \in S
  BY <1>2
<1> HIDE DEF S
<1>3. \A i \in Nat : i \in S
  BY <1>1, <1>2, InductiveSet
<1>4. ASSUME NEW i \in 0..n PROVE run[i] \in T
  <2>1. i \in Nat /\ i <= n
    OBVIOUS
  <2> QED
    BY <1>3, <2>1 DEF S
<1> QED
  BY <1>4

(* The largest element of a set of numbers up to k that holds k. *)
LEMMA MaxIsBound ==
    ASSUME NEW k \in Nat, NEW s \in SUBSET (1..k), k \in s
    PROVE  Max(s) = k
<1>1. \A y \in s : y \in Int /\ k >= y
  OBVIOUS
<1>2. \A x \in s : (\A y \in s : x >= y) => x = k
  BY <1>1
<1> QED
  BY <1>1, <1>2 DEF Max

(* FoldLeft is defined by recursion over the sets of positions of the      *)
(* sequence; F is one step of the fold.                                    *)
FoldOf(h, F, base, n) ==
    /\ h[{}] = base
    /\ \A s \in SUBSET (1..n) : s # {} => Max(s) \in s /\ h[s] = F[<<h[s \ {Max(s)}], Max(s)>>]

(* The recursion has a solution. *)
LEMMA FoldSolution ==
    ASSUME NEW V, NEW base \in V, NEW n \in Nat, NEW F \in [V \X (1..n) -> V]
    PROVE  \E h \in [SUBSET (1..n) -> V] : FoldOf(h, F, base, n)
<1> DEFINE T == {k \in Nat : k <= n => \E h \in [SUBSET (1..k) -> V] : FoldOf(h, F, base, k)}
<1>1. 0 \in T
  <2> DEFINE h == [s \in SUBSET (1..0) |-> base]
  <2>1. \A s \in SUBSET (1..0) : s = {}
    OBVIOUS
  <2>2. h \in [SUBSET (1..0) -> V] /\ FoldOf(h, F, base, 0)
    BY <2>1 DEF FoldOf
  <2> QED
    BY <2>2
<1>2. ASSUME NEW k \in Nat \ {0}, k - 1 \in T PROVE k \in T
  <2> SUFFICES ASSUME k <= n PROVE \E h \in [SUBSET (1..k) -> V] : FoldOf(h, F, base, k)
    OBVIOUS
  <2>0. k - 1 <= n
    OBVIOUS
  <2>1. PICK h \in [SUBSET (1..(k - 1)) -> V] : FoldOf(h, F, base, k - 1)
    BY <1>2, <2>0
  <2> DEFINE g == [s \in SUBSET (1..k) |-> IF k \in s THEN F[<<h[s \ {k}], k>>] ELSE h[s]]
  <2>2. \A s \in SUBSET (1..k) : s \ {k} \in SUBSET (1..(k - 1)) /\ k \notin s \ {k}
    OBVIOUS
  <2>3. g \in [SUBSET (1..k) -> V]
    <3>1. ASSUME NEW s \in SUBSET (1..k), k \in s PROVE F[<<h[s \ {k}], k>>] \in V
      <4>1. h[s \ {k}] \in V /\ k \in 1..n
        BY <2>1, <2>2
      <4> QED
        BY <4>1
    <3>2. ASSUME NEW s \in SUBSET (1..k), k \notin s PROVE h[s] \in V
      <4>1. s = s \ {k}
        BY <3>2
      <4> QED
        BY <2>1, <2>2, <4>1
    <3> QED
      BY <3>1, <3>2
  <2>4. g[{}] = base
    BY <2>1 DEF FoldOf
  <2>5. ASSUME NEW s \in SUBSET (1..k), s # {}
        PROVE  Max(s) \in s /\ g[s] = F[<<g[s \ {Max(s)}], Max(s)>>]
    <3>1. CASE k \in s
      <4>1. Max(s) = k
        BY <3>1, MaxIsBound
      <4>2. s \ {k} \in SUBSET (1..k) /\ k \notin s \ {k}
        OBVIOUS
      <4> QED
        BY <3>1, <4>1, <4>2
    <3>2. CASE k \notin s
      <4>1. s \in SUBSET (1..(k - 1))
        BY <3>2
      <4>2. Max(s) \in s /\ h[s] = F[<<h[s \ {Max(s)}], Max(s)>>]
        BY <2>1, <2>5, <4>1 DEF FoldOf
      <4>3. s \ {Max(s)} \in SUBSET (1..k) /\ k \notin s \ {Max(s)}
        BY <3>2
      <4>4. g[s] = h[s] /\ g[s \ {Max(s)}] = h[s \ {Max(s)}]
        BY <3>2, <4>3
      <4> QED
        BY <4>2, <4>4
    <3> QED
      BY <3>1, <3>2
  <2> HIDE DEF g
  <2> QED
    BY <2>3, <2>4, <2>5 DEF FoldOf
<1> HIDE DEF T
<1>3. n \in T
  BY <1>1, <1>2, InductiveSet
<1>4. n <= n
  OBVIOUS
<1> QED
  BY <1>3, <1>4 DEF T

(* The positions up to i. *)
LEMMA Positions ==
    ASSUME NEW n \in Nat, NEW i \in 1..n
    PROVE  /\ 1..i \in SUBSET (1..n) /\ 1..i # {} /\ Max(1..i) = i
           /\ (1..i) \ {i} = 1..(i - 1)
<1>1. i \in Nat /\ i \in 1..i /\ 1..i \in SUBSET (1..i) /\ 1..i \in SUBSET (1..n)
  OBVIOUS
<1>2. Max(1..i) = i
  BY <1>1, MaxIsBound
<1>3. (1..i) \ {i} = 1..(i - 1)
  OBVIOUS
<1> QED
  BY <1>1, <1>2, <1>3

(* A solution h of the recursion, of which only the steps that stay in V   *)
(* are known, and its values along 1..n.                                   *)
FoldIn(h, V, F, base, n) ==
    /\ n \in Nat /\ base \in V /\ F \in [V \X (1..n) -> V]
    /\ h[{}] = base
    /\ \A s \in SUBSET (1..n) :
          s # {} /\ h[s \ {Max(s)}] \in V /\ Max(s) \in 1..n => h[s] = F[<<h[s \ {Max(s)}], Max(s)>>]
RunIn(run, h, V, F, base, n) ==
    /\ run \in [0..n -> V] /\ run[0] = base /\ run[n] = h[1..n]
    /\ \A i \in 1..n : run[i - 1] \in V /\ run[i] = F[<<run[i - 1], i>>]

(* It stays in V, and each position is one step of F. *)
LEMMA FoldRun ==
    ASSUME NEW h, NEW V, NEW F, NEW base, NEW n, FoldIn(h, V, F, base, n)
    PROVE  \E run : RunIn(run, h, V, F, base, n)
<1>0. n \in Nat /\ base \in V /\ F \in [V \X (1..n) -> V]
  BY DEF FoldIn
<1> DEFINE run == [i \in 0..n |-> h[1..i]]
<1>1. run[0] = base
  <2>1. 1..0 = {} /\ 0 \in 0..n
    BY <1>0
  <2> QED
    BY <2>1 DEF FoldIn
<1>2. ASSUME NEW i \in 1..n, run[i - 1] \in V PROVE run[i] = F[<<run[i - 1], i>>] /\ run[i] \in V
  <2>1. /\ 1..i \in SUBSET (1..n) /\ 1..i # {} /\ Max(1..i) = i
        /\ (1..i) \ {i} = 1..(i - 1)
    BY <1>0, Positions
  <2>2. i \in 0..n /\ i - 1 \in 0..n
    BY <1>0
  <2>3. h[1..(i - 1)] \in V
    BY <1>2, <2>2
  <2>4. h[1..i] = F[<<h[1..(i - 1)], i>>]
    BY <2>1, <2>3 DEF FoldIn
  <2>5. F[<<h[1..(i - 1)], i>>] \in V
    BY <1>0, <2>3
  <2> QED
    BY <2>2, <2>4, <2>5
<1>3. run[n] = h[1..n] /\ run = [i \in 0..n |-> run[i]]
  BY <1>0
<1> HIDE DEF run
<1>4. \A i \in 0..n : run[i] \in V
  BY <1>0, <1>1, <1>2, RunInduction
<1>5. run \in [0..n -> V]
  BY <1>3, <1>4
<1>6. ASSUME NEW i \in 1..n PROVE run[i - 1] \in V /\ run[i] = F[<<run[i - 1], i>>]
  <2>1. i - 1 \in 0..n
    BY <1>0
  <2> QED
    BY <1>2, <1>4, <2>1
<1> QED
  BY <1>1, <1>3, <1>5, <1>6 DEF RunIn

-----------------------------------------------------------------------------
(* The announcements of one transaction, with any times, and the state of  *)
(* one of them.                                                            *)
Known == [state : States \ {"COMPLETED"}, time : Int] \cup {Completed}
Groups == [Peers -> Known \cup {none}]
Stage(g, p) == IF g[p] = none THEN "none" ELSE g[p].state

Selected == {"CANDIDATE_BEST", "REQUESTED"}
Live == States \ {"COMPLETED"}

(* What SanityCheck asserts of one transaction. *)
Sane(tx, g) ==
    /\ \A p \in Peers : Stage(g, p) = "COMPLETED" => \E q \in Peers : Stage(g, q) \in Live
    /\ \A p, q \in Peers : Stage(g, p) \in Selected /\ Stage(g, q) \in Selected => p = q
    /\ \A p \in Peers : Stage(g, p) = "CANDIDATE_READY" =>
          \E q \in Peers : Stage(g, q) \in Selected
    /\ \A p, q \in Peers : Stage(g, p) = "CANDIDATE_BEST" /\ Stage(g, q) = "CANDIDATE_READY"
                             => Better(tx, p, q)

(* The same but for which one is selected. *)
Like(a, b) ==
    \/ a = b
    \/ /\ a \in Known /\ b \in Known /\ a.time = b.time
       /\ a.state \in {"CANDIDATE_READY", "CANDIDATE_BEST"}
       /\ b.state \in {"CANDIDATE_READY", "CANDIDATE_BEST"}

(* An announcement and its parts. *)
LEMMA Parts ==
    /\ none \notin Known
    /\ Completed \in Known /\ Completed.state = "COMPLETED"
    /\ \A a \in Known : /\ a.state \in States /\ a.time \in Int
                        /\ a.state = "COMPLETED" => a = Completed
    /\ \A t \in Int, s \in Live : /\ [state |-> s, time |-> t] \in Known
                                  /\ [state |-> s, time |-> t].state = s
                                  /\ [state |-> s, time |-> t].time = t
    /\ \A a \in Known, s \in Live : a.state # "COMPLETED" =>
          [a EXCEPT !.state = s] = [state |-> s, time |-> a.time]
<1>1. Completed \in Known /\ Completed.state = "COMPLETED" /\ Completed.time = 0
  BY DEF Known, Completed
<1>2. Completed \in [state : States, time : Int]
  BY DEF Completed, States
<1>3. \A a \in Known : /\ a.state \in States /\ a.time \in Int
                       /\ a.state = "COMPLETED" => a = Completed
  BY <1>1 DEF Known, States
<1>4. none \notin Known
  <2>1. States \ {"COMPLETED"} \subseteq States
    OBVIOUS
  <2>2. [state : States \ {"COMPLETED"}, time : Int] \subseteq [state : States, time : Int]
    BY <2>1
  <2> QED
    BY <1>2, <2>2, NoneAssumption DEF Known
<1>5. \A t \in Int, s \in Live : [state |-> s, time |-> t] \in Known
  BY DEF Known, Live
<1>6. \A a \in Known, s \in Live : a.state # "COMPLETED" =>
         [a EXCEPT !.state = s] = [state |-> s, time |-> a.time]
  BY <1>1 DEF Known
<1> QED
  BY <1>1, <1>3, <1>4, <1>5, <1>6

(* The state of an announcement, or that there is none. *)
LEMMA Stages ==
    ASSUME NEW g \in Groups, NEW p \in Peers
    PROVE  /\ g[p] \in Known \cup {none}
           /\ Stage(g, p) \in States \cup {"none"}
           /\ Stage(g, p) = "none" <=> g[p] = none
           /\ Stage(g, p) # "none" => g[p] \in Known /\ g[p] # none
                                       /\ Stage(g, p) = g[p].state /\ Stage(g, p) \in States
           /\ g[p] # none => g[p] \in Known /\ Stage(g, p) = g[p].state
           /\ \A S \in SUBSET States : p \in In(g, S) <=> Stage(g, p) \in S
<1>1. g[p] \in Known \cup {none}
  BY DEF Groups
<1>2. "none" \notin States
  BY DEF States, Candidates
<1>3. g[p] # none => g[p].state \in States
  BY <1>1, Parts
<1>4. \A S \in SUBSET States : p \in In(g, S) <=> Stage(g, p) \in S
  BY <1>2 DEF In, Stage
<1> QED
  BY <1>1, <1>2, <1>3, <1>4 DEF Stage

(* Priorities are a total order. *)
LEMMA Priorities ==
    ASSUME NEW tx \in Txs, NEW p \in Peers, NEW q \in Peers
    PROVE  /\ p # q => Better(tx, p, q) \/ Better(tx, q, p)
           /\ ~(Better(tx, p, q) /\ Better(tx, q, p))
           /\ \A r \in Peers : Better(tx, p, q) /\ Better(tx, q, r) => Better(tx, p, r)
<1>1. \A r \in Peers : low_bits[tx][r] \in Nat
  BY TrackerAssumption
<1>2. p # q => low_bits[tx][p] # low_bits[tx][q]
  BY TrackerAssumption
<1>3. low_bits[tx][p] \in Nat /\ low_bits[tx][q] \in Nat
  BY <1>1
<1>4. p # q => Better(tx, p, q) \/ Better(tx, q, p)
  BY <1>2, <1>3 DEF Better
<1>5. ~(Better(tx, p, q) /\ Better(tx, q, p))
  BY <1>3 DEF Better
<1>6. ASSUME NEW r \in Peers, Better(tx, p, q), Better(tx, q, r) PROVE Better(tx, p, r)
  <2>1. low_bits[tx][r] \in Nat
    BY <1>1
  <2> QED
    BY <1>3, <1>6, <2>1 DEF Better
<1> QED
  BY <1>4, <1>5, <1>6

(* One of any peers is the best. *)
BestOf(tx, S, t) == t \in S /\ \A q \in S \ {t} : Better(tx, t, q)

(* A set of peers that is not empty has a best one. *)
LEMMA BestExists ==
    ASSUME NEW tx \in Txs, NEW S \in SUBSET Peers, S # {}
    PROVE  \E t \in S : BestOf(tx, S, t)
<1> DEFINE T == {n \in Nat : \A R \in SUBSET Peers :
                    R # {} /\ Cardinality(R) = n => \E t \in R : BestOf(tx, R, t)}
<1>1. \A R \in SUBSET Peers : IsFiniteSet(R) /\ Cardinality(R) \in Nat
  BY TrackerAssumption, FS_Subset, FS_CardinalityType
<1>2. 0 \in T
  BY <1>1, FS_EmptySet
<1>3. ASSUME NEW n \in Nat \ {0}, n - 1 \in T PROVE n \in T
  <2> SUFFICES ASSUME NEW R \in SUBSET Peers, R # {}, Cardinality(R) = n
               PROVE  \E t \in R : BestOf(tx, R, t)
    OBVIOUS
  <2>1. PICK r : r \in R
    OBVIOUS
  <2>2. R \ {r} \in SUBSET Peers /\ Cardinality(R \ {r}) = n - 1
    BY <1>1, <2>1, FS_RemoveElement
  <2>3. CASE R \ {r} = {}
    BY <2>1, <2>3 DEF BestOf
  <2>4. CASE R \ {r} # {}
    <3>1. PICK t \in R \ {r} : BestOf(tx, R \ {r}, t)
      BY <1>3, <2>2, <2>4
    <3>2. r \in Peers /\ t \in Peers /\ t # r
      BY <2>1, <3>1
    <3>3. CASE Better(tx, t, r)
      <4>1. BestOf(tx, R, t)
        BY <3>1, <3>3 DEF BestOf
      <4> QED
        BY <3>1, <4>1
    <3>4. CASE Better(tx, r, t)
      <4>1. \A q \in R \ {r} : Better(tx, r, q)
        BY <3>1, <3>2, <3>4, Priorities DEF BestOf
      <4>2. BestOf(tx, R, r)
        BY <2>1, <4>1 DEF BestOf
      <4> QED
        BY <2>1, <4>2
    <3> QED
      BY <3>2, <3>3, <3>4, Priorities
  <2> QED
    BY <2>3, <2>4
<1> HIDE DEF T
<1>4. Cardinality(S) \in T
  BY <1>1, <1>2, <1>3, InductiveSet
<1> QED
  BY <1>4 DEF T

(* It is the only one in Top. *)
LEMMA TopIs ==
    ASSUME NEW tx \in Txs, NEW S \in SUBSET Peers, S # {}
    PROVE  \E t \in S : Top(tx, S) = {t} /\ \A q \in S \ {t} : Better(tx, t, q)
<1>1. PICK t \in S : BestOf(tx, S, t)
  BY BestExists
<1>2. \A q \in Top(tx, S) : q = t
  BY <1>1, Priorities DEF Top, BestOf
<1>3. t \in Top(tx, S)
  BY <1>1 DEF Top, BestOf
<1> QED
  BY <1>1, <1>2, <1>3 DEF BestOf

(* SetState changes one announcement. *)
LEMMA SetStateIs ==
    ASSUME NEW g \in Groups, NEW p \in Peers, Stage(g, p) \in Live, NEW s \in States
    PROVE  /\ SetState(g, p, s) \in Groups
           /\ \A q \in Peers \ {p} : SetState(g, p, s)[q] = g[q]
           /\ SetState(g, p, s)[p] =
                 IF s = "COMPLETED" THEN Completed ELSE [state |-> s, time |-> g[p].time]
           /\ Stage(SetState(g, p, s), p) = s
           /\ \A q \in Peers \ {p} : Stage(SetState(g, p, s), q) = Stage(g, q)
<1>1. g[p] \in Known /\ g[p].state # "COMPLETED" /\ g[p].time \in Int
  BY Stages, Parts DEF Live, States, Candidates
<1>2. s # "COMPLETED" => [g[p] EXCEPT !.state = s] = [state |-> s, time |-> g[p].time]
  BY <1>1, Parts DEF Live
<1> DEFINE a == IF s = "COMPLETED" THEN Completed ELSE [state |-> s, time |-> g[p].time]
<1>3. a \in Known /\ a # none /\ a.state = s
  BY <1>1, Parts DEF Live
<1>4. SetState(g, p, s) = [g EXCEPT ![p] = a]
  BY <1>2 DEF SetState
<1> HIDE DEF a
<1>5. /\ SetState(g, p, s) \in Groups /\ SetState(g, p, s)[p] = a
      /\ \A q \in Peers \ {p} : SetState(g, p, s)[q] = g[q]
  BY <1>3, <1>4 DEF Groups
<1>6. Stage(SetState(g, p, s), p) = s
  BY <1>3, <1>5 DEF Stage
<1>7. \A q \in Peers \ {p} : Stage(SetState(g, p, s), q) = Stage(g, q)
  BY <1>5 DEF Stage
<1> QED
  BY <1>5, <1>6, <1>7 DEF a

(* What an operation on the announcement of p leaves of the others. *)
OthersLike(g, h, p) == \A q \in Peers \ {p} : Like(g[q], h[q])

(* Changing between READY and BEST. *)
LEMMA MarkLike ==
    ASSUME NEW g \in Groups, NEW q \in Peers,
           Stage(g, q) \in {"CANDIDATE_READY", "CANDIDATE_BEST"},
           NEW s \in {"CANDIDATE_READY", "CANDIDATE_BEST"}
    PROVE  Like(g[q], [state |-> s, time |-> g[q].time])
<1>1. g[q] \in Known /\ g[q].state = Stage(g, q) /\ g[q].time \in Int
  BY Stages, Parts
<1>2. s \in Live
  BY DEF Live, States, Candidates
<1> QED
  BY <1>1, <1>2, Parts DEF Like

(* PromoteCandidateReady: when the time of an announcement has come it is  *)
(* READY, or the BEST in place of the one that was.                        *)
LEMMA PromoteIs ==
    ASSUME NEW tx \in Txs, NEW g \in Groups, Sane(tx, g),
           NEW p \in Peers, Stage(g, p) = "CANDIDATE_DELAYED"
    PROVE  /\ PromoteCandidateReady(tx, g, p) \in Groups
           /\ Sane(tx, PromoteCandidateReady(tx, g, p))
           /\ Stage(PromoteCandidateReady(tx, g, p), p) \in {"CANDIDATE_READY", "CANDIDATE_BEST"}
           /\ PromoteCandidateReady(tx, g, p)[p].time = g[p].time
           /\ OthersLike(g, PromoteCandidateReady(tx, g, p), p)
<1> DEFINE ready == SetState(g, p, "CANDIDATE_READY")
           h == PromoteCandidateReady(tx, g, p)
           better == \E q \in Peers : Stage(g, q) = "CANDIDATE_READY" /\ Better(tx, q, p)
           best == {q \in Peers : Stage(g, q) = "CANDIDATE_BEST"}
           requested == \E q \in Peers : Stage(g, q) = "REQUESTED"
<1>0. /\ {"CANDIDATE_READY", "CANDIDATE_BEST", "CANDIDATE_DELAYED", "REQUESTED"} \subseteq Live
      /\ Live \subseteq States /\ "COMPLETED" \notin Live
  BY DEF Live, States, Candidates
<1>1. /\ ready \in Groups /\ ready[p] = [state |-> "CANDIDATE_READY", time |-> g[p].time]
      /\ \A q \in Peers \ {p} : ready[q] = g[q] /\ Stage(ready, q) = Stage(g, q)
      /\ Stage(ready, p) = "CANDIDATE_READY"
  BY <1>0, SetStateIs
<1>2. ready[p].time = g[p].time
  BY <1>1
<1>3. /\ In(g, {"CANDIDATE_BEST"}) = best
      /\ (\E q \in In(g, {"CANDIDATE_READY"}) : Better(tx, q, p)) <=> better
      /\ In(g, {"REQUESTED"}) # {} <=> requested
  <2>1. \A q \in Peers : /\ q \in In(g, {"CANDIDATE_BEST"}) <=> Stage(g, q) = "CANDIDATE_BEST"
                         /\ q \in In(g, {"CANDIDATE_READY"}) <=> Stage(g, q) = "CANDIDATE_READY"
                         /\ q \in In(g, {"REQUESTED"}) <=> Stage(g, q) = "REQUESTED"
    BY <1>0, Stages
  <2>2. \A S : In(g, S) \subseteq Peers
    BY DEF In
  <2> QED
    BY <2>1, <2>2
<1> HIDE DEF ready
<1>4. ASSUME h = ready,
             better \/ requested \/ (\E q \in best : Better(tx, q, p))
      PROVE  Sane(tx, h)
  <2>1. \E q \in Peers : Stage(g, q) \in Selected
    BY <1>4 DEF Sane, Selected
  <2>2. \A q \in Peers : Stage(g, q) = "CANDIDATE_BEST" => Better(tx, q, p)
    BY <1>4, Priorities DEF Sane, Selected
  <2> HIDE DEF h
  <2> QED
    BY <1>0, <1>1, <1>4, <2>1, <2>2 DEF Sane, Selected
<1>5. CASE better
  <2>1. h = ready
    BY <1>3, <1>5 DEF PromoteCandidateReady, ready
  <2> QED
    BY <1>1, <1>2, <1>4, <1>5, <2>1 DEF OthersLike, Like
<1>6. CASE ~better /\ best # {}
  <2> DEFINE old == CHOOSE q \in In(g, {"CANDIDATE_BEST"}) : TRUE
             then == SetState(SetState(ready, old, "CANDIDATE_READY"), p, "CANDIDATE_BEST")
  <2>1. old \in Peers /\ Stage(g, old) = "CANDIDATE_BEST" /\ old # p /\ best = {old}
    BY <1>3, <1>6 DEF Sane, Selected
  <2>2. h = IF Better(tx, p, old) THEN then ELSE ready
    BY <1>3, <1>6 DEF PromoteCandidateReady, ready
  <2> HIDE DEF old, h
  <2>3. CASE ~Better(tx, p, old)
    <3>1. h = ready /\ old \in best /\ Better(tx, old, p)
      BY <2>1, <2>2, <2>3, Priorities
    <3> QED
      BY <1>1, <1>2, <1>4, <3>1 DEF OthersLike, Like, h
  <2>4. CASE Better(tx, p, old)
    <3> DEFINE mid == SetState(ready, old, "CANDIDATE_READY")
    <3>1. /\ mid \in Groups /\ mid[old] = [state |-> "CANDIDATE_READY", time |-> g[old].time]
          /\ \A q \in Peers \ {old} : mid[q] = ready[q] /\ Stage(mid, q) = Stage(ready, q)
          /\ Stage(mid, old) = "CANDIDATE_READY"
      <4>1. Stage(ready, old) \in Live /\ ready[old] = g[old]
        BY <1>0, <1>1, <2>1
      <4> QED
        BY <1>0, <1>1, <2>1, <4>1, SetStateIs
    <3> HIDE DEF mid
    <3>2. /\ h \in Groups /\ h[p] = [state |-> "CANDIDATE_BEST", time |-> g[p].time]
          /\ \A q \in Peers \ {p} : h[q] = mid[q] /\ Stage(h, q) = Stage(mid, q)
          /\ Stage(h, p) = "CANDIDATE_BEST"
      <4>1. Stage(mid, p) \in Live /\ mid[p].time = g[p].time /\ h = SetState(mid, p, "CANDIDATE_BEST")
        BY <1>0, <1>1, <1>2, <2>1, <2>2, <2>4, <3>1 DEF mid
      <4> QED
        BY <1>0, <3>1, <4>1, SetStateIs
    <3>3. OthersLike(g, h, p)
      <4>1. Like(g[old], h[old])
        BY <2>1, <3>1, <3>2, MarkLike
      <4>2. \A q \in Peers \ {p, old} : h[q] = g[q]
        BY <1>1, <3>1, <3>2
      <4> QED
        BY <4>1, <4>2 DEF OthersLike, Like
    <3>4. \A q \in Peers \ {p, old} : Stage(h, q) = Stage(g, q)
      BY <1>1, <3>1, <3>2
    <3>5. Stage(h, old) = "CANDIDATE_READY" /\ Stage(h, p) = "CANDIDATE_BEST"
      BY <2>1, <3>1, <3>2
    <3>6. \A q \in Peers \ {p} : Stage(h, q) \notin Selected
      BY <2>1, <3>4, <3>5 DEF Sane, Selected
    <3>7. \A q \in Peers : Stage(h, q) = "CANDIDATE_READY" => Better(tx, p, q)
      <4>1. \A q \in Peers : Stage(g, q) = "CANDIDATE_READY" => Better(tx, old, q)
        BY <2>1 DEF Sane
      <4> QED
        BY <2>1, <2>4, <3>4, <3>5, <4>1, Priorities
    <3>8. Sane(tx, h)
      BY <1>0, <3>5, <3>6, <3>7 DEF Sane, Selected
    <3>9. h[p].time = g[p].time
      BY <3>2
    <3> QED
      BY <3>2, <3>3, <3>8, <3>9 DEF h
  <2> QED
    BY <2>3, <2>4
<1>7. CASE ~better /\ best = {} /\ requested
  <2>1. h = ready
    BY <1>3, <1>7 DEF PromoteCandidateReady, ready
  <2> QED
    BY <1>1, <1>2, <1>4, <1>7, <2>1 DEF OthersLike, Like
<1>8. CASE ~better /\ best = {} /\ ~requested
  <2>1. h = SetState(ready, p, "CANDIDATE_BEST")
    BY <1>3, <1>8 DEF PromoteCandidateReady, ready
  <2> HIDE DEF h
  <2>2. /\ h \in Groups /\ h[p] = [state |-> "CANDIDATE_BEST", time |-> g[p].time]
        /\ \A q \in Peers \ {p} : h[q] = g[q] /\ Stage(h, q) = Stage(g, q)
        /\ Stage(h, p) = "CANDIDATE_BEST"
    BY <1>0, <1>1, <1>2, <2>1, SetStateIs
  <2>3. \A q \in Peers : Stage(g, q) \notin Selected /\ Stage(g, q) # "CANDIDATE_READY"
    BY <1>8 DEF Sane, Selected
  <2>4. Sane(tx, h)
    BY <1>0, <2>2, <2>3 DEF Sane, Selected
  <2>5. OthersLike(g, h, p) /\ h[p].time = g[p].time
    BY <2>2 DEF OthersLike, Like
  <2> QED
    BY <2>2, <2>4, <2>5 DEF h
<1> QED
  BY <1>5, <1>6, <1>7, <1>8

(* ChangeAndReselect: when it was the selected one, the best READY one is  *)
(* in its place.                                                           *)
LEMMA ReselectIs ==
    ASSUME NEW tx \in Txs, NEW g \in Groups, Sane(tx, g),
           NEW p \in Peers, Stage(g, p) \in Live,
           NEW s \in {"COMPLETED", "CANDIDATE_DELAYED"},
           s = "COMPLETED" => \E q \in Peers \ {p} : Stage(g, q) \in Live
    PROVE  /\ ChangeAndReselect(tx, g, p, s) \in Groups
           /\ Sane(tx, ChangeAndReselect(tx, g, p, s))
           /\ ChangeAndReselect(tx, g, p, s)[p] =
                 IF s = "COMPLETED" THEN Completed ELSE [state |-> s, time |-> g[p].time]
           /\ Stage(ChangeAndReselect(tx, g, p, s), p) = s
           /\ OthersLike(g, ChangeAndReselect(tx, g, p, s), p)
<1> DEFINE R == In(g, {"CANDIDATE_READY"})
           up == IF IsSelected(g, p) THEN Top(tx, R) ELSE {}
           m == [q \in Peers |-> IF q \in up THEN [g[q] EXCEPT !.state = "CANDIDATE_BEST"] ELSE g[q]]
           h == ChangeAndReselect(tx, g, p, s)
<1>0. /\ {"CANDIDATE_READY", "CANDIDATE_BEST", "CANDIDATE_DELAYED", "REQUESTED"} \subseteq Live
      /\ Live \subseteq States /\ "COMPLETED" \notin Live /\ s \in States
  BY DEF Live, States, Candidates
<1>1. /\ \A q \in Peers : q \in R <=> Stage(g, q) = "CANDIDATE_READY"
      /\ R \in SUBSET Peers
      /\ IsSelected(g, p) <=> Stage(g, p) \in Selected
  BY <1>0, Stages DEF In, IsSelected, Selected
<1>2. h = SetState(m, p, s)
  BY DEF ChangeAndReselect
<1> HIDE DEF h
<1>3. /\ up \subseteq R
      /\ \A q \in up : \A r \in R \ {q} : Better(tx, q, r)
      /\ \A q, r \in up : q = r
      /\ up # {} => Stage(g, p) \in Selected
      /\ Stage(g, p) \in Selected /\ R # {} => up # {}
  <2>1. R # {} => \E t \in R : Top(tx, R) = {t} /\ \A q \in R \ {t} : Better(tx, t, q)
    BY <1>1, TopIs
  <2>2. R = {} => Top(tx, R) = {}
    BY DEF Top
  <2> HIDE DEF R
  <2> QED
    BY <1>1, <2>1, <2>2
<1>4. p \notin up
  BY <1>1, <1>3 DEF Selected
<1> HIDE DEF R, up
<1>5. /\ \A q \in up : /\ m[q] = [state |-> "CANDIDATE_BEST", time |-> g[q].time]
                        /\ m[q] \in Known /\ m[q].state = "CANDIDATE_BEST"
      /\ \A q \in Peers \ up : m[q] = g[q]
  <2>1. ASSUME NEW q \in up
        PROVE  /\ m[q] = [state |-> "CANDIDATE_BEST", time |-> g[q].time]
               /\ m[q] \in Known /\ m[q].state = "CANDIDATE_BEST"
    <3>1. q \in Peers /\ g[q] \in Known /\ g[q].state # "COMPLETED"
      BY <1>1, <1>3, Stages
    <3>2. g[q].time \in Int
      BY <3>1, Parts
    <3>3. m[q] = [state |-> "CANDIDATE_BEST", time |-> g[q].time]
      BY <1>0, <3>1, Parts
    <3> HIDE DEF m
    <3> QED
      BY <1>0, <3>2, <3>3, Parts
  <2> QED
    BY <2>1
<1>6. m \in Groups
  <2>1. \A q \in Peers : m[q] \in Known \cup {none}
    BY <1>5, Stages
  <2> QED
    BY <2>1 DEF Groups
<1> HIDE DEF m
<1>7. /\ \A q \in up : Stage(m, q) = "CANDIDATE_BEST"
      /\ \A q \in Peers \ up : Stage(m, q) = Stage(g, q)
  <2>1. ASSUME NEW q \in up PROVE Stage(m, q) = "CANDIDATE_BEST"
    <3>1. m[q] # none /\ m[q].state = "CANDIDATE_BEST"
      BY <1>5, Parts
    <3> QED
      BY <3>1 DEF Stage
  <2> QED
    BY <1>5, <2>1 DEF Stage
<1>8. /\ h \in Groups /\ Stage(h, p) = s
      /\ h[p] = IF s = "COMPLETED" THEN Completed ELSE [state |-> s, time |-> g[p].time]
      /\ \A q \in Peers \ {p} : h[q] = m[q] /\ Stage(h, q) = Stage(m, q)
  <2>1. Stage(m, p) \in Live /\ m[p] = g[p]
    BY <1>4, <1>5, <1>7
  <2> QED
    BY <1>0, <1>2, <1>6, <2>1, SetStateIs
<1>9. OthersLike(g, h, p)
  <2>1. ASSUME NEW q \in up PROVE Like(g[q], h[q])
    <3>1. q \in Peers /\ q # p /\ Stage(g, q) = "CANDIDATE_READY"
      BY <1>1, <1>3, <1>4
    <3>2. h[q] = [state |-> "CANDIDATE_BEST", time |-> g[q].time]
      BY <1>5, <1>8, <3>1
    <3> QED
      BY <3>1, <3>2, MarkLike
  <2>2. \A q \in Peers \ {p} : q \notin up => h[q] = g[q]
    BY <1>5, <1>8
  <2> QED
    BY <2>1, <2>2 DEF OthersLike, Like
<1>10. /\ Stage(h, p) = s
       /\ \A q \in up : q # p /\ Stage(h, q) = "CANDIDATE_BEST" /\ q \in Peers
       /\ \A q \in Peers \ {p} : q \notin up => Stage(h, q) = Stage(g, q)
       /\ \A q \in up : Stage(g, q) = "CANDIDATE_READY"
  BY <1>1, <1>3, <1>4, <1>7, <1>8
<1>11. CASE up = {}
  <2>1. \A q \in Peers \ {p} : Stage(h, q) = Stage(g, q)
    BY <1>10, <1>11
  <2>2. ASSUME Stage(g, p) \in Selected PROVE Sane(tx, h)
    <3>1. \A q \in Peers \ {p} : Stage(g, q) \notin Selected /\ Stage(g, q) # "CANDIDATE_READY"
      BY <1>1, <1>3, <1>11, <2>2 DEF Sane
    <3> QED
      BY <1>0, <1>10, <2>1, <3>1 DEF Sane, Selected
  <2>3. ASSUME Stage(g, p) \notin Selected PROVE Sane(tx, h)
    <3>1. (\E q \in Peers : Stage(g, q) \in Selected) => (\E q \in Peers \ {p} : Stage(h, q) \in Selected)
      BY <2>1, <2>3
    <3>2. \A q \in Peers : Stage(h, q) = "COMPLETED" => \E r \in Peers : Stage(h, r) \in Live
      <4>1. CASE s = "COMPLETED"
        BY <2>1, <4>1
      <4>2. CASE s = "CANDIDATE_DELAYED"
        BY <1>0, <1>10, <4>2
      <4> QED
        BY <4>1, <4>2
    <3> QED
      BY <1>0, <1>10, <2>1, <2>3, <3>1, <3>2 DEF Sane, Selected
  <2> QED
    BY <2>2, <2>3, <1>8, <1>9 DEF h
<1>12. CASE up # {}
  <2>1. PICK t : t \in up
    BY <1>12
  <2>2. up = {t} /\ t \in Peers /\ t # p /\ Stage(h, t) = "CANDIDATE_BEST" /\ Stage(g, p) \in Selected
    BY <1>3, <1>10, <2>1
  <2>3. \A q \in Peers \ {p, t} : Stage(h, q) = Stage(g, q) /\ Stage(g, q) \notin Selected
    BY <1>10, <2>2 DEF Sane
  <2>4. \A q \in Peers : Stage(h, q) = "CANDIDATE_READY" => Better(tx, t, q)
    BY <1>1, <1>3, <1>10, <2>2, <2>3
  <2>5. Sane(tx, h)
    BY <1>0, <1>10, <2>2, <2>3, <2>4 DEF Sane, Selected
  <2> QED
    BY <1>8, <1>9, <2>5 DEF h
<1> QED
  BY <1>11, <1>12

(* The effect of MakeCompleted: none, when it is COMPLETED already; all    *)
(* are erased, when no other is live; or the others are as they were, but  *)
(* for which one is selected.                                              *)
MakesCompleted(g, h, p) ==
    \/ Stage(g, p) = "COMPLETED" /\ h = g
    \/ Stage(g, p) \in Live /\ h = Nothing /\ \A q \in Peers \ {p} : g[q] \in {none, Completed}
    \/ /\ Stage(g, p) \in Live /\ h[p] = Completed /\ OthersLike(g, h, p)
       /\ \E q \in Peers \ {p} : Stage(g, q) \in Live

(* No announcements. *)
LEMMA NothingIs ==
    /\ Nothing \in Groups /\ \A p \in Peers : Nothing[p] = none /\ Stage(Nothing, p) = "none"
    /\ \A tx \in Txs : Sane(tx, Nothing)
<1>1. Nothing \in Groups /\ \A p \in Peers : Nothing[p] = none
  BY DEF Nothing, Groups
<1>2. \A p \in Peers : Stage(Nothing, p) = "none"
  BY <1>1 DEF Stage
<1> QED
  BY <1>1, <1>2 DEF Sane, Selected

(* MakeCompleted has that effect, and what it leaves is sane. *)
LEMMA MakeCompletedIs ==
    ASSUME NEW tx \in Txs, NEW g \in Groups, Sane(tx, g), NEW p \in Peers, g[p] # none
    PROVE  /\ MakeCompleted(tx, g, p) \in Groups
           /\ Sane(tx, MakeCompleted(tx, g, p))
           /\ MakesCompleted(g, MakeCompleted(tx, g, p), p)
<1>1. g[p] \in Known /\ Stage(g, p) = g[p].state /\ Stage(g, p) \in States
  BY Stages
<1>2. \A q \in Peers : /\ q \in In(g, States \ {"COMPLETED"}) <=> Stage(g, q) \in Live
                       /\ Stage(g, q) \notin Live => g[q] \in {none, Completed}
  <2>1. ASSUME NEW q \in Peers
        PROVE  q \in In(g, States \ {"COMPLETED"}) <=> Stage(g, q) \in Live
    BY Stages DEF Live
  <2>2. ASSUME NEW q \in Peers, Stage(g, q) \notin Live PROVE g[q] \in {none, Completed}
    <3>1. CASE g[q] = none
      BY <3>1
    <3>2. CASE g[q] # none
      <4>1. g[q] \in Known /\ g[q].state = Stage(g, q) /\ Stage(g, q) \in States
        BY <3>2, Stages
      <4>2. g[q].state = "COMPLETED"
        BY <2>2, <4>1 DEF Live
      <4> QED
        BY <4>1, <4>2, Parts
    <3> QED
      BY <3>1, <3>2
  <2> QED
    BY <2>1, <2>2
<1>3. CASE Stage(g, p) = "COMPLETED"
  BY <1>1, <1>3 DEF MakeCompleted, MakesCompleted
<1>4. CASE Stage(g, p) \in Live /\ IsOnlyNonCompleted(g, p)
  <2>1. MakeCompleted(tx, g, p) = Nothing
    BY <1>1, <1>4 DEF MakeCompleted, Live
  <2>2. \A q \in Peers \ {p} : g[q] \in {none, Completed}
    BY <1>2, <1>4 DEF IsOnlyNonCompleted
  <2> QED
    BY <1>4, <2>1, <2>2, NothingIs DEF MakesCompleted
<1>5. CASE Stage(g, p) \in Live /\ ~IsOnlyNonCompleted(g, p)
  <2>1. MakeCompleted(tx, g, p) = ChangeAndReselect(tx, g, p, "COMPLETED")
    BY <1>1, <1>5 DEF MakeCompleted, Live
  <2>2. \E q \in Peers \ {p} : Stage(g, q) \in Live
    <3>1. In(g, States \ {"COMPLETED"}) # {p} /\ p \in In(g, States \ {"COMPLETED"})
      BY <1>2, <1>5 DEF IsOnlyNonCompleted
    <3>2. In(g, States \ {"COMPLETED"}) \subseteq Peers
      BY DEF In
    <3> QED
      BY <1>2, <3>1, <3>2
  <2>3. /\ ChangeAndReselect(tx, g, p, "COMPLETED") \in Groups
        /\ Sane(tx, ChangeAndReselect(tx, g, p, "COMPLETED"))
        /\ ChangeAndReselect(tx, g, p, "COMPLETED")[p] = Completed
        /\ OthersLike(g, ChangeAndReselect(tx, g, p, "COMPLETED"), p)
    BY <1>5, <2>2, ReselectIs
  <2> QED
    BY <1>5, <2>1, <2>2, <2>3 DEF MakesCompleted
<1> QED
  BY <1>1, <1>3, <1>4, <1>5 DEF Live

(* ReceivedInv adds an announcement, if there is none. *)
LEMMA ReceivedInvIs ==
    ASSUME NEW tx \in Txs, NEW g \in Groups, Sane(tx, g), NEW p \in Peers, NEW t \in Int
    PROVE  /\ ReceivedInv(g, p, t) \in Groups
           /\ Sane(tx, ReceivedInv(g, p, t))
           /\ ReceivedInv(g, p, t)[p] =
                 IF g[p] = none THEN [state |-> "CANDIDATE_DELAYED", time |-> t] ELSE g[p]
           /\ \A q \in Peers \ {p} : ReceivedInv(g, p, t)[q] = g[q]
<1> DEFINE h == ReceivedInv(g, p, t)
           a == [state |-> "CANDIDATE_DELAYED", time |-> t]
<1>1. CASE g[p] # none
  BY <1>1 DEF ReceivedInv
<1>2. CASE g[p] = none
  <2>1. "CANDIDATE_DELAYED" \in Live
    BY DEF Live, States, Candidates
  <2>2. a \in Known /\ a # none /\ a.state = "CANDIDATE_DELAYED"
    BY <2>1, Parts
  <2>3. h = [g EXCEPT ![p] = a]
    BY <1>2 DEF ReceivedInv
  <2> HIDE DEF a, h
  <2>4. h \in Groups /\ h[p] = a /\ \A q \in Peers \ {p} : h[q] = g[q]
    BY <2>2, <2>3 DEF Groups
  <2>5. Stage(h, p) = "CANDIDATE_DELAYED" /\ \A q \in Peers \ {p} : Stage(h, q) = Stage(g, q)
    BY <2>2, <2>4 DEF Stage
  <2>6. Stage(g, p) = "none"
    BY <1>2 DEF Stage
  <2>7. Sane(tx, h)
    BY <2>1, <2>5, <2>6 DEF Sane, Selected, Live
  <2> QED
    BY <1>2, <2>4, <2>7 DEF a, h
<1> QED
  BY <1>1, <1>2

(* RequestedTx: a candidate is REQUESTED instead of the one that was. *)
Requests(g, h, p, expiry) ==
    \/ Stage(g, p) \notin Candidates /\ h = g
    \/ /\ Stage(g, p) \in Candidates /\ h[p] = [state |-> "REQUESTED", time |-> expiry]
       /\ \A q \in Peers \ {p} : IF Stage(g, q) = "REQUESTED" THEN h[q] = Completed
                                 ELSE Like(g[q], h[q])

(* RequestedTx has that effect, and what it leaves is sane. *)
LEMMA RequestedIs ==
    ASSUME NEW tx \in Txs, NEW g \in Groups, Sane(tx, g), NEW p \in Peers, NEW t \in Int
    PROVE  /\ RequestedTx(g, p, t) \in Groups
           /\ Sane(tx, RequestedTx(g, p, t))
           /\ Requests(g, RequestedTx(g, p, t), p, t)
<1> DEFINE h == RequestedTx(g, p, t)
<1>0. /\ {"CANDIDATE_READY", "CANDIDATE_BEST", "CANDIDATE_DELAYED", "REQUESTED"} \subseteq Live
      /\ Live \subseteq States /\ "COMPLETED" \notin Live /\ Candidates \subseteq Live
      /\ "none" \notin States /\ "REQUESTED" \notin Candidates
  BY DEF Live, States, Candidates
<1>1. \A q \in Peers : /\ g[q] \in Known \cup {none}
                       /\ g[q] # none /\ g[q].state = "CANDIDATE_BEST" <=> Stage(g, q) = "CANDIDATE_BEST"
                       /\ g[q] # none /\ g[q].state = "REQUESTED" <=> Stage(g, q) = "REQUESTED"
                       /\ g[q] = none \/ g[q].state \notin Candidates <=> Stage(g, q) \notin Candidates
  BY <1>0, Stages DEF Stage
<1>2. CASE Stage(g, p) \notin Candidates
  BY <1>1, <1>2 DEF RequestedTx, Requests
<1>3. CASE Stage(g, p) \in Candidates
  <2>1. h = [q \in Peers |->
               CASE q = p -> [state |-> "REQUESTED", time |-> t]
                 [] q # p /\ g[q] # none /\ g[q].state = "CANDIDATE_BEST" ->
                       [g[q] EXCEPT !.state = "CANDIDATE_READY"]
                 [] q # p /\ g[q] # none /\ g[q].state = "REQUESTED" -> Completed
                 [] OTHER -> g[q]]
    BY <1>1, <1>3 DEF RequestedTx
  <2>2. h[p] = [state |-> "REQUESTED", time |-> t]
    BY <2>1
  <2>3. \A q \in Peers \ {p} :
           /\ Stage(g, q) = "CANDIDATE_BEST" => h[q] = [g[q] EXCEPT !.state = "CANDIDATE_READY"]
           /\ Stage(g, q) = "REQUESTED" => h[q] = Completed
           /\ Stage(g, q) \notin Selected => h[q] = g[q]
    BY <1>1, <2>1 DEF Selected
  <2>4. DOMAIN h = Peers /\ h = [q \in Peers |-> h[q]]
    BY <2>1
  <2> HIDE DEF h
  <2>5. ASSUME NEW q \in Peers \ {p}, Stage(g, q) = "CANDIDATE_BEST"
        PROVE  h[q] \in Known /\ Like(g[q], h[q]) /\ Stage(h, q) = "CANDIDATE_READY"
    <3>1. g[q] \in Known /\ g[q].state # "COMPLETED"
      BY <2>5, Stages
    <3>2. g[q].time \in Int
      BY <3>1, Parts
    <3>3. h[q] = [state |-> "CANDIDATE_READY", time |-> g[q].time]
      <4>1. h[q] = [g[q] EXCEPT !.state = "CANDIDATE_READY"]
        BY <2>3, <2>5
      <4>2. "CANDIDATE_READY" \in Live
        BY <1>0
      <4>3. [g[q] EXCEPT !.state = "CANDIDATE_READY"] = [state |-> "CANDIDATE_READY", time |-> g[q].time]
        BY <3>1, <4>2, Parts
      <4> QED
        BY <4>1, <4>3
    <3>4. h[q] \in Known /\ h[q] # none /\ h[q].state = "CANDIDATE_READY"
      BY <1>0, <3>2, <3>3, Parts
    <3> QED
      BY <2>5, <3>3, <3>4, MarkLike DEF Stage
  <2>6. ASSUME NEW q \in Peers \ {p}, Stage(g, q) = "REQUESTED"
        PROVE  h[q] = Completed /\ h[q] \in Known /\ Stage(h, q) = "COMPLETED"
    <3>1. h[q] = Completed
      BY <2>3, <2>6
    <3> QED
      BY <3>1, Parts DEF Stage
  <2>7. ASSUME NEW q \in Peers \ {p}, Stage(g, q) \notin Selected
        PROVE  h[q] = g[q] /\ h[q] \in Known \cup {none} /\ Stage(h, q) = Stage(g, q)
    BY <1>1, <2>3, <2>7 DEF Stage
  <2>8. h[p] \in Known /\ Stage(h, p) = "REQUESTED"
    <3>1. h[p] \in Known /\ h[p] # none /\ h[p].state = "REQUESTED"
      BY <1>0, <2>2, Parts
    <3> QED
      BY <3>1 DEF Stage
  <2>9. h \in Groups
    <3>1. \A q \in Peers : h[q] \in Known \cup {none}
      BY <2>5, <2>6, <2>7, <2>8 DEF Selected
    <3> QED
      BY <2>4, <3>1 DEF Groups
  <2>10. \A q \in Peers \ {p} : Stage(h, q) \notin Selected
    BY <2>5, <2>6, <2>7 DEF Selected
  <2>11. Sane(tx, h)
    BY <1>0, <2>8, <2>10 DEF Sane, Selected
  <2>12. \A q \in Peers \ {p} : IF Stage(g, q) = "REQUESTED" THEN h[q] = Completed
                                ELSE Like(g[q], h[q])
    BY <2>5, <2>6, <2>7 DEF Selected, Like
  <2> QED
    BY <1>3, <2>2, <2>9, <2>11, <2>12 DEF Requests, h
<1> QED
  BY <1>2, <1>3

(* DisconnectedPeer: as MakeCompleted, and its announcement is erased. *)
Disconnects(g, h, p) ==
    \/ g[p] = none /\ h = g
    \/ Stage(g, p) = "COMPLETED" /\ h = [g EXCEPT ![p] = none]
    \/ Stage(g, p) \in Live /\ h = Nothing /\ \A q \in Peers \ {p} : g[q] \in {none, Completed}
    \/ /\ Stage(g, p) \in Live /\ h[p] = none /\ OthersLike(g, h, p)
       /\ \E q \in Peers \ {p} : Stage(g, q) \in Live

(* DisconnectedPeer has that effect, and what it leaves is sane. *)
LEMMA DisconnectedIs ==
    ASSUME NEW tx \in Txs, NEW g \in Groups, Sane(tx, g), NEW p \in Peers
    PROVE  /\ DisconnectedPeer(tx, g, p) \in Groups
           /\ Sane(tx, DisconnectedPeer(tx, g, p))
           /\ Disconnects(g, DisconnectedPeer(tx, g, p), p)
<1>1. CASE g[p] = none
  BY <1>1 DEF DisconnectedPeer, Disconnects
<1>2. CASE g[p] # none
  <2> DEFINE m == MakeCompleted(tx, g, p)
             h == [m EXCEPT ![p] = none]
  <2>1. m \in Groups /\ Sane(tx, m) /\ MakesCompleted(g, m, p)
    BY <1>2, MakeCompletedIs
  <2>2. DisconnectedPeer(tx, g, p) = h
    BY <1>2 DEF DisconnectedPeer
  <2> HIDE DEF m
  <2>3. h \in Groups /\ h[p] = none /\ \A q \in Peers \ {p} : h[q] = m[q]
    BY <2>1 DEF Groups
  <2>4. Stage(h, p) = "none" /\ \A q \in Peers \ {p} : Stage(h, q) = Stage(m, q)
    BY <2>3 DEF Stage
  <2>5. m # Nothing => Stage(m, p) = "COMPLETED"
    BY <2>1, Parts DEF MakesCompleted, Stage
  <2>6. Sane(tx, h)
    <3>1. CASE m = Nothing
      <4>1. \A q \in Peers : Stage(h, q) = "none"
        BY <2>4, <3>1, NothingIs
      <4> QED
        BY <4>1 DEF Sane, Selected
    <3>2. CASE Stage(m, p) = "COMPLETED"
      BY <2>1, <2>4, <3>2 DEF Sane, Selected, Live
    <3> QED
      BY <2>5, <3>1, <3>2
  <2>7. Disconnects(g, h, p)
    <3>1. CASE Stage(g, p) = "COMPLETED" /\ m = g
      BY <3>1 DEF Disconnects
    <3>2. CASE Stage(g, p) \in Live /\ m = Nothing /\ \A q \in Peers \ {p} : g[q] \in {none, Completed}
      <4>1. h = Nothing
        BY <3>2 DEF Nothing
      <4> QED
        BY <3>2, <4>1 DEF Disconnects
    <3>3. CASE /\ Stage(g, p) \in Live /\ m[p] = Completed /\ OthersLike(g, m, p)
               /\ \E q \in Peers \ {p} : Stage(g, q) \in Live
      <4>1. OthersLike(g, h, p)
        BY <2>3, <3>3 DEF OthersLike
      <4> HIDE DEF h
      <4> QED
        BY <2>3, <3>3, <4>1 DEF Disconnects
    <3> QED
      BY <2>1, <3>1, <3>2, <3>3 DEF MakesCompleted
  <2> QED
    BY <2>2, <2>3, <2>6, <2>7
<1> QED
  BY <1>1, <1>2

-----------------------------------------------------------------------------
(* SetTimePoint: the announcements whose time has come, or, backwards,     *)
(* those whose time has not come yet, one after the other.                 *)
Moved(back, tx, g, p) ==
    IF back THEN ChangeAndReselect(tx, g, p, "CANDIDATE_DELAYED") ELSE Arrive(tx, g, p)
AllMoved(back, tx, g, s) == IF back THEN AllDelayed(tx, g, s) ELSE AllArrive(tx, g, s)
MovedSolves(h, back, tx, g, s, n) ==
    h = [t \in SUBSET (1..n) |->
           IF t = {} THEN g ELSE Moved(back, tx, h[t \ {Max(t)}], s[Max(t)])]
ArriveSolves(h, tx, g, s, n) ==
    h = [t \in SUBSET (1..n) |-> IF t = {} THEN g ELSE Arrive(tx, h[t \ {Max(t)}], s[Max(t)])]
DelayedSolves(h, tx, g, s, n) ==
    h = [t \in SUBSET (1..n) |->
           IF t = {} THEN g
           ELSE ChangeAndReselect(tx, h[t \ {Max(t)}], s[Max(t)], "CANDIDATE_DELAYED")]

(* The recursion has a solution. *)
LEMMA MovedSolution ==
    ASSUME NEW back \in BOOLEAN, NEW tx, NEW g, NEW s, NEW n \in Nat
    PROVE  \E h : MovedSolves(h, back, tx, g, s, n)
<1> DEFINE T == {k \in Nat : \E h : MovedSolves(h, back, tx, g, s, k)}
<1>1. 0 \in T
  <2> DEFINE h == [t \in SUBSET (1..0) |-> g]
  <2>1. \A t \in SUBSET (1..0) : t = {}
    OBVIOUS
  <2>2. MovedSolves(h, back, tx, g, s, 0)
    BY <2>1 DEF MovedSolves
  <2> QED
    BY <2>2
<1>2. ASSUME NEW k \in Nat \ {0}, k - 1 \in T PROVE k \in T
  <2>1. PICK h : MovedSolves(h, back, tx, g, s, k - 1)
    BY <1>2
  <2>2. /\ h[{}] = g
        /\ \A t \in SUBSET (1..(k - 1)) : t # {} => h[t] = Moved(back, tx, h[t \ {Max(t)}], s[Max(t)])
    BY <2>1 DEF MovedSolves
  <2> DEFINE f == [t \in SUBSET (1..k) |->
                     IF k \in t THEN Moved(back, tx, h[t \ {k}], s[k]) ELSE h[t]]
  <2>3. f[{}] = g
    BY <2>2
  <2>4. ASSUME NEW t \in SUBSET (1..k), t # {}
        PROVE  f[t] = Moved(back, tx, f[t \ {Max(t)}], s[Max(t)])
    <3>1. CASE k \in t
      <4>1. Max(t) = k
        BY <3>1, MaxIsBound
      <4>2. t \ {k} \in SUBSET (1..k) /\ k \notin t \ {k}
        OBVIOUS
      <4>3. f[t] = Moved(back, tx, h[t \ {k}], s[k]) /\ f[t \ {k}] = h[t \ {k}]
        BY <3>1, <4>2
      <4> QED
        BY <4>1, <4>3
    <3>2. CASE k \notin t
      <4>1. t \in SUBSET (1..(k - 1))
        BY <3>2
      <4>2. h[t] = Moved(back, tx, h[t \ {Max(t)}], s[Max(t)])
        BY <2>2, <2>4, <4>1
      <4>3. t \ {Max(t)} \in SUBSET (1..k) /\ k \notin t \ {Max(t)}
        BY <3>2
      <4>4. f[t] = h[t] /\ f[t \ {Max(t)}] = h[t \ {Max(t)}]
        BY <3>2, <4>3
      <4> QED
        BY <4>2, <4>4
    <3> QED
      BY <3>1, <3>2
  <2>5. f = [t \in SUBSET (1..k) |-> f[t]]
    OBVIOUS
  <2> HIDE DEF f
  <2>6. MovedSolves(f, back, tx, g, s, k)
    BY <2>3, <2>4, <2>5 DEF MovedSolves
  <2> QED
    BY <2>6
<1> HIDE DEF T
<1>3. n \in T
  BY <1>1, <1>2, InductiveSet
<1> QED
  BY <1>3 DEF T

(* The announcements after each of them. *)
MoveRun(run, back, tx, g, s, n) ==
    /\ run[0] = g /\ run[n] = AllMoved(back, tx, g, s)
    /\ \A i \in 1..n : run[i] = Moved(back, tx, run[i - 1], s[i])

(* The loops of SetTimePoint run one announcement after the other. *)
LEMMA MoveRuns ==
    ASSUME NEW back \in BOOLEAN, NEW tx, NEW g, NEW s, NEW n \in Nat, DOMAIN s = 1..n
    PROVE  \E run : MoveRun(run, back, tx, g, s, n)
<1>1. \E h : MovedSolves(h, back, tx, g, s, n) /\ h[1..n] = AllMoved(back, tx, g, s)
  <2>1. CASE back
    <3> DEFINE iter == CHOOSE h : DelayedSolves(h, tx, g, s, n)
    <3>1. \A h : DelayedSolves(h, tx, g, s, n) <=> MovedSolves(h, back, tx, g, s, n)
      BY <2>1 DEF DelayedSolves, MovedSolves, Moved
    <3>2. DelayedSolves(iter, tx, g, s, n)
      BY <3>1, MovedSolution
    <3>3. AllDelayed(tx, g, s) = iter[1..n]
      BY DEF AllDelayed, FoldLeft, MapThenFoldSet, DelayedSolves
    <3> HIDE DEF iter
    <3> QED
      BY <2>1, <3>1, <3>2, <3>3 DEF AllMoved
  <2>2. CASE ~back
    <3> DEFINE iter == CHOOSE h : ArriveSolves(h, tx, g, s, n)
    <3>1. \A h : ArriveSolves(h, tx, g, s, n) <=> MovedSolves(h, back, tx, g, s, n)
      BY <2>2 DEF ArriveSolves, MovedSolves, Moved
    <3>2. ArriveSolves(iter, tx, g, s, n)
      BY <3>1, MovedSolution
    <3>3. AllArrive(tx, g, s) = iter[1..n]
      BY DEF AllArrive, FoldLeft, MapThenFoldSet, ArriveSolves
    <3> HIDE DEF iter
    <3> QED
      BY <2>2, <3>1, <3>2, <3>3 DEF AllMoved
  <2> QED
    BY <2>1, <2>2
<1>2. PICK h : MovedSolves(h, back, tx, g, s, n) /\ h[1..n] = AllMoved(back, tx, g, s)
  BY <1>1
<1>3. /\ h[{}] = g
      /\ \A t \in SUBSET (1..n) : t # {} => h[t] = Moved(back, tx, h[t \ {Max(t)}], s[Max(t)])
  BY <1>2 DEF MovedSolves
<1> DEFINE run == [i \in 0..n |-> h[1..i]]
<1>4. run[0] = g /\ run[n] = AllMoved(back, tx, g, s)
  <2>1. 1..0 = {} /\ 0 \in 0..n /\ n \in 0..n
    OBVIOUS
  <2> QED
    BY <1>2, <1>3, <2>1
<1>5. ASSUME NEW i \in 1..n PROVE run[i] = Moved(back, tx, run[i - 1], s[i])
  <2>1. /\ 1..i \in SUBSET (1..n) /\ 1..i # {} /\ Max(1..i) = i
        /\ (1..i) \ {i} = 1..(i - 1)
    BY Positions
  <2>2. i \in 0..n /\ i - 1 \in 0..n
    OBVIOUS
  <2>3. h[1..i] = Moved(back, tx, h[1..(i - 1)], s[i])
    BY <1>3, <2>1
  <2> QED
    BY <2>2, <2>3
<1> HIDE DEF run
<1>6. MoveRun(run, back, tx, g, s, n)
  BY <1>4, <1>5 DEF MoveRun
<1> QED
  BY <1>6

(* Any order of some peers has each of them once. *)
LEMMA Orders ==
    ASSUME NEW S \in SUBSET Peers, NEW s \in SetToSeqs(S)
    PROVE  \E n \in Nat : /\ DOMAIN s = 1..n /\ S = {s[j] : j \in 1..n}
                          /\ \A i, j \in 1..n : i # j => s[i] # s[j]
<1> DEFINE n == Cardinality(S)
<1>1. IsFiniteSet(S) /\ n \in Nat
  BY TrackerAssumption, FS_Subset, FS_CardinalityType
<1>2. s \in [1..n -> S] /\ \A i, j \in 1..n : i # j => s[i] # s[j]
  BY DEF SetToSeqs
<1> HIDE DEF n
<1>3. IsFiniteSet(1..n) /\ Cardinality(1..n) = n
  BY <1>1, FS_Interval
<1>4. s \in Injection(1..n, S)
  BY <1>2 DEF Injection, IsInjective
<1>5. s \in Surjection(1..n, S)
  BY <1>1, <1>3, <1>4, FS_Injection DEF n
<1>6. \A q \in S : \E j \in 1..n : s[j] = q
  BY <1>5 DEF Surjection
<1>7. S = {s[j] : j \in 1..n}
  BY <1>2, <1>6
<1>8. DOMAIN s = 1..n
  BY <1>2
<1> QED
  BY <1>1, <1>2, <1>7, <1>8

(* Like is an equivalence, and keeps what waits, is COMPLETED or is none. *)
LEMMA LikeIs ==
    ASSUME NEW a, NEW b, Like(a, b)
    PROVE  /\ Like(b, a)
           /\ \A c : Like(b, c) => Like(a, c)
           /\ b \in Known /\ b.state \notin {"CANDIDATE_READY", "CANDIDATE_BEST"} => a = b
           /\ a \in Known /\ a.state \notin {"CANDIDATE_READY", "CANDIDATE_BEST"} => a = b
           /\ a = none \/ b = none => a = b
           /\ a = Completed \/ b = Completed => a = b
<1>1. none \notin Known /\ Completed \in Known /\ Completed.state = "COMPLETED"
  BY Parts
<1> QED
  BY <1>1 DEF Like

(* After the announcements of M, all of them waiting, have arrived: what   *)
(* was delayed may be asked for, what was requested is COMPLETED; or all   *)
(* are erased because nothing else was live.                               *)
Arrived(g, h, M) ==
    \/ \A q \in Peers :
          /\ q \notin M => Like(g[q], h[q])
          /\ q \in M /\ Stage(g, q) = "CANDIDATE_DELAYED" =>
                /\ Stage(h, q) \in {"CANDIDATE_READY", "CANDIDATE_BEST"}
                /\ h[q].time = g[q].time
          /\ q \in M /\ Stage(g, q) = "REQUESTED" => h[q] = Completed
    \/ /\ h = Nothing
       /\ \A q \in Peers : g[q] \in {none, Completed} \/ (q \in M /\ Stage(g, q) = "REQUESTED")

(* One announcement whose time has come. *)
LEMMA ArriveIs ==
    ASSUME NEW tx \in Txs, NEW g \in Groups, NEW h \in Groups, Sane(tx, h),
           NEW M \in SUBSET Peers, Arrived(g, h, M),
           \A q \in M : Stage(g, q) \in {"CANDIDATE_DELAYED", "REQUESTED"},
           NEW p \in Peers, p \notin M, Stage(g, p) \in {"CANDIDATE_DELAYED", "REQUESTED"}
    PROVE  /\ Arrive(tx, h, p) \in Groups
           /\ Sane(tx, Arrive(tx, h, p))
           /\ Arrived(g, Arrive(tx, h, p), M \cup {p})
<1> DEFINE k == Arrive(tx, h, p)
<1>1. g[p] \in Known /\ g[p] # none /\ g[p].state = Stage(g, p) /\ g[p] # Completed
  BY Stages, Parts
<1>2. /\ \A q \in Peers \ M : Like(g[q], h[q])
      /\ \A q \in M : /\ Stage(g, q) = "CANDIDATE_DELAYED" =>
                            /\ Stage(h, q) \in {"CANDIDATE_READY", "CANDIDATE_BEST"}
                            /\ h[q].time = g[q].time
                      /\ Stage(g, q) = "REQUESTED" => h[q] = Completed
  BY <1>1 DEF Arrived
<1>3. h[p] = g[p] /\ Stage(h, p) = Stage(g, p)
  <2>1. h[p] = g[p]
    BY <1>1, <1>2, LikeIs
  <2> QED
    BY <2>1 DEF Stage
<1>4. CASE Stage(g, p) = "CANDIDATE_DELAYED"
  <2>1. k = PromoteCandidateReady(tx, h, p)
    BY <1>1, <1>3, <1>4 DEF Arrive
  <2>2. /\ k \in Groups /\ Sane(tx, k) /\ OthersLike(h, k, p)
        /\ Stage(k, p) \in {"CANDIDATE_READY", "CANDIDATE_BEST"} /\ k[p].time = g[p].time
    BY <1>3, <1>4, <2>1, PromoteIs
  <2> HIDE DEF k
  <2>3. \A q \in Peers \ (M \cup {p}) : Like(g[q], k[q])
    BY <1>2, <2>2, LikeIs DEF OthersLike
  <2>4. ASSUME NEW q \in M, Stage(g, q) = "CANDIDATE_DELAYED"
        PROVE  Stage(k, q) \in {"CANDIDATE_READY", "CANDIDATE_BEST"} /\ k[q].time = g[q].time
    <3>1. /\ Stage(h, q) \in {"CANDIDATE_READY", "CANDIDATE_BEST"} /\ h[q].time = g[q].time
          /\ Like(h[q], k[q]) /\ q \in Peers
      BY <1>2, <2>2, <2>4 DEF OthersLike
    <3>2. h[q] # none /\ h[q] \in Known /\ h[q].state = Stage(h, q)
      BY <3>1, Stages
    <3>3. k[q] # none /\ k[q].state \in {"CANDIDATE_READY", "CANDIDATE_BEST"} /\ k[q].time = h[q].time
      BY <3>1, <3>2, Parts DEF Like
    <3> QED
      BY <3>1, <3>3 DEF Stage
  <2>5. ASSUME NEW q \in M, Stage(g, q) = "REQUESTED" PROVE k[q] = Completed
    <3>1. h[q] = Completed /\ Like(h[q], k[q])
      BY <1>2, <2>2, <2>5 DEF OthersLike
    <3> QED
      BY <3>1, LikeIs
  <2>6. Arrived(g, k, M \cup {p})
    BY <1>4, <2>2, <2>3, <2>4, <2>5 DEF Arrived
  <2> QED
    BY <2>2, <2>6 DEF k
<1>5. CASE Stage(g, p) = "REQUESTED"
  <2>1. k = MakeCompleted(tx, h, p)
    BY <1>1, <1>3, <1>5 DEF Arrive
  <2>2. k \in Groups /\ Sane(tx, k) /\ MakesCompleted(h, k, p)
    BY <1>1, <1>3, <2>1, MakeCompletedIs
  <2> HIDE DEF k
  <2>3. CASE k = Nothing /\ \A q \in Peers \ {p} : h[q] \in {none, Completed}
    <3>1. ASSUME NEW q \in Peers \ (M \cup {p}) PROVE g[q] \in {none, Completed}
      <4>1. Like(g[q], h[q]) /\ h[q] \in {none, Completed}
        BY <1>2, <2>3
      <4> QED
        BY <4>1, LikeIs
    <3>2. ASSUME NEW q \in M PROVE Stage(g, q) = "REQUESTED"
      <4>1. q \in Peers \ {p} /\ h[q] \in {none, Completed}
        BY <2>3
      <4>2. Stage(h, q) \in {"none", "COMPLETED"}
        BY <4>1, Parts DEF Stage
      <4> QED
        BY <1>2, <4>1, <4>2
    <3>3. Arrived(g, k, M \cup {p})
      BY <1>5, <2>3, <3>1, <3>2 DEF Arrived
    <3> QED
      BY <2>2, <3>3 DEF k
  <2>4. CASE k[p] = Completed /\ OthersLike(h, k, p)
    <3>1. \A q \in Peers \ (M \cup {p}) : Like(g[q], k[q])
      BY <1>2, <2>4, LikeIs DEF OthersLike
    <3>2. ASSUME NEW q \in M, Stage(g, q) = "CANDIDATE_DELAYED"
          PROVE  Stage(k, q) \in {"CANDIDATE_READY", "CANDIDATE_BEST"} /\ k[q].time = g[q].time
      <4>1. /\ Stage(h, q) \in {"CANDIDATE_READY", "CANDIDATE_BEST"} /\ h[q].time = g[q].time
            /\ Like(h[q], k[q]) /\ q \in Peers
        BY <1>2, <2>4, <3>2 DEF OthersLike
      <4>2. h[q] # none /\ h[q] \in Known /\ h[q].state = Stage(h, q)
        BY <4>1, Stages
      <4>3. k[q] # none /\ k[q].state \in {"CANDIDATE_READY", "CANDIDATE_BEST"} /\ k[q].time = h[q].time
        BY <4>1, <4>2, Parts DEF Like
      <4> QED
        BY <4>1, <4>3 DEF Stage
    <3>3. ASSUME NEW q \in M, Stage(g, q) = "REQUESTED" PROVE k[q] = Completed
      <4>1. h[q] = Completed /\ Like(h[q], k[q])
        BY <1>2, <2>4, <3>3 DEF OthersLike
      <4> QED
        BY <4>1, LikeIs
    <3>4. Arrived(g, k, M \cup {p})
      BY <1>5, <2>4, <3>1, <3>2, <3>3 DEF Arrived
    <3> QED
      BY <2>2, <3>4 DEF k
  <2> QED
    BY <1>3, <1>5, <2>2, <2>3, <2>4 DEF MakesCompleted
<1> QED
  BY <1>4, <1>5

(* The clock has gone back: the announcements of M are delayed again. *)
Delayed(g, h, M) ==
    \A q \in Peers :
        /\ q \notin M => Like(g[q], h[q])
        /\ q \in M => h[q] = [state |-> "CANDIDATE_DELAYED", time |-> g[q].time]

(* One announcement that is delayed again. *)
LEMMA DelayIs ==
    ASSUME NEW tx \in Txs, NEW g \in Groups, NEW h \in Groups, Sane(tx, h),
           NEW M \in SUBSET Peers, Delayed(g, h, M),
           NEW p \in Peers, p \notin M, Stage(g, p) \in {"CANDIDATE_READY", "CANDIDATE_BEST"}
    PROVE  /\ ChangeAndReselect(tx, h, p, "CANDIDATE_DELAYED") \in Groups
           /\ Sane(tx, ChangeAndReselect(tx, h, p, "CANDIDATE_DELAYED"))
           /\ Delayed(g, ChangeAndReselect(tx, h, p, "CANDIDATE_DELAYED"), M \cup {p})
<1> DEFINE k == ChangeAndReselect(tx, h, p, "CANDIDATE_DELAYED")
<1>1. Stage(h, p) \in Live /\ h[p].time = g[p].time
  <2>1. g[p] # none /\ g[p] \in Known /\ g[p].state = Stage(g, p) /\ Like(g[p], h[p])
    BY Stages DEF Delayed
  <2>2. h[p] # none /\ h[p].state \in {"CANDIDATE_READY", "CANDIDATE_BEST"} /\ h[p].time = g[p].time
    BY <2>1, Parts DEF Like
  <2> QED
    BY <2>2 DEF Stage, Live, States, Candidates
<1>2. /\ k \in Groups /\ Sane(tx, k) /\ OthersLike(h, k, p)
      /\ k[p] = [state |-> "CANDIDATE_DELAYED", time |-> g[p].time]
  BY <1>1, ReselectIs
<1> HIDE DEF k
<1>3. \A q \in Peers \ (M \cup {p}) : Like(g[q], k[q])
  <2>1. \A q \in Peers \ (M \cup {p}) : Like(g[q], h[q]) /\ Like(h[q], k[q])
    BY <1>2 DEF Delayed, OthersLike
  <2> QED
    BY <2>1, LikeIs
<1>4. ASSUME NEW q \in M PROVE k[q] = [state |-> "CANDIDATE_DELAYED", time |-> g[q].time]
  <2>1. q \in Peers \ {p} /\ h[q] = [state |-> "CANDIDATE_DELAYED", time |-> g[q].time]
    BY DEF Delayed
  <2>2. Like(h[q], k[q]) /\ h[q] \in Known \cup {none} /\ h[q].state = "CANDIDATE_DELAYED"
    BY <1>2, <2>1, Stages DEF OthersLike
  <2>3. k[q] = h[q]
    BY <2>2, LikeIs
  <2> QED
    BY <2>1, <2>3
<1>5. Delayed(g, k, M \cup {p})
  BY <1>2, <1>3, <1>4 DEF Delayed
<1> QED
  BY <1>2, <1>5 DEF k

(* The first i peers of an order. *)
FirstOf(s, i) == {s[j] : j \in 1..i}

(* The first announcements, one by one. *)
LEMMA FirstIs ==
    ASSUME NEW n \in Nat, NEW s, \A i, j \in 1..n : i # j => s[i] # s[j], NEW i \in 1..n
    PROVE  /\ FirstOf(s, i) = FirstOf(s, i - 1) \cup {s[i]} /\ s[i] \notin FirstOf(s, i - 1)
           /\ FirstOf(s, i - 1) \subseteq FirstOf(s, n) /\ s[i] \in FirstOf(s, n)
<1>1. 1..i = (1..(i - 1)) \cup {i} /\ 1..(i - 1) \subseteq 1..n /\ \A j \in 1..(i - 1) : j # i
  OBVIOUS
<1>2. FirstOf(s, i) = FirstOf(s, i - 1) \cup {s[i]}
  BY <1>1 DEF FirstOf
<1>3. s[i] \notin FirstOf(s, i - 1)
  BY <1>1 DEF FirstOf
<1> QED
  BY <1>1, <1>2, <1>3 DEF FirstOf

(* At the start there are none. *)
LEMMA FirstOfNone == ASSUME NEW s PROVE FirstOf(s, 0) = {}
<1>1. 1..0 = {}
  OBVIOUS
<1> QED
  BY <1>1 DEF FirstOf

(* All that has come, in any order. *)
LEMMA ForwardIs ==
    ASSUME NEW tx \in Txs, NEW g \in Groups, Sane(tx, g), NEW now \in Int,
           NEW h \in Forward(tx, g, now)
    PROVE  h \in Groups /\ Sane(tx, h) /\ Arrived(g, h, Past(g, now))
<1>1. PICK s \in SetToSeqs(Past(g, now)) : h = AllArrive(tx, g, s)
  BY DEF Forward, EarliestFirst
<1>2. /\ Past(g, now) \in SUBSET Peers
      /\ \A q \in Past(g, now) : Stage(g, q) \in {"CANDIDATE_DELAYED", "REQUESTED"}
  <2>1. {"CANDIDATE_DELAYED", "REQUESTED"} \subseteq States
    BY DEF States, Candidates
  <2> QED
    BY <2>1, Stages DEF Past, IsWaiting
<1> DEFINE S == Past(g, now)
<1> HIDE DEF S
<1>3. PICK n \in Nat : /\ DOMAIN s = 1..n /\ S = {s[j] : j \in 1..n}
                       /\ \A i, j \in 1..n : i # j => s[i] # s[j]
  BY <1>1, <1>2, Orders DEF S
<1>4. S = FirstOf(s, n)
  BY <1>3 DEF FirstOf
<1>5. PICK run : MoveRun(run, FALSE, tx, g, s, n)
  BY <1>3, MoveRuns
<1>6. /\ run[0] = g /\ run[n] = h
      /\ \A i \in 1..n : run[i] = Arrive(tx, run[i - 1], s[i])
  BY <1>1, <1>5 DEF MoveRun, Moved, AllMoved
<1> DEFINE Good(i) == run[i] \in Groups /\ Sane(tx, run[i]) /\ Arrived(g, run[i], FirstOf(s, i))
           T == {i \in Nat : i <= n => Good(i)}
<1>7. 0 \in T
  <2>1. Arrived(g, g, {})
    BY DEF Arrived, Like
  <2> QED
    BY <1>6, <2>1, FirstOfNone
<1>8. ASSUME NEW i \in Nat \ {0}, i - 1 \in T PROVE i \in T
  <2> SUFFICES ASSUME i <= n PROVE Good(i)
    OBVIOUS
  <2>1. i \in 1..n /\ i - 1 <= n /\ i - 1 \in Nat
    OBVIOUS
  <2>2. Good(i - 1)
    BY <1>8, <2>1
  <2>3. /\ FirstOf(s, i) = FirstOf(s, i - 1) \cup {s[i]} /\ s[i] \notin FirstOf(s, i - 1)
        /\ FirstOf(s, i - 1) \subseteq FirstOf(s, n) /\ s[i] \in FirstOf(s, n)
    BY <1>3, <2>1, FirstIs
  <2>4. /\ FirstOf(s, i - 1) \in SUBSET Peers /\ s[i] \in Peers
        /\ Stage(g, s[i]) \in {"CANDIDATE_DELAYED", "REQUESTED"}
        /\ \A q \in FirstOf(s, i - 1) : Stage(g, q) \in {"CANDIDATE_DELAYED", "REQUESTED"}
    BY <1>2, <1>4, <2>3 DEF S
  <2>5. run[i] = Arrive(tx, run[i - 1], s[i])
    BY <1>6, <2>1
  <2> QED
    BY <2>2, <2>3, <2>4, <2>5, ArriveIs
<1> HIDE DEF T
<1>9. n \in T
  BY <1>7, <1>8, InductiveSet
<1>10. Good(n)
  <2>1. n <= n
    OBVIOUS
  <2> QED
    BY <1>9, <2>1 DEF T
<1> QED
  BY <1>4, <1>6, <1>10 DEF S

(* All that has not come yet, in any order. *)
LEMMA BackIs ==
    ASSUME NEW tx \in Txs, NEW g \in Groups, Sane(tx, g), NEW now \in Int,
           NEW h \in Back(tx, g, now)
    PROVE  h \in Groups /\ Sane(tx, h) /\ Delayed(g, h, Future(g, now))
<1>1. PICK s \in SetToSeqs(Future(g, now)) : h = AllDelayed(tx, g, s)
  BY DEF Back, LatestFirst
<1>2. /\ Future(g, now) \in SUBSET Peers
      /\ \A q \in Future(g, now) : Stage(g, q) \in {"CANDIDATE_READY", "CANDIDATE_BEST"}
  <2>1. {"CANDIDATE_READY", "CANDIDATE_BEST"} \subseteq States
    BY DEF States, Candidates
  <2> QED
    BY <2>1, Stages DEF Future, IsSelectable
<1> DEFINE S == Future(g, now)
<1> HIDE DEF S
<1>3. PICK n \in Nat : /\ DOMAIN s = 1..n /\ S = {s[j] : j \in 1..n}
                       /\ \A i, j \in 1..n : i # j => s[i] # s[j]
  BY <1>1, <1>2, Orders DEF S
<1>4. S = FirstOf(s, n)
  BY <1>3 DEF FirstOf
<1>5. PICK run : MoveRun(run, TRUE, tx, g, s, n)
  BY <1>3, MoveRuns
<1>6. /\ run[0] = g /\ run[n] = h
      /\ \A i \in 1..n : run[i] = ChangeAndReselect(tx, run[i - 1], s[i], "CANDIDATE_DELAYED")
  BY <1>1, <1>5 DEF MoveRun, Moved, AllMoved
<1> DEFINE Good(i) == run[i] \in Groups /\ Sane(tx, run[i]) /\ Delayed(g, run[i], FirstOf(s, i))
           T == {i \in Nat : i <= n => Good(i)}
<1>7. 0 \in T
  <2>1. Delayed(g, g, {})
    BY DEF Delayed, Like
  <2> QED
    BY <1>6, <2>1, FirstOfNone
<1>8. ASSUME NEW i \in Nat \ {0}, i - 1 \in T PROVE i \in T
  <2> SUFFICES ASSUME i <= n PROVE Good(i)
    OBVIOUS
  <2>1. i \in 1..n /\ i - 1 <= n /\ i - 1 \in Nat
    OBVIOUS
  <2>2. Good(i - 1)
    BY <1>8, <2>1
  <2>3. /\ FirstOf(s, i) = FirstOf(s, i - 1) \cup {s[i]} /\ s[i] \notin FirstOf(s, i - 1)
        /\ FirstOf(s, i - 1) \subseteq FirstOf(s, n) /\ s[i] \in FirstOf(s, n)
    BY <1>3, <2>1, FirstIs
  <2>4. /\ FirstOf(s, i - 1) \in SUBSET Peers /\ s[i] \in Peers
        /\ Stage(g, s[i]) \in {"CANDIDATE_READY", "CANDIDATE_BEST"}
    BY <1>2, <1>4, <2>3 DEF S
  <2>5. run[i] = ChangeAndReselect(tx, run[i - 1], s[i], "CANDIDATE_DELAYED")
    BY <1>6, <2>1
  <2> QED
    BY <2>2, <2>3, <2>4, <2>5, DelayIs
<1> HIDE DEF T
<1>9. n \in T
  BY <1>7, <1>8, InductiveSet
<1>10. Good(n)
  <2>1. n <= n
    OBVIOUS
  <2> QED
    BY <1>9, <2>1 DEF T
<1> QED
  BY <1>4, <1>6, <1>10 DEF S

(* What a time point leaves of the announcements, but for which candidate  *)
(* is delayed, READY or the BEST: expired requests are COMPLETED, and if   *)
(* nothing else was live all are erased.                                   *)
Alike(a, b) ==
    \/ a = b
    \/ a \in Known /\ b \in Known /\ a.state \in Candidates /\ b.state \in Candidates /\ a.time = b.time
IsExpired(a, now) == a # none /\ a.state = "REQUESTED" /\ a.time <= now
TimePassed(g, h, now) ==
    \/ \A q \in Peers : IF IsExpired(g[q], now) THEN h[q] = Completed ELSE Alike(g[q], h[q])
    \/ h = Nothing /\ \A q \in Peers : g[q] \in {none, Completed} \/ IsExpired(g[q], now)

(* What PostGetRequestableSanityCheck asserts of one transaction. *)
Timely(h, now) ==
    \A q \in Peers :
        /\ Stage(h, q) \in {"CANDIDATE_DELAYED", "REQUESTED"} => h[q].time > now
        /\ Stage(h, q) \in {"CANDIDATE_READY", "CANDIDATE_BEST"} => h[q].time <= now

(* Every announcement that was not past by now and has not changed since   *)
(* waits for a later time.                                                 *)
LEMMA PastIs ==
    ASSUME NEW g \in Groups, NEW q \in Peers, NEW now \in Int
    PROVE  /\ q \in Past(g, now) <=> Stage(g, q) \in {"CANDIDATE_DELAYED", "REQUESTED"}
                                       /\ g[q].time <= now
           /\ q \in Future(g, now) <=> Stage(g, q) \in {"CANDIDATE_READY", "CANDIDATE_BEST"}
                                         /\ g[q].time > now
<1>1. /\ {"CANDIDATE_DELAYED", "REQUESTED"} \subseteq States
      /\ {"CANDIDATE_READY", "CANDIDATE_BEST"} \subseteq States
  BY DEF States, Candidates
<1> QED
  BY <1>1, Stages DEF Past, Future, IsWaiting, IsSelectable

(* SetTimePoint: what it leaves is sane, and nothing in it is too early or *)
(* too late for the time.                                                  *)
LEMMA SetTimePointIs ==
    ASSUME NEW tx \in Txs, NEW g \in Groups, Sane(tx, g), NEW now \in Int,
           NEW k \in SetTimePoint(tx, g, now)
    PROVE  k \in Groups /\ Sane(tx, k) /\ Timely(k, now) /\ TimePassed(g, k, now)
<1>1. PICK h \in Forward(tx, g, now) : k \in Back(tx, h, now)
  BY DEF SetTimePoint
<1>2. h \in Groups /\ Sane(tx, h) /\ Arrived(g, h, Past(g, now))
  BY ForwardIs
<1>3. k \in Groups /\ Sane(tx, k) /\ Delayed(h, k, Future(h, now))
  BY <1>1, <1>2, BackIs
<1>4. ASSUME NEW q \in Peers, Stage(h, q) \in {"CANDIDATE_DELAYED", "REQUESTED"}
      PROVE  h[q].time > now
  <2>0. h[q] # none /\ h[q] \in Known /\ h[q].state = Stage(h, q) /\ h[q].time \in Int
    BY <1>2, <1>4, Stages, Parts
  <2>1. h # Nothing
    BY <2>0, NothingIs
  <2>2. q \notin Past(g, now)
    <3> SUFFICES ASSUME q \in Past(g, now) PROVE FALSE
      OBVIOUS
    <3>1. Stage(g, q) \in {"CANDIDATE_DELAYED", "REQUESTED"}
      BY PastIs
    <3>2. Stage(h, q) \in {"CANDIDATE_READY", "CANDIDATE_BEST"} \/ h[q] = Completed
      BY <1>2, <2>1, <3>1 DEF Arrived
    <3> QED
      BY <1>4, <2>0, <3>2, Parts
  <2>3. h[q] = g[q]
    <3>1. Like(g[q], h[q])
      BY <1>2, <2>1, <2>2 DEF Arrived
    <3> QED
      BY <1>4, <2>0, <3>1, LikeIs
  <2>4. Stage(g, q) = Stage(h, q)
    BY <2>3 DEF Stage
  <2>5. ~(g[q].time <= now)
    BY <1>4, <2>2, <2>4, PastIs
  <2> QED
    BY <2>0, <2>3, <2>5
<1>5. Timely(k, now)
  <2> SUFFICES ASSUME NEW q \in Peers
               PROVE  /\ Stage(k, q) \in {"CANDIDATE_DELAYED", "REQUESTED"} => k[q].time > now
                      /\ Stage(k, q) \in {"CANDIDATE_READY", "CANDIDATE_BEST"} => k[q].time <= now
    BY DEF Timely
  <2>1. CASE q \in Future(h, now)
    <3>1. /\ k[q] = [state |-> "CANDIDATE_DELAYED", time |-> h[q].time] /\ h[q].time > now
          /\ k[q] \in Known \cup {none}
      BY <1>2, <1>3, <2>1, PastIs, Stages DEF Delayed
    <3>2. k[q].time = h[q].time /\ Stage(k, q) \in {"CANDIDATE_DELAYED", "none"}
      BY <3>1 DEF Stage
    <3> QED
      BY <3>1, <3>2
  <2>2. CASE q \notin Future(h, now)
    <3>1. Like(h[q], k[q])
      BY <1>3, <2>2 DEF Delayed
    <3>2. ASSUME Stage(k, q) \in {"CANDIDATE_DELAYED", "REQUESTED"} PROVE k[q].time > now
      <4>1. k[q] \in Known /\ k[q].state = Stage(k, q)
        BY <1>3, <3>2, Stages
      <4>2. k[q] = h[q]
        BY <3>1, <3>2, <4>1, LikeIs
      <4>3. Stage(h, q) = Stage(k, q)
        BY <4>2 DEF Stage
      <4> QED
        BY <1>4, <3>2, <4>2, <4>3
    <3>3. ASSUME Stage(k, q) \in {"CANDIDATE_READY", "CANDIDATE_BEST"} PROVE k[q].time <= now
      <4>1. k[q] # none /\ k[q] \in Known /\ k[q].state = Stage(k, q) /\ k[q].time \in Int
        BY <1>3, <3>3, Stages, Parts
      <4>2. h[q] # none /\ h[q].state \in {"CANDIDATE_READY", "CANDIDATE_BEST"} /\ k[q].time = h[q].time
        BY <3>1, <3>3, <4>1, Parts DEF Like
      <4>3. Stage(h, q) \in {"CANDIDATE_READY", "CANDIDATE_BEST"}
        BY <4>2 DEF Stage
      <4>4. ~(h[q].time > now)
        BY <1>2, <2>2, <4>3, PastIs
      <4> QED
        BY <4>1, <4>2, <4>4
    <3> QED
      BY <3>2, <3>3
  <2> QED
    BY <2>1, <2>2
<1>6. \A q \in Peers : Alike(h[q], k[q])
  <2> SUFFICES ASSUME NEW q \in Peers PROVE Alike(h[q], k[q])
    OBVIOUS
  <2>0. {"CANDIDATE_READY", "CANDIDATE_BEST", "CANDIDATE_DELAYED"} \subseteq Candidates
    BY DEF Candidates
  <2>1. CASE q \in Future(h, now)
    <3>1. k[q] = [state |-> "CANDIDATE_DELAYED", time |-> h[q].time]
      BY <1>3, <2>1 DEF Delayed
    <3>2. h[q] \in Known /\ h[q].state = Stage(h, q) /\ h[q].time \in Int
          /\ Stage(h, q) \in {"CANDIDATE_READY", "CANDIDATE_BEST"}
      BY <1>2, <2>1, PastIs, Stages, Parts
    <3>3. "CANDIDATE_DELAYED" \in Live
      BY DEF Live, States, Candidates
    <3>4. k[q] \in Known /\ k[q].state = "CANDIDATE_DELAYED" /\ k[q].time = h[q].time
      BY <3>1, <3>2, <3>3, Parts
    <3> QED
      BY <2>0, <3>2, <3>4 DEF Alike
  <2>2. CASE q \notin Future(h, now)
    <3>1. Like(h[q], k[q])
      BY <1>3, <2>2 DEF Delayed
    <3> QED
      BY <2>0, <3>1 DEF Like, Alike
  <2> QED
    BY <2>1, <2>2
<1>7. ASSUME NEW q \in Peers
      PROVE  IsExpired(g[q], now) <=> q \in Past(g, now) /\ Stage(g, q) = "REQUESTED"
  <2>1. q \in Past(g, now) <=> Stage(g, q) \in {"CANDIDATE_DELAYED", "REQUESTED"} /\ g[q].time <= now
    BY PastIs
  <2>2. Stage(g, q) = "REQUESTED" <=> g[q] # none /\ g[q].state = "REQUESTED"
    BY DEF Stage
  <2> QED
    BY <2>1, <2>2 DEF IsExpired
<1>8. CASE /\ h = Nothing
           /\ \A q \in Peers : g[q] \in {none, Completed} \/ (q \in Past(g, now) /\ Stage(g, q) = "REQUESTED")
  <2>1. \A q \in Peers : k[q] = none
    <3> SUFFICES ASSUME NEW q \in Peers PROVE k[q] = none
      OBVIOUS
    <3>1. h[q] = none /\ Alike(h[q], k[q])
      BY <1>6, <1>8, NothingIs
    <3> QED
      BY <3>1, Parts DEF Alike
  <2>2. k = Nothing
    BY <1>3, <2>1 DEF Groups, Nothing
  <2> QED
    BY <1>3, <1>5, <1>7, <1>8, <2>2 DEF TimePassed
<1>9. CASE \A q \in Peers :
             /\ q \notin Past(g, now) => Like(g[q], h[q])
             /\ q \in Past(g, now) /\ Stage(g, q) = "CANDIDATE_DELAYED" =>
                   /\ Stage(h, q) \in {"CANDIDATE_READY", "CANDIDATE_BEST"}
                   /\ h[q].time = g[q].time
             /\ q \in Past(g, now) /\ Stage(g, q) = "REQUESTED" => h[q] = Completed
  <2>0. /\ {"CANDIDATE_READY", "CANDIDATE_BEST", "CANDIDATE_DELAYED"} \subseteq Candidates
        /\ "COMPLETED" \notin Candidates
    BY DEF Candidates
  <2>1. ASSUME NEW q \in Peers, IsExpired(g[q], now) PROVE k[q] = Completed
    <3>1. h[q] = Completed /\ Alike(h[q], k[q])
      BY <1>6, <1>7, <1>9, <2>1
    <3> QED
      BY <2>0, <3>1, Parts DEF Alike
  <2>2. ASSUME NEW q \in Peers, ~IsExpired(g[q], now) PROVE Alike(g[q], k[q])
    <3>1. Alike(g[q], h[q])
      <4>1. CASE q \notin Past(g, now)
        <5>1. Like(g[q], h[q])
          BY <1>9, <4>1
        <5> QED
          BY <2>0, <5>1 DEF Like, Alike
      <4>2. CASE q \in Past(g, now)
        <5>1. Stage(g, q) = "CANDIDATE_DELAYED"
          BY <1>7, <2>2, <4>2, PastIs
        <5>2. Stage(h, q) \in {"CANDIDATE_READY", "CANDIDATE_BEST"} /\ h[q].time = g[q].time
          BY <1>9, <4>2, <5>1
        <5>3. /\ g[q] \in Known /\ g[q].state = Stage(g, q)
              /\ h[q] \in Known /\ h[q].state = Stage(h, q)
          BY <1>2, <5>1, <5>2, Stages
        <5> QED
          BY <2>0, <5>1, <5>2, <5>3 DEF Alike
      <4> QED
        BY <4>1, <4>2
    <3> QED
      BY <1>6, <3>1 DEF Alike
  <2> QED
    BY <1>3, <1>5, <2>1, <2>2 DEF TimePassed
<1> QED
  BY <1>2, <1>8, <1>9 DEF Arrived

-----------------------------------------------------------------------------
(* The order of the announcements. *)
OnlySolves(h, s, txs, n) ==
    h = [u \in SUBSET (1..n) |->
           IF u = {} THEN <<>>
           ELSE IF s[Max(u)] \in txs THEN Append(h[u \ {Max(u)}], s[Max(u)]) ELSE h[u \ {Max(u)}]]

(* Only takes a sequence of transactions to another. *)
LEMMA OnlyIs == ASSUME NEW s \in Seq(Txs), NEW txs PROVE Only(s, txs) \in Seq(Txs)
<1> DEFINE n == Len(s)
           V == Seq(Txs)
           F == [x \in V \X (1..n) |-> IF s[x[2]] \in txs THEN Append(x[1], s[x[2]]) ELSE x[1]]
           iter == CHOOSE h : OnlySolves(h, s, txs, n)
<1>0. n \in Nat /\ DOMAIN s = 1..n /\ \A i \in 1..n : s[i] \in Txs
  OBVIOUS
<1>1. <<>> \in V
  OBVIOUS
<1>2. F \in [V \X (1..n) -> V]
  <2>1. \A v \in V, i \in 1..n : Append(v, s[i]) \in V
    BY <1>0
  <2> QED
    BY <2>1
<1>3. \A v \in V : \A i \in 1..n : F[<<v, i>>] = IF s[i] \in txs THEN Append(v, s[i]) ELSE v
  OBVIOUS
<1> HIDE DEF F
<1>4. OnlySolves(iter, s, txs, n)
  <2>1. PICK h \in [SUBSET (1..n) -> V] : FoldOf(h, F, <<>>, n)
    <3> HIDE DEF n, V
    <3> QED
      BY <1>0, <1>1, <1>2, FoldSolution
  <2> HIDE DEF V, n
  <2>2. ASSUME NEW u \in SUBSET (1..n), u # {}
        PROVE  h[u] = IF s[Max(u)] \in txs THEN Append(h[u \ {Max(u)}], s[Max(u)]) ELSE h[u \ {Max(u)}]
    <3>1. Max(u) \in 1..n /\ h[u] = F[<<h[u \ {Max(u)}], Max(u)>>]
      BY <2>1, <2>2 DEF FoldOf
    <3>2. h[u \ {Max(u)}] \in V
      BY <2>1
    <3> QED
      BY <1>3, <3>1, <3>2
  <2>3. h[{}] = <<>> /\ h = [u \in SUBSET (1..n) |-> h[u]]
    BY <2>1 DEF FoldOf
  <2>4. OnlySolves(h, s, txs, n)
    BY <2>2, <2>3 DEF OnlySolves
  <2> QED
    BY <2>4
<1>5. Only(s, txs) = iter[1..n]
  BY <1>0 DEF Only, FoldLeft, MapThenFoldSet, OnlySolves
<1> HIDE DEF iter, n, V
<1>6. FoldIn(iter, V, F, <<>>, n)
  <2>1. \A u \in SUBSET (1..n) :
           u # {} => iter[u] = IF s[Max(u)] \in txs THEN Append(iter[u \ {Max(u)}], s[Max(u)])
                               ELSE iter[u \ {Max(u)}]
    BY <1>4 DEF OnlySolves
  <2>2. iter[{}] = <<>>
    BY <1>4 DEF OnlySolves
  <2> QED
    BY <1>0, <1>1, <1>2, <1>3, <2>1, <2>2 DEF FoldIn
<1>7. PICK run : RunIn(run, iter, V, F, <<>>, n)
  BY <1>6, FoldRun
<1>8. run[n] \in V /\ run[n] = iter[1..n]
  <2>1. n \in 0..n
    BY <1>0
  <2> QED
    BY <1>7, <2>1 DEF RunIn
<1> QED
  BY <1>5, <1>8 DEF V

-----------------------------------------------------------------------------
(* The invariant: SanityCheck, with the types of the announcements. *)
TypedGroups == [Peers -> TimedAnnouncements \cup {none}]
Good(tx, g) == g \in TypedGroups /\ Sane(tx, g)
Replies == [peer : Peers, now : Times, txs : Seq(Txs)]

TrackerInv ==
    /\ m_index \in [Txs -> TypedGroups] /\ \A tx \in Txs : Sane(tx, m_index[tx])
    /\ order \in [Peers -> Seq(Txs)]
    /\ reply = none \/ reply \in Replies
    /\ reply # none => \A tx \in Txs : Timely(m_index[tx], reply.now)

(* Announcements with times up to the bound. *)
LEMMA Typed ==
    /\ Times \subseteq Int /\ TimedAnnouncements \subseteq Known /\ TypedGroups \subseteq Groups
    /\ Completed \in TimedAnnouncements
    /\ \A a \in TimedAnnouncements : a = Completed \/ a.time \in Times
    /\ \A b \in Known : b.state # "COMPLETED" /\ b.time \in Times => b \in TimedAnnouncements
<1>1. Times \subseteq Int
  BY TxRequestAssumption DEF Times
<1>2. TimedAnnouncements \subseteq Known
  <2>1. [state : States \ {"COMPLETED"}, time : Times] \subseteq [state : States \ {"COMPLETED"}, time : Int]
    BY <1>1
  <2> QED
    BY <2>1 DEF TimedAnnouncements, Known
<1>3. TypedGroups \subseteq Groups
  <2>1. TimedAnnouncements \cup {none} \subseteq Known \cup {none}
    BY <1>2
  <2> QED
    BY <2>1 DEF TypedGroups, Groups
<1>4. \A a \in TimedAnnouncements : a = Completed \/ a.time \in Times
  BY DEF TimedAnnouncements
<1>5. \A b \in Known : b.state # "COMPLETED" /\ b.time \in Times => b \in TimedAnnouncements
  <2> SUFFICES ASSUME NEW b \in Known, b.state # "COMPLETED", b.time \in Times PROVE b \in TimedAnnouncements
    OBVIOUS
  <2>1. b # Completed
    BY Parts
  <2>2. b \in [state : States \ {"COMPLETED"}, time : Int]
    BY <2>1 DEF Known
  <2>3. b = [state |-> b.state, time |-> b.time] /\ b.state \in States \ {"COMPLETED"}
    BY <2>2
  <2>4. b \in [state : States \ {"COMPLETED"}, time : Times]
    BY <2>3
  <2> QED
    BY <2>4 DEF TimedAnnouncements
<1>6. Completed \in TimedAnnouncements
  BY DEF TimedAnnouncements
<1> QED
  BY <1>1, <1>2, <1>3, <1>4, <1>5, <1>6

(* What an operation leaves has the times that were there, or a new one. *)
Traced(g, h) ==
    \A q \in Peers : \/ h[q] \in {none, Completed}
                     \/ Alike(g[q], h[q])
                     \/ h[q] \in Known /\ h[q].state # "COMPLETED" /\ h[q].time \in Times

(* Then the times of what is left are within the bound. *)
LEMMA TracedTyped ==
    ASSUME NEW g \in TypedGroups, NEW h \in Groups, Traced(g, h)
    PROVE  h \in TypedGroups
<1>1. ASSUME NEW q \in Peers PROVE h[q] \in TimedAnnouncements \cup {none}
  <2>1. g[q] \in TimedAnnouncements \cup {none}
    BY DEF TypedGroups
  <2>2. CASE h[q] \in {none, Completed}
    BY <2>2, Typed
  <2>3. CASE Alike(g[q], h[q])
    <3>1. CASE g[q] = h[q]
      BY <2>1, <3>1
    <3>2. CASE /\ g[q] \in Known /\ h[q] \in Known
               /\ g[q].state \in Candidates /\ h[q].state \in Candidates /\ g[q].time = h[q].time
      <4>1. g[q] # none /\ g[q] # Completed /\ h[q].state # "COMPLETED"
        BY <3>2, Parts DEF Candidates
      <4> QED
        BY <2>1, <3>2, <4>1, Typed
    <3> QED
      BY <2>3, <3>1, <3>2 DEF Alike
  <2>4. CASE h[q] \in Known /\ h[q].state # "COMPLETED" /\ h[q].time \in Times
    BY <2>4, Typed
  <2> QED
    BY <2>2, <2>3, <2>4 DEF Traced
<1> QED
  BY <1>1 DEF TypedGroups, Groups

(* Like is the stronger of the two. *)
LEMMA LikeAlike == ASSUME NEW a, NEW b, Like(a, b) PROVE Alike(a, b)
BY DEF Like, Alike, Candidates

(* Each operation keeps the announcements of one transaction good. *)
LEMMA NothingGood == ASSUME NEW tx \in Txs PROVE Good(tx, Nothing)
BY NothingIs DEF Good, TypedGroups, Nothing

(* ReceivedInv. *)
LEMMA InvGood ==
    ASSUME NEW tx \in Txs, NEW g, Good(tx, g), NEW p \in Peers, NEW t \in Times
    PROVE  Good(tx, ReceivedInv(g, p, t))
<1>1. g \in TypedGroups /\ g \in Groups /\ Sane(tx, g) /\ t \in Int
  BY Typed DEF Good
<1> DEFINE h == ReceivedInv(g, p, t)
<1>2. /\ h \in Groups /\ Sane(tx, h)
      /\ h[p] = IF g[p] = none THEN [state |-> "CANDIDATE_DELAYED", time |-> t] ELSE g[p]
      /\ \A q \in Peers \ {p} : h[q] = g[q]
  BY <1>1, ReceivedInvIs
<1> HIDE DEF h
<1>3. "CANDIDATE_DELAYED" \in Live
  BY DEF Live, States, Candidates
<1>4. [state |-> "CANDIDATE_DELAYED", time |-> t] \in Known
  BY <1>1, <1>3, Parts
<1>5. Traced(g, h)
  BY <1>2, <1>4 DEF Traced, Alike
<1> QED
  BY <1>1, <1>2, <1>5, TracedTyped DEF Good, h

(* RequestedTx. *)
LEMMA RequestedGood ==
    ASSUME NEW tx \in Txs, NEW g, Good(tx, g), NEW p \in Peers, NEW t \in Times
    PROVE  Good(tx, RequestedTx(g, p, t))
<1>1. g \in TypedGroups /\ g \in Groups /\ Sane(tx, g) /\ t \in Int
  BY Typed DEF Good
<1> DEFINE h == RequestedTx(g, p, t)
<1>2. h \in Groups /\ Sane(tx, h) /\ Requests(g, h, p, t)
  BY <1>1, RequestedIs
<1> HIDE DEF h
<1>3. "REQUESTED" \in Live
  BY DEF Live, States, Candidates
<1>4. [state |-> "REQUESTED", time |-> t] \in Known
  BY <1>1, <1>3, Parts
<1>5. CASE h = g
  BY <1>1, <1>5 DEF Good, h
<1>6. CASE /\ h[p] = [state |-> "REQUESTED", time |-> t]
           /\ \A q \in Peers \ {p} : IF Stage(g, q) = "REQUESTED" THEN h[q] = Completed
                                     ELSE Like(g[q], h[q])
  <2>1. Traced(g, h)
    BY <1>4, <1>6, LikeAlike DEF Traced
  <2> QED
    BY <1>1, <1>2, <2>1, TracedTyped DEF Good, h
<1> QED
  BY <1>2, <1>5, <1>6 DEF Requests

(* ReceivedResponse. *)
LEMMA ResponseGood ==
    ASSUME NEW tx \in Txs, NEW g, Good(tx, g), NEW p \in Peers
    PROVE  Good(tx, ReceivedResponse(tx, g, p))
<1>1. g \in TypedGroups /\ g \in Groups /\ Sane(tx, g)
  BY Typed DEF Good
<1>2. CASE g[p] = none
  BY <1>2 DEF ReceivedResponse
<1>3. CASE g[p] # none
  <2> DEFINE h == MakeCompleted(tx, g, p)
  <2>1. h \in Groups /\ Sane(tx, h) /\ MakesCompleted(g, h, p)
    BY <1>1, <1>3, MakeCompletedIs
  <2>2. ReceivedResponse(tx, g, p) = h
    BY <1>3 DEF ReceivedResponse
  <2> HIDE DEF h
  <2>3. Traced(g, h)
    BY <2>1, NothingIs, LikeAlike DEF MakesCompleted, OthersLike, Traced, Alike
  <2> QED
    BY <1>1, <2>1, <2>2, <2>3, TracedTyped DEF Good
<1> QED
  BY <1>2, <1>3

(* DisconnectedPeer. *)
LEMMA DisconnectedGood ==
    ASSUME NEW tx \in Txs, NEW g, Good(tx, g), NEW p \in Peers
    PROVE  Good(tx, DisconnectedPeer(tx, g, p))
<1>1. g \in TypedGroups /\ g \in Groups /\ Sane(tx, g)
  BY Typed DEF Good
<1> DEFINE h == DisconnectedPeer(tx, g, p)
<1>2. h \in Groups /\ Sane(tx, h) /\ Disconnects(g, h, p)
  BY <1>1, DisconnectedIs
<1> HIDE DEF h
<1>3. CASE h = [g EXCEPT ![p] = none]
  <2>1. \A q \in Peers : h[q] = none \/ h[q] = g[q]
    BY <1>1, <1>3 DEF Groups
  <2>2. Traced(g, h)
    BY <2>1 DEF Traced, Alike
  <2> QED
    BY <1>1, <1>2, <2>2, TracedTyped DEF Good, h
<1>4. CASE h # [g EXCEPT ![p] = none]
  <2>1. Traced(g, h)
    BY <1>2, <1>4, NothingIs, LikeAlike DEF Disconnects, OthersLike, Traced, Alike
  <2> QED
    BY <1>1, <1>2, <2>1, TracedTyped DEF Good, h
<1> QED
  BY <1>3, <1>4

(* SetTimePoint. *)
LEMMA TimeGood ==
    ASSUME NEW tx \in Txs, NEW g, Good(tx, g), NEW now \in Times, NEW h \in SetTimePoint(tx, g, now)
    PROVE  Good(tx, h) /\ Timely(h, now) /\ TimePassed(g, h, now)
<1>1. g \in TypedGroups /\ g \in Groups /\ Sane(tx, g) /\ now \in Int
  BY Typed DEF Good
<1>2. h \in Groups /\ Sane(tx, h) /\ Timely(h, now) /\ TimePassed(g, h, now)
  BY <1>1, SetTimePointIs
<1>3. Traced(g, h)
  BY <1>2, NothingIs DEF TimePassed, Traced
<1> QED
  BY <1>1, <1>2, <1>3, TracedTyped DEF Good

(* An index of good announcements. *)
GoodIndex(index) ==
    index \in [Txs -> TypedGroups] /\ \A tx \in Txs : Good(tx, index[tx])

(* The index is one, by the invariant. *)
LEMMA IndexGood == ASSUME TrackerInv PROVE GoodIndex(m_index)
BY DEF TrackerInv, GoodIndex, Good

(* A change of the announcements of one transaction. *)
LEMMA OneGood ==
    ASSUME NEW index, GoodIndex(index), NEW tx \in Txs, NEW g, Good(tx, g)
    PROVE  GoodIndex([index EXCEPT ![tx] = g])
<1>1. g \in TypedGroups /\ index \in [Txs -> TypedGroups]
  BY DEF Good, GoodIndex
<1> HIDE DEF TypedGroups
<1>2. [index EXCEPT ![tx] = g] \in [Txs -> TypedGroups]
  BY <1>1
<1>3. \A u \in Txs : [index EXCEPT ![tx] = g][u] = IF u = tx THEN g ELSE index[u]
  BY <1>1
<1>4. \A u \in Txs : Good(u, [index EXCEPT ![tx] = g][u])
  BY <1>3 DEF GoodIndex
<1> QED
  BY <1>2, <1>4 DEF GoodIndex

(* The outcomes of a time point. *)
LEMMA AtTimeIs ==
    ASSUME NEW index, GoodIndex(index), NEW now \in Times, NEW new \in AtTime(index, now)
    PROVE  /\ GoodIndex(new)
           /\ \A tx \in Txs : Timely(new[tx], now) /\ TimePassed(index[tx], new[tx], now)
<1> DEFINE outcomes == [tx \in Txs |-> SetTimePoint(tx, index[tx], now)]
<1>1. new \in Selections(outcomes)
  BY DEF AtTime
<1>2. \A tx \in Txs : outcomes[tx] = SetTimePoint(tx, index[tx], now)
  OBVIOUS
<1> HIDE DEF outcomes
<1>3. /\ new \in [Txs -> UNION {outcomes[tx] : tx \in Txs}]
      /\ \A tx \in Txs : new[tx] \in SetTimePoint(tx, index[tx], now)
  BY <1>1, <1>2 DEF Selections
<1>4. \A tx \in Txs : Good(tx, new[tx]) /\ Timely(new[tx], now) /\ TimePassed(index[tx], new[tx], now)
  BY <1>3, TimeGood DEF GoodIndex
<1>5. new \in [Txs -> TypedGroups]
  <2>1. new = [tx \in Txs |-> new[tx]] /\ \A tx \in Txs : new[tx] \in TypedGroups
    BY <1>3, <1>4 DEF Good
  <2> HIDE DEF TypedGroups
  <2> QED
    BY <2>1
<1> QED
  BY <1>4, <1>5 DEF GoodIndex

(* What remains of the order. *)
LEMMA RemainingIs == ASSUME order \in [Peers -> Seq(Txs)], NEW new PROVE Remaining(new) \in [Peers -> Seq(Txs)]
<1>1. \A p \in Peers : Only(order[p], {tx \in Txs : new[tx][p] # none}) \in Seq(Txs)
  BY OnlyIs
<1> QED
  BY <1>1 DEF Remaining

(* A step that ends without an answer. *)
LEMMA SilentStep ==
    ASSUME GoodIndex(m_index'), order' \in [Peers -> Seq(Txs)], reply' = none
    PROVE  TrackerInv'
BY DEF GoodIndex, Good, TrackerInv

(* The invariant holds at the start. *)
LEMMA InitTracker == TrackerInit => TrackerInv
<1> SUFFICES ASSUME TrackerInit PROVE TrackerInv
  OBVIOUS
<1>1. \A tx \in Txs : Nothing \in TypedGroups /\ Sane(tx, Nothing)
  BY NothingGood DEF Good
<1>2. <<>> \in Seq(Txs)
  OBVIOUS
<1>3. m_index \in [Txs -> TypedGroups] /\ \A tx \in Txs : m_index[tx] = Nothing
  <2> HIDE DEF TypedGroups
  <2> QED
    BY <1>1 DEF TrackerInit
<1> QED
  BY <1>1, <1>2, <1>3 DEF TrackerInit, TrackerInv

(* Every call keeps the invariant. *)
LEMMA NextTracker == TrackerInv /\ [TrackerNext]_tracker_vars => TrackerInv'
<1> SUFFICES ASSUME TrackerInv, [TrackerNext]_tracker_vars PROVE TrackerInv'
  OBVIOUS
<1>0. GoodIndex(m_index) /\ order \in [Peers -> Seq(Txs)] /\ \A tx \in Txs : Good(tx, m_index[tx])
  BY IndexGood DEF TrackerInv, GoodIndex
<1>1. ASSUME NEW tx \in Txs, NEW p \in Peers, NEW t \in Times, Inv(tx, p, t) PROVE TrackerInv'
  <2>1. m_index' = [m_index EXCEPT ![tx] = ReceivedInv(m_index[tx], p, t)]
    BY <1>1 DEF Inv
  <2>2. Good(tx, ReceivedInv(m_index[tx], p, t))
    BY <1>0, InvGood
  <2>3. GoodIndex(m_index')
    BY <1>0, <2>1, <2>2, OneGood
  <2>4. order' \in [Peers -> Seq(Txs)]
    <3>1. order[p] \in Seq(Txs) /\ Append(order[p], tx) \in Seq(Txs)
      BY <1>0
    <3> QED
      BY <1>0, <1>1, <3>1 DEF Inv
  <2> QED
    BY <1>1, <2>3, <2>4, SilentStep DEF Inv
<1>2. ASSUME NEW tx \in Txs, NEW p \in Peers, NEW t \in Times, Requested(tx, p, t) PROVE TrackerInv'
  <2>1. /\ m_index' = [m_index EXCEPT ![tx] = RequestedTx(m_index[tx], p, t)]
        /\ order' = order /\ reply' = none
    BY <1>2 DEF Requested
  <2>2. Good(tx, RequestedTx(m_index[tx], p, t))
    BY <1>0, RequestedGood
  <2>3. GoodIndex(m_index')
    BY <1>0, <2>1, <2>2, OneGood
  <2> QED
    BY <1>0, <2>1, <2>3, SilentStep
<1>3. ASSUME NEW p \in Peers, NEW now \in Times, GetRequestable(p, now) PROVE TrackerInv'
  <2>1. PICK new \in AtTime(m_index, now) :
           /\ m_index' = new /\ order' = Remaining(new)
           /\ reply' = [peer |-> p, now |-> now, txs |-> Requestable(new, p)]
    BY <1>3 DEF GetRequestable, Becomes
  <2>2. GoodIndex(new) /\ \A tx \in Txs : Timely(new[tx], now)
    BY <1>0, AtTimeIs
  <2>3. order' \in [Peers -> Seq(Txs)]
    BY <1>0, <2>1, RemainingIs
  <2>4. Requestable(new, p) \in Seq(Txs)
    BY <2>1, <2>3, OnlyIs DEF Requestable
  <2>5. reply' \in Replies /\ reply'.now = now
    BY <2>1, <2>4 DEF Replies
  <2> QED
    BY <2>1, <2>2, <2>3, <2>5 DEF TrackerInv, GoodIndex, Good
<1>4. ASSUME NEW tx \in Txs, NEW p \in Peers, Response(tx, p) PROVE TrackerInv'
  <2>1. /\ m_index' = [m_index EXCEPT ![tx] = ReceivedResponse(tx, m_index[tx], p)]
        /\ order' = Remaining(m_index') /\ reply' = none
    BY <1>4 DEF Response, Becomes
  <2>2. Good(tx, ReceivedResponse(tx, m_index[tx], p))
    BY <1>0, ResponseGood
  <2>3. GoodIndex(m_index')
    BY <1>0, <2>1, <2>2, OneGood
  <2>4. order' \in [Peers -> Seq(Txs)]
    BY <1>0, <2>1, RemainingIs
  <2> QED
    BY <2>1, <2>3, <2>4, SilentStep
<1>5. ASSUME NEW p \in Peers, Disconnected(p) PROVE TrackerInv'
  <2>1. /\ m_index' = [tx \in Txs |-> DisconnectedPeer(tx, m_index[tx], p)]
        /\ order' = Remaining(m_index') /\ reply' = none
    BY <1>5 DEF Disconnected, Becomes
  <2>2. \A tx \in Txs : Good(tx, DisconnectedPeer(tx, m_index[tx], p))
    BY <1>0, DisconnectedGood
  <2>3. GoodIndex(m_index')
    <3>1. \A tx \in Txs : DisconnectedPeer(tx, m_index[tx], p) \in TypedGroups
      BY <2>2 DEF Good
    <3>2. m_index' \in [Txs -> TypedGroups]
      <4> HIDE DEF TypedGroups
      <4> QED
        BY <2>1, <3>1
    <3> QED
      BY <2>1, <2>2, <3>2 DEF GoodIndex
  <2>4. order' \in [Peers -> Seq(Txs)]
    BY <1>0, <2>1, RemainingIs
  <2> QED
    BY <2>1, <2>3, <2>4, SilentStep
<1>6. ASSUME NEW tx \in Txs, ForgetTxHash(tx) PROVE TrackerInv'
  <2>1. /\ m_index' = [m_index EXCEPT ![tx] = Nothing]
        /\ order' = Remaining(m_index') /\ reply' = none
    BY <1>6 DEF ForgetTxHash, Becomes
  <2>2. GoodIndex(m_index')
    BY <1>0, <2>1, NothingGood, OneGood
  <2>3. order' \in [Peers -> Seq(Txs)]
    BY <1>0, <2>1, RemainingIs
  <2> QED
    BY <2>1, <2>2, <2>3, SilentStep
<1>7. CASE UNCHANGED tracker_vars
  BY <1>7 DEF TrackerInv, tracker_vars
<1> QED
  BY <1>1, <1>2, <1>3, <1>4, <1>5, <1>6, <1>7 DEF TrackerNext

(* Under any calls with any times. *)
THEOREM TrackerInvariant == TrackerSpec => []TrackerInv
BY InitTracker, NextTracker, PTL DEF TrackerSpec

(* Type correctness: no call leaves an announcement in a state or with a   *)
(* time that no call gave it, and the order and the answers name           *)
(* transactions only.                                                      *)
THEOREM TrackerType == TrackerSpec => []TrackerTypeOK
<1>1. TrackerInv => TrackerTypeOK
  BY DEF TrackerInv, TrackerTypeOK, TypedGroups, Replies
<1> QED
  BY TrackerInvariant, <1>1, PTL

(* SanityCheck and PostGetRequestableSanityCheck hold after any calls: of  *)
(* each transaction at most one announcement is selected, one is when any  *)
(* is ready, it is the best of these, what is only COMPLETED is not kept,  *)
(* and after GetRequestable everything is on its side of the clock.        *)
THEOREM TrackerSanity == TrackerSpec => []SanityCheck
<1>1. ASSUME TrackerInv PROVE SanityCheck
  <2>1. ASSUME NEW tx \in Txs
        PROVE  LET g == m_index[tx]
                   selected == {p \in Peers : IsSelected(g, p)}
               IN  /\ In(g, {"COMPLETED"}) # {} => In(g, States \ {"COMPLETED"}) # {}
                   /\ Cardinality(selected) <= 1
                   /\ In(g, {"CANDIDATE_READY"}) # {} => selected # {}
                   /\ \A b \in In(g, {"CANDIDATE_BEST"}), r \in In(g, {"CANDIDATE_READY"}) :
                         Better(tx, b, r)
    <3> DEFINE g == m_index[tx]
               selected == {p \in Peers : IsSelected(g, p)}
    <3>1. g \in Groups /\ Sane(tx, g)
      BY <1>1, Typed DEF TrackerInv
    <3> HIDE DEF g
    <3>2. \A S \in SUBSET States, p \in Peers : p \in In(g, S) <=> Stage(g, p) \in S
      BY <3>1, Stages
    <3>3. \A S : In(g, S) \subseteq Peers
      BY DEF In
    <3>4. /\ {"COMPLETED"} \in SUBSET States /\ States \ {"COMPLETED"} \in SUBSET States
          /\ {"CANDIDATE_READY"} \in SUBSET States /\ {"CANDIDATE_BEST"} \in SUBSET States
          /\ Selected \in SUBSET States
      BY DEF States, Candidates, Selected
    <3>5. selected = {p \in Peers : Stage(g, p) \in Selected}
      BY <3>2, <3>4 DEF IsSelected, Selected
    <3>6. Cardinality(selected) <= 1
      <4>1. CASE selected = {}
        BY <4>1, FS_EmptySet
      <4>2. CASE selected # {}
        <5>1. PICK p : p \in selected
          BY <4>2
        <5>2. selected = {p}
          BY <3>1, <3>5, <5>1 DEF Sane
        <5> HIDE DEF selected
        <5> QED
          BY <5>2, FS_Singleton
      <4> QED
        BY <4>1, <4>2
    <3>7. In(g, {"COMPLETED"}) # {} => In(g, States \ {"COMPLETED"}) # {}
      BY <3>1, <3>2, <3>3, <3>4 DEF Sane, Live
    <3>8. In(g, {"CANDIDATE_READY"}) # {} => selected # {}
      BY <3>1, <3>2, <3>3, <3>4, <3>5 DEF Sane
    <3>9. \A b \in In(g, {"CANDIDATE_BEST"}), r \in In(g, {"CANDIDATE_READY"}) : Better(tx, b, r)
      BY <3>1, <3>2, <3>3, <3>4 DEF Sane
    <3> QED
      BY <3>6, <3>7, <3>8, <3>9 DEF g
  <2>2. PostGetRequestableSanityCheck
    <3> SUFFICES ASSUME reply # none, NEW tx \in Txs, NEW p \in Peers
                 PROVE  /\ IsWaiting(m_index[tx], p) => m_index[tx][p].time > reply.now
                        /\ IsSelectable(m_index[tx], p) => m_index[tx][p].time <= reply.now
      BY DEF PostGetRequestableSanityCheck
    <3>1. m_index[tx] \in Groups /\ Timely(m_index[tx], reply.now)
      BY <1>1, Typed DEF TrackerInv
    <3>2. /\ {"REQUESTED", "CANDIDATE_DELAYED"} \in SUBSET States
          /\ {"CANDIDATE_READY", "CANDIDATE_BEST"} \in SUBSET States
      BY DEF States, Candidates
    <3>3. /\ IsWaiting(m_index[tx], p) => Stage(m_index[tx], p) \in {"CANDIDATE_DELAYED", "REQUESTED"}
          /\ IsSelectable(m_index[tx], p) =>
                Stage(m_index[tx], p) \in {"CANDIDATE_READY", "CANDIDATE_BEST"}
      BY <3>1, <3>2, Stages DEF IsWaiting, IsSelectable
    <3> QED
      BY <3>1, <3>3 DEF Timely
  <2> QED
    BY <2>1, <2>2 DEF SanityCheck
<1> QED
  BY TrackerInvariant, <1>1, PTL

-----------------------------------------------------------------------------
(* The rules of the header.  What they see of the announcements.           *)
AbsG(g) == [p \in Peers |-> Abstract(g[p])]
AbsI(index) == [tx \in Txs |-> [p \in Peers |-> Abstract(index[tx][p])]]

(* The abstract announcement, by its parts. *)
LEMMA AbstractIs ==
    ASSUME NEW a \in Known \cup {none}
    PROVE  /\ Abstract(a) = none <=> a = none
           /\ a # none /\ a.state \in Candidates =>
                 /\ Abstract(a) = [state |-> "CANDIDATE", time |-> a.time]
                 /\ Abstract(a).state = "CANDIDATE" /\ Abstract(a).time = a.time
           /\ a # none /\ a.state \notin Candidates => Abstract(a) = a
           /\ a # none => /\ Abstract(a).state = "CANDIDATE" <=> a.state \in Candidates
                          /\ Abstract(a).state = "REQUESTED" <=> a.state = "REQUESTED"
                          /\ Abstract(a).state = "COMPLETED" <=> a.state = "COMPLETED"
                          /\ Abstract(a).time = a.time
<1>0. none \notin Known /\ \A b \in Known : b.state \in States /\ b.time \in Int
  BY Parts
<1>1. /\ "CANDIDATE" \notin States /\ "REQUESTED" \notin Candidates /\ "COMPLETED" \notin Candidates
      /\ States = Candidates \cup {"REQUESTED", "COMPLETED"}
  BY DEF States, Candidates
<1>2. CASE a = none
  BY <1>2 DEF Abstract
<1>3. CASE a # none /\ a.state \in Candidates
  <2>1. Abstract(a) = [state |-> "CANDIDATE", time |-> a.time] /\ a.time \in Int
    BY <1>0, <1>3 DEF Abstract
  <2>2. Abstract(a).state = "CANDIDATE" /\ Abstract(a).time = a.time
    BY <2>1
  <2>3. Abstract(a) \in [state : {"CANDIDATE"}, time : Int]
    BY <2>1
  <2>4. Abstract(a) # none
    BY <2>3, CandidateAssumption
  <2> QED
    BY <1>1, <1>3, <2>1, <2>2, <2>4
<1>4. CASE a # none /\ a.state \notin Candidates
  <2>1. Abstract(a) = a /\ a.state \in States
    BY <1>0, <1>4 DEF Abstract
  <2> QED
    BY <1>1, <1>4, <2>1
<1> QED
  BY <1>2, <1>3, <1>4

(* Announcements that are alike have the same abstract one. *)
LEMMA AlikeAbstract ==
    ASSUME NEW a \in Known \cup {none}, NEW b \in Known \cup {none}, Alike(a, b)
    PROVE  Abstract(a) = Abstract(b)
BY Parts DEF Alike, Abstract

(* So do those that differ in which one is selected. *)
LEMMA LikeAbstract ==
    ASSUME NEW a \in Known \cup {none}, NEW b \in Known \cup {none}, Like(a, b)
    PROVE  Abstract(a) = Abstract(b)
BY AlikeAbstract, LikeAlike

(* COMPLETED and none are themselves. *)
LEMMA CompletedAbstract == Abstract(Completed) = Completed /\ Abstract(none) = none
BY Parts DEF Abstract, Candidates

(* A sane transaction has nothing to forget. *)
LEMMA SaneForgotten ==
    ASSUME NEW tx \in Txs, NEW g \in Groups, Sane(tx, g)
    PROVE  Rules!Forgotten(AbsG(g)) = AbsG(g)
<1>1. CASE \E q \in Peers : Stage(g, q) \in Live
  <2>1. PICK q \in Peers : Stage(g, q) \in Live
    BY <1>1
  <2>2. g[q] \in Known /\ g[q] # none /\ g[q].state # "COMPLETED"
    BY <2>1, Stages DEF Live, States, Candidates
  <2>3. AbsG(g)[q] # none /\ AbsG(g)[q].state # "COMPLETED"
    BY <2>2, AbstractIs DEF AbsG
  <2>4. Rules!Live(AbsG(g)) # {}
    BY <2>3 DEF Rules!Live
  <2> QED
    BY <2>4 DEF Rules!Forgotten
<1>2. CASE ~\E q \in Peers : Stage(g, q) \in Live
  <2>1. \A q \in Peers : g[q] = none
    BY <1>2, Stages DEF Sane, Live
  <2>2. AbsG(g) = [p \in Peers |-> none]
    BY <2>1, CompletedAbstract DEF AbsG
  <2> QED
    BY <2>2 DEF Rules!Forgotten
<1> QED
  BY <1>1, <1>2

(* What is only COMPLETED is forgotten. *)
LEMMA CompletedForgotten ==
    ASSUME NEW f, \A q \in Peers : f[q] \in {none, Completed}
    PROVE  Rules!Forgotten(f) = AbsG(Nothing)
<1>1. Rules!Live(f) = {}
  BY Parts DEF Rules!Live
<1>2. AbsG(Nothing) = [p \in Peers |-> none]
  BY CompletedAbstract DEF AbsG, Nothing
<1> QED
  BY <1>1, <1>2 DEF Rules!Forgotten

(* What each operation does to one transaction is what the rules say. *)
Gone == [state |-> "COMPLETED", time |-> 0]

(* Announcements with the same abstract ones. *)
LEMMA SameAbsG ==
    ASSUME NEW f, DOMAIN f = Peers, f = [q \in Peers |-> f[q]], NEW h, \A q \in Peers : Abstract(h[q]) = f[q]
    PROVE  AbsG(h) = f
BY DEF AbsG

(* ReceivedInv, as the rules have it. *)
LEMMA InvAbstract ==
    ASSUME NEW tx \in Txs, NEW g \in Groups, Sane(tx, g), NEW p \in Peers, NEW t \in Int
    PROVE  AbsG(ReceivedInv(g, p, t)) =
             [AbsG(g) EXCEPT ![p] = IF AbsG(g)[p] = none THEN [state |-> "CANDIDATE", time |-> t]
                                    ELSE AbsG(g)[p]]
<1> DEFINE h == ReceivedInv(g, p, t)
           f == [AbsG(g) EXCEPT ![p] = IF AbsG(g)[p] = none THEN [state |-> "CANDIDATE", time |-> t]
                                       ELSE AbsG(g)[p]]
<1>1. /\ h \in Groups
      /\ h[p] = IF g[p] = none THEN [state |-> "CANDIDATE_DELAYED", time |-> t] ELSE g[p]
      /\ \A q \in Peers \ {p} : h[q] = g[q]
  BY ReceivedInvIs
<1> HIDE DEF h
<1>2. AbsG(g)[p] = none <=> g[p] = none
  BY Stages, AbstractIs DEF AbsG
<1>3. Abstract(h[p]) = IF g[p] = none THEN [state |-> "CANDIDATE", time |-> t] ELSE Abstract(g[p])
  <2>1. CASE g[p] = none
    <3>1. h[p] = [state |-> "CANDIDATE_DELAYED", time |-> t] /\ h[p] \in Known \cup {none} /\ h[p] # none
      <4>1. "CANDIDATE_DELAYED" \in Live
        BY DEF Live, States, Candidates
      <4> QED
        BY <1>1, <2>1, <4>1, Parts
    <3>2. h[p].state \in Candidates /\ h[p].time = t
      BY <3>1 DEF Candidates
    <3> QED
      BY <2>1, <3>1, <3>2, AbstractIs
  <2>2. CASE g[p] # none
    BY <1>1, <2>2
  <2> QED
    BY <2>1, <2>2
<1>4. \A q \in Peers \ {p} : f[q] = Abstract(g[q])
  BY DEF AbsG
<1>5. f[p] = IF g[p] = none THEN [state |-> "CANDIDATE", time |-> t] ELSE Abstract(g[p])
  BY <1>2 DEF AbsG
<1>6. DOMAIN f = Peers /\ f = [q \in Peers |-> f[q]]
  BY DEF AbsG
<1> HIDE DEF f
<1>7. AbsG(h) = f
  BY <1>1, <1>3, <1>4, <1>5, <1>6, SameAbsG
<1> QED
  BY <1>7 DEF f, h

(* RequestedTx, as the rules have it. *)
LEMMA RequestedAbstract ==
    ASSUME NEW tx \in Txs, NEW g \in Groups, Sane(tx, g), NEW p \in Peers, NEW t \in Int
    PROVE  AbsG(RequestedTx(g, p, t)) =
             IF AbsG(g)[p] = none \/ AbsG(g)[p].state # "CANDIDATE" THEN AbsG(g)
             ELSE [q \in Peers |->
                     IF q = p THEN [state |-> "REQUESTED", time |-> t]
                     ELSE IF AbsG(g)[q] # none /\ AbsG(g)[q].state = "REQUESTED"
                     THEN Gone ELSE AbsG(g)[q]]
<1> DEFINE h == RequestedTx(g, p, t)
           f == [q \in Peers |->
                   IF q = p THEN [state |-> "REQUESTED", time |-> t]
                   ELSE IF AbsG(g)[q] # none /\ AbsG(g)[q].state = "REQUESTED"
                   THEN Gone ELSE AbsG(g)[q]]
<1>1. h \in Groups /\ Requests(g, h, p, t)
  BY RequestedIs
<1> HIDE DEF h
<1>2. \A q \in Peers : /\ AbsG(g)[q] = Abstract(g[q])
                       /\ g[q] \in Known \cup {none} /\ h[q] \in Known \cup {none}
  BY <1>1, Stages DEF AbsG
<1>3. AbsG(g)[p] = none \/ AbsG(g)[p].state # "CANDIDATE" <=> Stage(g, p) \notin Candidates
  <2>1. "none" \notin Candidates
    BY DEF Candidates
  <2> QED
    BY <1>2, <2>1, AbstractIs DEF Stage
<1>4. CASE Stage(g, p) \notin Candidates
  BY <1>1, <1>3, <1>4 DEF Requests, h
<1>5. CASE Stage(g, p) \in Candidates
  <2>1. /\ h[p] = [state |-> "REQUESTED", time |-> t]
        /\ \A q \in Peers \ {p} : IF Stage(g, q) = "REQUESTED" THEN h[q] = Completed
                                  ELSE Like(g[q], h[q])
    BY <1>1, <1>5 DEF Requests
  <2>2. Abstract(h[p]) = f[p]
    <3>1. h[p].state \notin Candidates
      BY <2>1 DEF Candidates
    <3>2. h[p] # none
      <4>1. "REQUESTED" \in Live
        BY DEF Live, States, Candidates
      <4> QED
        BY <2>1, <4>1, Parts
    <3> QED
      BY <1>2, <2>1, <3>1, <3>2, AbstractIs
  <2>3. ASSUME NEW q \in Peers \ {p} PROVE Abstract(h[q]) = f[q]
    <3>1. AbsG(g)[q] # none /\ AbsG(g)[q].state = "REQUESTED" <=> Stage(g, q) = "REQUESTED"
      BY <1>2, AbstractIs DEF Stage
    <3>2. CASE Stage(g, q) = "REQUESTED"
      <4>1. f[q] = Gone /\ h[q] = Completed
        BY <2>1, <3>1, <3>2
      <4> QED
        BY <4>1, CompletedAbstract DEF Gone, Completed
    <3>3. CASE Stage(g, q) # "REQUESTED"
      <4>1. f[q] = Abstract(g[q]) /\ Like(g[q], h[q])
        BY <1>2, <2>1, <3>1, <3>3
      <4> QED
        BY <1>2, <4>1, LikeAbstract
    <3> QED
      BY <3>2, <3>3
  <2>4. DOMAIN f = Peers /\ f = [q \in Peers |-> f[q]]
    OBVIOUS
  <2> HIDE DEF f
  <2>5. AbsG(h) = f
    BY <2>2, <2>3, <2>4, SameAbsG
  <2> QED
    BY <1>3, <1>5, <2>5 DEF f, h
<1> QED
  BY <1>4, <1>5

(* ReceivedResponse, as the rules have it. *)
LEMMA ResponseAbstract ==
    ASSUME NEW tx \in Txs, NEW g \in Groups, Sane(tx, g), NEW p \in Peers
    PROVE  AbsG(ReceivedResponse(tx, g, p)) =
             Rules!Forgotten([AbsG(g) EXCEPT ![p] = IF AbsG(g)[p] = none THEN none ELSE Gone])
<1> DEFINE f == [AbsG(g) EXCEPT ![p] = IF AbsG(g)[p] = none THEN none ELSE Gone]
<1>1. \A q \in Peers : AbsG(g)[q] = Abstract(g[q]) /\ g[q] \in Known \cup {none}
  BY Stages DEF AbsG
<1>2. /\ DOMAIN f = Peers /\ f = [q \in Peers |-> f[q]]
      /\ f[p] = IF AbsG(g)[p] = none THEN none ELSE Gone
      /\ \A q \in Peers \ {p} : f[q] = Abstract(g[q])
  BY DEF AbsG
<1>3. CASE g[p] = none
  <2>1. Abstract(g[p]) = none
    BY <1>3, CompletedAbstract
  <2>2. f[p] = none
    BY <1>1, <1>2, <2>1
  <2> HIDE DEF f
  <2>3. AbsG(g) = f
    BY <1>2, <2>1, <2>2, SameAbsG
  <2>4. ReceivedResponse(tx, g, p) = g
    BY <1>3 DEF ReceivedResponse
  <2> QED
    BY <2>3, <2>4, SaneForgotten DEF f
<1>4. CASE g[p] # none
  <2> DEFINE h == MakeCompleted(tx, g, p)
  <2>1. h \in Groups /\ Sane(tx, h) /\ MakesCompleted(g, h, p)
    BY <1>4, MakeCompletedIs
  <2>2. ReceivedResponse(tx, g, p) = h
    BY <1>4 DEF ReceivedResponse
  <2> HIDE DEF h
  <2>3. f[p] = Completed
    BY <1>1, <1>2, <1>4, AbstractIs DEF Gone, Completed
  <2> HIDE DEF f
  <2>4. CASE Stage(g, p) = "COMPLETED" /\ h = g
    <3>1. g[p] = Completed
      BY <1>1, <1>4, <2>4, Parts DEF Stage
    <3>2. AbsG(g) = f
      BY <1>2, <2>3, <3>1, CompletedAbstract, SameAbsG
    <3> QED
      BY <2>2, <2>4, <3>2, SaneForgotten DEF f
  <2>5. CASE h = Nothing /\ \A q \in Peers \ {p} : g[q] \in {none, Completed}
    <3>1. \A q \in Peers : f[q] \in {none, Completed}
      BY <1>2, <2>3, <2>5, CompletedAbstract
    <3>2. Rules!Forgotten(f) = AbsG(Nothing)
      BY <3>1, CompletedForgotten
    <3> QED
      BY <2>2, <2>5, <3>2 DEF f
  <2>6. CASE h[p] = Completed /\ OthersLike(g, h, p)
    <3>1. Abstract(h[p]) = f[p]
      BY <2>3, <2>6, CompletedAbstract
    <3>2. ASSUME NEW q \in Peers \ {p} PROVE Abstract(h[q]) = f[q]
      <4>1. Like(g[q], h[q]) /\ h[q] \in Known \cup {none}
        BY <2>1, <2>6, Stages DEF OthersLike
      <4> QED
        BY <1>1, <1>2, <4>1, LikeAbstract
    <3>3. AbsG(h) = f
      BY <1>2, <3>1, <3>2, SameAbsG
    <3> QED
      BY <2>1, <2>2, <3>3, SaneForgotten DEF f
  <2> QED
    BY <2>1, <2>4, <2>5, <2>6 DEF MakesCompleted
<1> QED
  BY <1>3, <1>4

(* DisconnectedPeer, as the rules have it. *)
LEMMA DisconnectedAbstract ==
    ASSUME NEW tx \in Txs, NEW g \in Groups, Sane(tx, g), NEW p \in Peers
    PROVE  AbsG(DisconnectedPeer(tx, g, p)) = Rules!Forgotten([AbsG(g) EXCEPT ![p] = none])
<1> DEFINE f == [AbsG(g) EXCEPT ![p] = none]
           h == DisconnectedPeer(tx, g, p)
<1>1. h \in Groups /\ Sane(tx, h) /\ Disconnects(g, h, p)
  BY DisconnectedIs
<1> HIDE DEF h
<1>2. /\ DOMAIN f = Peers /\ f = [q \in Peers |-> f[q]]
      /\ f[p] = none /\ \A q \in Peers \ {p} : f[q] = Abstract(g[q])
  BY DEF AbsG
<1> HIDE DEF f
<1>3. \A q \in Peers : g[q] \in Known \cup {none} /\ h[q] \in Known \cup {none}
  BY <1>1, Stages
<1>4. ASSUME h[p] = none, \A q \in Peers \ {p} : Abstract(h[q]) = Abstract(g[q])
      PROVE  AbsG(h) = Rules!Forgotten(f)
  <2>1. AbsG(h) = f
    BY <1>2, <1>4, CompletedAbstract, SameAbsG
  <2> QED
    BY <1>1, <2>1, SaneForgotten
<1>5. CASE h = Nothing /\ \A q \in Peers \ {p} : g[q] \in {none, Completed}
  <2>1. \A q \in Peers : f[q] \in {none, Completed}
    BY <1>2, <1>5, CompletedAbstract
  <2> QED
    BY <1>5, <2>1, CompletedForgotten DEF f, h
<1>6. CASE h[p] = none /\ \A q \in Peers \ {p} : Like(g[q], h[q])
  <2>1. \A q \in Peers \ {p} : Abstract(h[q]) = Abstract(g[q])
    BY <1>3, <1>6, LikeAbstract
  <2> QED
    BY <1>4, <1>6, <2>1 DEF f, h
<1>7. CASE h = g /\ g[p] = none
  BY <1>4, <1>7 DEF f, h
<1>8. CASE h = [g EXCEPT ![p] = none]
  <2>1. h[p] = none /\ \A q \in Peers \ {p} : h[q] = g[q]
    BY <1>8 DEF Groups
  <2> QED
    BY <1>4, <2>1 DEF f, h
<1> QED
  BY <1>1, <1>5, <1>6, <1>7, <1>8 DEF Disconnects, OthersLike

(* SetTimePoint, as the rules have it. *)
LEMMA TimeAbstract ==
    ASSUME NEW tx \in Txs, NEW g \in Groups, NEW h \in Groups, Sane(tx, h),
           NEW now \in Int, TimePassed(g, h, now)
    PROVE  AbsG(h) = Rules!Forgotten(Rules!Expired(AbsG(g), now))
<1> DEFINE f == Rules!Expired(AbsG(g), now)
<1>1. \A q \in Peers : /\ AbsG(g)[q] = Abstract(g[q])
                       /\ g[q] \in Known \cup {none} /\ h[q] \in Known \cup {none}
  BY Stages DEF AbsG
<1>2. /\ DOMAIN f = Peers /\ f = [q \in Peers |-> f[q]]
      /\ \A q \in Peers : f[q] = IF Abstract(g[q]) # none /\ Abstract(g[q]).state = "REQUESTED"
                                     /\ Abstract(g[q]).time <= now
                                 THEN Gone ELSE Abstract(g[q])
  BY <1>1 DEF Rules!Expired, Gone
<1> HIDE DEF f
<1>3. \A q \in Peers : f[q] = IF IsExpired(g[q], now) THEN Completed ELSE Abstract(g[q])
  <2> SUFFICES ASSUME NEW q \in Peers
               PROVE  f[q] = IF IsExpired(g[q], now) THEN Completed ELSE Abstract(g[q])
    OBVIOUS
  <2>1. IsExpired(g[q], now) <=> /\ Abstract(g[q]) # none /\ Abstract(g[q]).state = "REQUESTED"
                                 /\ Abstract(g[q]).time <= now
    BY <1>1, AbstractIs DEF IsExpired
  <2> QED
    BY <1>2, <2>1 DEF Gone, Completed
<1>4. CASE \A q \in Peers : IF IsExpired(g[q], now) THEN h[q] = Completed ELSE Alike(g[q], h[q])
  <2>1. ASSUME NEW q \in Peers PROVE Abstract(h[q]) = f[q]
    <3>1. CASE IsExpired(g[q], now)
      BY <1>3, <1>4, <3>1, CompletedAbstract
    <3>2. CASE ~IsExpired(g[q], now)
      BY <1>1, <1>3, <1>4, <3>2, AlikeAbstract
    <3> QED
      BY <3>1, <3>2
  <2>2. AbsG(h) = f
    BY <1>2, <2>1, SameAbsG
  <2> QED
    BY <2>2, SaneForgotten DEF f
<1>5. CASE h = Nothing /\ \A q \in Peers : g[q] \in {none, Completed} \/ IsExpired(g[q], now)
  <2>1. \A q \in Peers : f[q] \in {none, Completed}
    BY <1>3, <1>5, CompletedAbstract
  <2> QED
    BY <1>5, <2>1, CompletedForgotten DEF f
<1> QED
  BY <1>4, <1>5 DEF TimePassed

(* The rules see a function of the index; each transaction on its own. *)
LEMMA AbsIIs == ASSUME NEW index PROVE AbsI(index) = [tx \in Txs |-> AbsG(index[tx])]
BY DEF AbsI, AbsG

(* A change of one transaction, of which nothing else is to be forgotten. *)
LEMMA OneAbstract ==
    ASSUME NEW index, GoodIndex(index), NEW tx \in Txs, NEW g
    PROVE  AbsI([index EXCEPT ![tx] = g]) = [AbsI(index) EXCEPT ![tx] = AbsG(g)]
<1> DEFINE new == [index EXCEPT ![tx] = g]
<1>1. DOMAIN index = Txs
  BY DEF GoodIndex
<1>2. \A u \in Txs : new[u] = IF u = tx THEN g ELSE index[u]
  BY <1>1
<1> HIDE DEF new
<1>3. AbsI(new) = [u \in Txs |-> AbsG(new[u])] /\ AbsI(index) = [u \in Txs |-> AbsG(index[u])]
  BY AbsIIs
<1>4. \A u \in Txs : AbsG(new[u]) = IF u = tx THEN AbsG(g) ELSE AbsG(index[u])
  BY <1>2
<1>5. AbsI(new) = [AbsI(index) EXCEPT ![tx] = AbsG(g)]
  BY <1>3, <1>4
<1> QED
  BY <1>5 DEF new

OneChange(index, next, g, new, f, tx) ==
    /\ GoodIndex(index) /\ next = [index EXCEPT ![tx] = g]
    /\ new = [AbsI(index) EXCEPT ![tx] = f] /\ AbsG(g) = Rules!Forgotten(f)

(* The rest of the index is as the rules leave it. *)
LEMMA OneForgotten ==
    ASSUME NEW index, NEW next, NEW g, NEW new, NEW f, NEW tx \in Txs,
           OneChange(index, next, g, new, f, tx)
    PROVE  \A u \in Txs : AbsG(next[u]) = Rules!Forgotten(new[u])
<1>1. \A u \in Txs : new[u] = IF u = tx THEN f ELSE AbsG(index[u])
  BY AbsIIs DEF OneChange
<1>2. \A u \in Txs : index[u] \in Groups /\ Sane(u, index[u])
  BY Typed DEF GoodIndex, Good, OneChange
<1>3. \A u \in Txs : Rules!Forgotten(new[u]) = IF u = tx THEN AbsG(g) ELSE AbsG(index[u])
  BY <1>1, <1>2, SaneForgotten DEF OneChange
<1>4. \A u \in Txs : next[u] = IF u = tx THEN g ELSE index[u]
  BY DEF GoodIndex, OneChange
<1> QED
  BY <1>3, <1>4

(* An announcement is in the rules exactly when it is in the index, so the *)
(* same ones leave the order.                                              *)
LEMMA StaysAbstract ==
    ASSUME NEW index, GoodIndex(index), NEW p \in Peers
    PROVE  {tx \in Txs : AbsI(index)[tx][p] # none} = {tx \in Txs : index[tx][p] # none}
<1>1. ASSUME NEW tx \in Txs PROVE AbsI(index)[tx][p] # none <=> index[tx][p] # none
  <2>1. index[tx] \in Groups
    BY Typed DEF GoodIndex, Good
  <2>2. AbsI(index)[tx][p] = Abstract(index[tx][p]) /\ index[tx][p] \in Known \cup {none}
    BY <2>1, Stages DEF AbsI
  <2> QED
    BY <2>2, AbstractIs
<1> QED
  BY <1>1

(* The BEST one of a transaction is the one that the rules let ask for it. *)
LEMMA BestIsToAsk ==
    ASSUME NEW tx \in Txs, NEW g \in Groups, Sane(tx, g), NEW now \in Int, Timely(g, now),
           NEW p \in Peers,
           NEW may, may = {q \in Peers : /\ AbsG(g)[q] # none /\ AbsG(g)[q].state = "CANDIDATE"
                                         /\ AbsG(g)[q].time <= now}
    PROVE  p \in In(g, {"CANDIDATE_BEST"}) <=>
             /\ \A q \in Peers : AbsG(g)[q] # none => AbsG(g)[q].state # "REQUESTED"
             /\ p \in may
             /\ \A q \in may \ {p} : Better(tx, p, q)
<1>1. \A q \in Peers : /\ AbsG(g)[q] = Abstract(g[q]) /\ g[q] \in Known \cup {none}
                       /\ g[q] # none => g[q].time \in Int
  BY Stages, Parts DEF AbsG
<1>2. ASSUME NEW q \in Peers
      PROVE  /\ q \in may <=> Stage(g, q) \in {"CANDIDATE_READY", "CANDIDATE_BEST"}
             /\ (AbsG(g)[q] # none => AbsG(g)[q].state # "REQUESTED") <=> Stage(g, q) # "REQUESTED"
  <2>1. CASE g[q] = none
    BY <1>1, <2>1, CompletedAbstract DEF Stage
  <2>2. CASE g[q] # none
    <3>1. /\ AbsG(g)[q] # none /\ g[q].state = Stage(g, q) /\ AbsG(g)[q].time = g[q].time
          /\ AbsG(g)[q].state = "CANDIDATE" <=> Stage(g, q) \in Candidates
          /\ AbsG(g)[q].state = "REQUESTED" <=> Stage(g, q) = "REQUESTED"
      BY <1>1, <2>2, AbstractIs DEF Stage
    <3>2. q \in may <=> Stage(g, q) \in Candidates /\ g[q].time <= now
      BY <3>1
    <3>3. /\ Stage(g, q) = "CANDIDATE_DELAYED" => g[q].time > now
          /\ Stage(g, q) \in {"CANDIDATE_READY", "CANDIDATE_BEST"} => g[q].time <= now
      BY DEF Timely
    <3>4. g[q].time \in Int
      BY <1>1, <2>2
    <3>5. Stage(g, q) = "CANDIDATE_DELAYED" => ~(g[q].time <= now)
      BY <3>3, <3>4
    <3> QED
      BY <3>1, <3>2, <3>3, <3>5 DEF Candidates
  <2> QED
    BY <2>1, <2>2
<1>3. p \in In(g, {"CANDIDATE_BEST"}) <=> Stage(g, p) = "CANDIDATE_BEST"
  <2>1. {"CANDIDATE_BEST"} \in SUBSET States
    BY DEF States, Candidates
  <2> QED
    BY <2>1, Stages
<1>4. may \subseteq Peers
  OBVIOUS
<1>5. ASSUME Stage(g, p) = "CANDIDATE_BEST"
      PROVE  /\ \A q \in Peers : Stage(g, q) # "REQUESTED"
             /\ p \in may /\ \A q \in may \ {p} : Better(tx, p, q)
  <2>1. \A q \in Peers : Stage(g, q) \in Selected => q = p
    BY <1>5 DEF Sane, Selected
  <2>2. \A q \in Peers : Stage(g, q) # "REQUESTED"
    BY <1>5, <2>1 DEF Selected
  <2>3. \A q \in may \ {p} : Stage(g, q) = "CANDIDATE_READY"
    BY <1>2, <1>4, <2>1 DEF Selected
  <2> QED
    BY <1>2, <1>4, <1>5, <2>2, <2>3 DEF Sane
<1>6. ASSUME \A q \in Peers : Stage(g, q) # "REQUESTED", p \in may,
             \A q \in may \ {p} : Better(tx, p, q)
      PROVE  Stage(g, p) = "CANDIDATE_BEST"
  <2> SUFFICES ASSUME Stage(g, p) = "CANDIDATE_READY" PROVE FALSE
    BY <1>2, <1>6
  <2>1. PICK q \in Peers : Stage(g, q) \in Selected
    BY DEF Sane
  <2>2. Stage(g, q) = "CANDIDATE_BEST" /\ q # p /\ q \in may
    BY <1>2, <1>6, <2>1 DEF Selected
  <2>3. Better(tx, q, p) /\ Better(tx, p, q)
    BY <1>6, <2>2 DEF Sane
  <2> QED
    BY <2>3, Priorities
<1> HIDE DEF Timely
<1> QED
  BY <1>2, <1>3, <1>5, <1>6

(* Only is the same in both modules. *)
LEMMA RulesOnly == ASSUME NEW s, NEW txs PROVE Rules!Only(s, txs) = Only(s, txs)
BY DEF Only, Rules!Only, FoldLeft, Rules!FoldLeft, MapThenFoldSet, Rules!MapThenFoldSet, Max, Rules!Max

(* The same change of the index and of the order, in the rules. *)
LEMMA RulesBecomes ==
    ASSUME NEW new, GoodIndex(m_index'), order' = Remaining(m_index'),
           AbsI(m_index') = [tx \in Txs |-> Rules!Forgotten(new[tx])]
    PROVE  Rules!Becomes(new)
<1>1. \A p \in Peers : {tx \in Txs : AbsI(m_index')[tx][p] # none} = {tx \in Txs : m_index'[tx][p] # none}
  BY StaysAbstract
<1>2. order' = [p \in Peers |-> Rules!Only(order[p], {tx \in Txs : AbsI(m_index')[tx][p] # none})]
  BY <1>1, RulesOnly DEF Remaining
<1> QED
  BY <1>2 DEF Rules!Becomes, AbsI

(* Each call is the call of the same name in the rules. *)
LEMMA RulesInv ==
    ASSUME TrackerInv, NEW tx \in Txs, NEW p \in Peers, NEW t \in Times, Inv(tx, p, t)
    PROVE  Rules!ReceivedInv(p, tx, t)
<1>1. /\ m_index' = [m_index EXCEPT ![tx] = ReceivedInv(m_index[tx], p, t)] /\ reply' = none
      /\ order' = [order EXCEPT ![p] = IF m_index[tx][p] = none THEN Append(order[p], tx) ELSE order[p]]
  BY DEF Inv
<1>2. GoodIndex(m_index) /\ m_index[tx] \in Groups /\ Sane(tx, m_index[tx]) /\ t \in Int
  BY IndexGood, Typed DEF TrackerInv
<1>3. AbsI(m_index)[tx] = AbsG(m_index[tx]) /\ AbsI(m_index)[tx][p] = Abstract(m_index[tx][p])
  BY DEF AbsI, AbsG
<1>4. AbsI(m_index)[tx][p] = none <=> m_index[tx][p] = none
  BY <1>2, <1>3, Stages, AbstractIs
<1>5. AbsI(m_index') = [AbsI(m_index) EXCEPT ![tx] =
         [AbsI(m_index)[tx] EXCEPT ![p] =
             IF AbsI(m_index)[tx][p] = none THEN [state |-> "CANDIDATE", time |-> t]
             ELSE AbsI(m_index)[tx][p]]]
  <2>1. AbsG(ReceivedInv(m_index[tx], p, t)) =
           [AbsG(m_index[tx]) EXCEPT ![p] =
               IF AbsG(m_index[tx])[p] = none THEN [state |-> "CANDIDATE", time |-> t]
               ELSE AbsG(m_index[tx])[p]]
    BY <1>2, InvAbstract
  <2>2. AbsI(m_index') = [AbsI(m_index) EXCEPT ![tx] = AbsG(ReceivedInv(m_index[tx], p, t))]
    BY <1>1, <1>2, OneAbstract
  <2> QED
    BY <1>3, <2>1, <2>2
<1> QED
  BY <1>1, <1>4, <1>5 DEF Rules!ReceivedInv, AbsI

(* RequestedTx. *)
LEMMA RulesRequested ==
    ASSUME TrackerInv, NEW tx \in Txs, NEW p \in Peers, NEW t \in Times, Requested(tx, p, t)
    PROVE  Rules!RequestedTx(p, tx, t)
<1>1. /\ m_index' = [m_index EXCEPT ![tx] = RequestedTx(m_index[tx], p, t)]
      /\ reply' = none /\ order' = order
  BY DEF Requested
<1>2. GoodIndex(m_index) /\ m_index[tx] \in Groups /\ Sane(tx, m_index[tx]) /\ t \in Int
  BY IndexGood, Typed DEF TrackerInv
<1> DEFINE K == AbsI(m_index)
<1>3. K[tx] = AbsG(m_index[tx]) /\ K = [u \in Txs |-> K[u]]
  BY DEF AbsI, AbsG
<1>4. AbsI(m_index') = [K EXCEPT ![tx] = AbsG(RequestedTx(m_index[tx], p, t))]
  BY <1>1, <1>2, OneAbstract
<1>5. AbsG(RequestedTx(m_index[tx], p, t)) =
         IF K[tx][p] = none \/ K[tx][p].state # "CANDIDATE" THEN K[tx]
         ELSE [q \in Peers |->
                 IF q = p THEN [state |-> "REQUESTED", time |-> t]
                 ELSE IF K[tx][q] # none /\ K[tx][q].state = "REQUESTED" THEN Gone ELSE K[tx][q]]
  BY <1>2, <1>3, RequestedAbstract
<1> HIDE DEF K
<1>6. AbsI(m_index') =
         IF K[tx][p] = none \/ K[tx][p].state # "CANDIDATE" THEN K
         ELSE [K EXCEPT ![tx] = [q \in Peers |->
                 IF q = p THEN [state |-> "REQUESTED", time |-> t]
                 ELSE IF K[tx][q] # none /\ K[tx][q].state = "REQUESTED" THEN Gone ELSE K[tx][q]]]
  <2>1. [K EXCEPT ![tx] = K[tx]] = K
    BY <1>3
  <2> QED
    BY <1>4, <1>5, <2>1
<1> QED
  BY <1>1, <1>6 DEF Rules!RequestedTx, AbsI, K, Gone

(* ReceivedResponse. *)
LEMMA RulesResponse ==
    ASSUME TrackerInv, TrackerInv', NEW tx \in Txs, NEW p \in Peers, Response(tx, p)
    PROVE  Rules!ReceivedResponse(p, tx)
<1>1. /\ m_index' = [m_index EXCEPT ![tx] = ReceivedResponse(tx, m_index[tx], p)]
      /\ order' = Remaining(m_index') /\ reply' = none
  BY DEF Response, Becomes
<1>2. GoodIndex(m_index) /\ GoodIndex(m_index') /\ m_index[tx] \in Groups /\ Sane(tx, m_index[tx])
  BY IndexGood, Typed DEF TrackerInv, GoodIndex, Good
<1> DEFINE K == AbsI(m_index)
           f == [K[tx] EXCEPT ![p] = IF K[tx][p] = none THEN none ELSE Gone]
           new == [K EXCEPT ![tx] = f]
<1>3. K[tx] = AbsG(m_index[tx])
  BY DEF AbsI, AbsG
<1>4. AbsG(ReceivedResponse(tx, m_index[tx], p)) = Rules!Forgotten(f)
  BY <1>2, <1>3, ResponseAbstract
<1> HIDE DEF f
<1>5. AbsI(m_index') = [u \in Txs |-> Rules!Forgotten(new[u])]
  <2>1. new = [AbsI(m_index) EXCEPT ![tx] = f]
    OBVIOUS
  <2> HIDE DEF new, K
  <2>2. \A u \in Txs : AbsG(m_index'[u]) = Rules!Forgotten(new[u])
    <3>1. OneChange(m_index, m_index', ReceivedResponse(tx, m_index[tx], p), new, f, tx)
      BY <1>1, <1>2, <1>4, <2>1 DEF OneChange
    <3> QED
      BY <3>1, OneForgotten
  <2> QED
    BY <2>2, AbsIIs
<1> HIDE DEF new
<1>6. Rules!Becomes(new)
  BY <1>1, <1>2, <1>5, RulesBecomes
<1>7. new = [K EXCEPT ![tx] = [K[tx] EXCEPT ![p] = IF K[tx][p] = none THEN none ELSE Gone]]
  BY DEF new, f
<1> QED
  BY <1>1, <1>6, <1>7 DEF Rules!ReceivedResponse, AbsI, Gone

(* DisconnectedPeer. *)
LEMMA RulesDisconnected ==
    ASSUME TrackerInv, TrackerInv', NEW p \in Peers, Disconnected(p)
    PROVE  Rules!DisconnectedPeer(p)
<1>1. /\ m_index' = [tx \in Txs |-> DisconnectedPeer(tx, m_index[tx], p)]
      /\ order' = Remaining(m_index') /\ reply' = none
  BY DEF Disconnected, Becomes
<1>2. /\ GoodIndex(m_index) /\ GoodIndex(m_index')
      /\ \A tx \in Txs : m_index[tx] \in Groups /\ Sane(tx, m_index[tx])
  BY IndexGood, Typed DEF TrackerInv, GoodIndex, Good
<1> DEFINE K == AbsI(m_index)
           new == [tx \in Txs |-> [K[tx] EXCEPT ![p] = none]]
<1>3. \A tx \in Txs : K[tx] = AbsG(m_index[tx])
  BY DEF AbsI, AbsG
<1>4. \A tx \in Txs : AbsG(m_index'[tx]) = Rules!Forgotten(new[tx])
  BY <1>1, <1>2, <1>3, DisconnectedAbstract
<1> HIDE DEF new
<1>5. AbsI(m_index') = [tx \in Txs |-> Rules!Forgotten(new[tx])]
  BY <1>4, AbsIIs
<1>6. Rules!Becomes(new)
  BY <1>1, <1>2, <1>5, RulesBecomes
<1> QED
  BY <1>1, <1>6 DEF Rules!DisconnectedPeer, AbsI, new

(* ForgetTxHash. *)
LEMMA RulesForget ==
    ASSUME TrackerInv, TrackerInv', NEW tx \in Txs, ForgetTxHash(tx)
    PROVE  Rules!ForgetTxHash(tx)
<1>1. /\ m_index' = [m_index EXCEPT ![tx] = Nothing]
      /\ order' = Remaining(m_index') /\ reply' = none
  BY DEF ForgetTxHash, Becomes
<1>2. GoodIndex(m_index) /\ GoodIndex(m_index')
  BY IndexGood DEF TrackerInv, GoodIndex, Good
<1> DEFINE f == [q \in Peers |-> none]
           new == [AbsI(m_index) EXCEPT ![tx] = f]
<1>3. AbsG(Nothing) = Rules!Forgotten(f)
  BY CompletedForgotten
<1> HIDE DEF f
<1>4. AbsI(m_index') = [u \in Txs |-> Rules!Forgotten(new[u])]
  <2>1. new = [AbsI(m_index) EXCEPT ![tx] = f]
    OBVIOUS
  <2> HIDE DEF new
  <2>2. \A u \in Txs : AbsG(m_index'[u]) = Rules!Forgotten(new[u])
    <3>1. OneChange(m_index, m_index', Nothing, new, f, tx)
      BY <1>1, <1>2, <1>3, <2>1 DEF OneChange
    <3> QED
      BY <3>1, OneForgotten
  <2> QED
    BY <2>2, AbsIIs
<1> HIDE DEF new
<1>5. Rules!Becomes(new)
  BY <1>1, <1>2, <1>4, RulesBecomes
<1> QED
  BY <1>1, <1>5 DEF Rules!ForgetTxHash, AbsI, new, f

(* GetRequestable: what it returns is what the rules say. *)
LEMMA RulesGetRequestable ==
    ASSUME TrackerInv, TrackerInv', NEW p \in Peers, NEW now \in Times, GetRequestable(p, now)
    PROVE  Rules!GetRequestable(p, now)
<1>1. PICK new \in AtTime(m_index, now) :
         /\ m_index' = new /\ order' = Remaining(new)
         /\ reply' = [peer |-> p, now |-> now, txs |-> Requestable(new, p)]
  BY DEF GetRequestable, Becomes
<1>2. /\ GoodIndex(m_index) /\ GoodIndex(m_index') /\ now \in Int
      /\ \A tx \in Txs : m_index[tx] \in Groups
      /\ \A tx \in Txs : m_index'[tx] \in Groups /\ Sane(tx, m_index'[tx])
  BY IndexGood, Typed DEF TrackerInv, GoodIndex, Good
<1>3. \A tx \in Txs : Timely(m_index'[tx], now) /\ TimePassed(m_index[tx], m_index'[tx], now)
  BY <1>1, <1>2, AtTimeIs
<1> DEFINE K == AbsI(m_index)
           due == [tx \in Txs |-> Rules!Expired(K[tx], now)]
<1>4. \A tx \in Txs : K[tx] = AbsG(m_index[tx])
  BY DEF AbsI, AbsG
<1>5. \A tx \in Txs : AbsG(m_index'[tx]) = Rules!Forgotten(due[tx])
  BY <1>2, <1>3, <1>4, TimeAbstract
<1> HIDE DEF due
<1>6. AbsI(m_index') = [tx \in Txs |-> Rules!Forgotten(due[tx])]
  BY <1>5, AbsIIs
<1>7. Rules!Becomes(due)
  BY <1>1, <1>2, <1>6, RulesBecomes
<1>8. {tx \in Txs : p \in In(m_index'[tx], {"CANDIDATE_BEST"})} = Rules!ToAsk(p, now)
  <2> DEFINE L == AbsI(m_index')
             May(tx) == {q \in Peers : /\ L[tx][q] # none /\ L[tx][q].state = "CANDIDATE"
                                       /\ L[tx][q].time <= now}
  <2>1. \A tx \in Txs : L[tx] = AbsG(m_index'[tx])
    BY DEF AbsI, AbsG
  <2>2. ASSUME NEW tx \in Txs
        PROVE  p \in In(m_index'[tx], {"CANDIDATE_BEST"}) <=>
                 /\ \A q \in Peers : L[tx][q] # none => L[tx][q].state # "REQUESTED"
                 /\ p \in May(tx)
                 /\ \A q \in May(tx) \ {p} : Better(tx, p, q)
    <3> DEFINE g == m_index'[tx]
    <3>1. g \in Groups /\ Sane(tx, g) /\ Timely(g, now) /\ L[tx] = AbsG(g)
      BY <1>2, <1>3, <2>1
    <3> HIDE DEF g, L
    <3>2. May(tx) = {q \in Peers : /\ AbsG(g)[q] # none /\ AbsG(g)[q].state = "CANDIDATE"
                                   /\ AbsG(g)[q].time <= now}
      BY <3>1
    <3> HIDE DEF May
    <3>3. p \in In(g, {"CANDIDATE_BEST"}) <=>
             /\ \A q \in Peers : AbsG(g)[q] # none => AbsG(g)[q].state # "REQUESTED"
             /\ p \in May(tx)
             /\ \A q \in May(tx) \ {p} : Better(tx, p, q)
      BY <1>2, <3>1, <3>2, BestIsToAsk
    <3> QED
      BY <3>1, <3>3 DEF g
  <2>3. \A tx \in Txs : May(tx) = Rules!MayAsk(tx, now)
    BY DEF Rules!MayAsk, AbsI
  <2>4. Rules!ToAsk(p, now) = {tx \in Txs :
           /\ \A q \in Peers : L[tx][q] # none => L[tx][q].state # "REQUESTED"
           /\ p \in Rules!MayAsk(tx, now)
           /\ \A q \in Rules!MayAsk(tx, now) \ {p} : Better(tx, p, q)}
    BY DEF Rules!ToAsk, AbsI
  <2> HIDE DEF L, May
  <2> QED
    BY <2>2, <2>3, <2>4
<1>9. Requestable(new, p) = Rules!Only(order'[p], Rules!ToAsk(p, now))
  BY <1>1, <1>8, RulesOnly DEF Requestable
<1> QED
  BY <1>1, <1>7, <1>9 DEF Rules!GetRequestable, AbsI, due

(* The tracker implements the rules of its header, for any peers,          *)
(* transactions, priorities and times: what GetRequestable returns is what *)
(* three states and the priorities determine, whatever the clock did.      *)
THEOREM TrackerImplementsRules == TrackerSpec => ImplementsRules
<1>1. TrackerInit => Rules!Init
  <2>1. ASSUME TrackerInit PROVE [tx \in Txs |-> [p \in Peers |-> Abstract(m_index[tx][p])]]
                            = [tx \in Txs |-> [p \in Peers |-> none]]
    BY <2>1, CompletedAbstract DEF TrackerInit, Nothing
  <2> QED
    BY <2>1 DEF TrackerInit, Rules!Init
<1>2. ASSUME TrackerInv, TrackerInv', [TrackerNext]_tracker_vars
      PROVE  [Rules!Next]_<<[tx \in Txs |-> [p \in Peers |-> Abstract(m_index[tx][p])]], order, reply>>
  <2>0. Times = 0..MaxTime
    BY DEF Times
  <2>1. ASSUME NEW tx \in Txs, NEW p \in Peers, NEW t \in Times, Inv(tx, p, t) PROVE Rules!Next
    BY <1>2, <2>0, <2>1, RulesInv DEF Rules!Next
  <2>2. ASSUME NEW tx \in Txs, NEW p \in Peers, NEW t \in Times, Requested(tx, p, t) PROVE Rules!Next
    BY <1>2, <2>0, <2>2, RulesRequested DEF Rules!Next
  <2>3. ASSUME NEW p \in Peers, NEW now \in Times, GetRequestable(p, now) PROVE Rules!Next
    BY <1>2, <2>0, <2>3, RulesGetRequestable DEF Rules!Next
  <2>4. ASSUME NEW tx \in Txs, NEW p \in Peers, Response(tx, p) PROVE Rules!Next
    BY <1>2, <2>4, RulesResponse DEF Rules!Next
  <2>5. ASSUME NEW p \in Peers, Disconnected(p) PROVE Rules!Next
    BY <1>2, <2>5, RulesDisconnected DEF Rules!Next
  <2>6. ASSUME NEW tx \in Txs, ForgetTxHash(tx) PROVE Rules!Next
    BY <1>2, <2>6, RulesForget DEF Rules!Next
  <2>7. CASE UNCHANGED tracker_vars
    BY <2>7 DEF tracker_vars
  <2> QED
    BY <1>2, <2>1, <2>2, <2>3, <2>4, <2>5, <2>6, <2>7 DEF TrackerNext
<1> QED
  BY <1>1, <1>2, TrackerInvariant, PTL DEF TrackerSpec, ImplementsRules, Rules!Spec
-----------------------------------------------------------------------------
(* TxDownload.  Announcements are those of the tracker, with times up to   *)
(* the delays and the interval of the requests.                            *)
DownloadGroups == [Peers -> Announcements \cup {none}]
AnnouncedBy(index, p) == {tx \in Txs : index[tx][p] # none}
MaxDelay == NONPREF_PEER_TX_DELAY + OVERLOADED_PEER_TX_DELAY

(* The index of the tracker is sane, and its announcements have times in   *)
(* their ranges.                                                           *)
SaneIndex(index) ==
    index \in [Txs -> DownloadGroups] /\ \A tx \in Txs : Sane(tx, index[tx])

(* Nothing is kept of what is over: see NothingStale. *)
InUse(tx, p) ==
    /\ Stage(m_txrequest[tx], p) = "REQUESTED" => <<tx, p>> \in getdata
    /\ m_txrequest[tx][p] # none => p \in m_peer_info

(* The announcements of a peer are finite, and within the limit. *)
Limited(index) ==
    \A p \in Peers : /\ IsFiniteSet(AnnouncedBy(index, p))
                     /\ Cardinality(AnnouncedBy(index, p)) <= MAX_PEER_TX_ANNOUNCEMENTS

DownloadInv ==
    /\ SaneIndex(m_txrequest) /\ Limited(m_txrequest)
    /\ \A tx \in Txs, p \in Peers : InUse(tx, p)
    /\ m_peer_info \subseteq Peers /\ have \subseteq Txs
    /\ getdata \subseteq Txs \X Peers /\ reconnects \in 0..MaxReconnects

(* The constants are natural numbers. *)
LEMMA Delays ==
    /\ NONPREF_PEER_TX_DELAY \in Nat /\ OVERLOADED_PEER_TX_DELAY \in Nat /\ MaxDelay \in Nat
    /\ GETDATA_TX_INTERVAL \in Nat /\ MAX_PEER_TX_ANNOUNCEMENTS \in Nat \ {0}
    /\ MaxReconnects \in Nat
    /\ \A p : Delay(p) \in 0..MaxDelay
BY TxDownloadAssumption DEF MaxDelay, Delay

(* The announcements of TxDownload, by their parts. *)
LEMMA Ranges ==
    /\ Announcements \subseteq Known /\ Completed \in Announcements
    /\ DownloadGroups \subseteq Groups
    /\ \A a \in Announcements : a.state \in Candidates => a.time \in 0..MaxDelay
    /\ \A a \in Known : a.state \in Candidates /\ a.time \in 0..MaxDelay => a \in Announcements
    /\ \A t \in 0..GETDATA_TX_INTERVAL : [state |-> "REQUESTED", time |-> t] \in Announcements
    /\ \A t \in 0..MaxDelay, c \in Candidates : [state |-> c, time |-> t] \in Announcements
<1>0. 0..MaxDelay \subseteq Int /\ 0..GETDATA_TX_INTERVAL \subseteq Int
  BY Delays
<1>1. Announcements = [state : Candidates, time : 0..MaxDelay]
                        \cup [state : {"REQUESTED"}, time : 0..GETDATA_TX_INTERVAL] \cup {Completed}
  BY DEF Announcements, MaxDelay
<1>2. Candidates \subseteq Live /\ "REQUESTED" \in Live /\ Live = States \ {"COMPLETED"}
      /\ "COMPLETED" \notin Candidates /\ "REQUESTED" \notin Candidates
  BY DEF Live, States, Candidates
<1>3. Announcements \subseteq Known
  <2>1. [state : Candidates, time : 0..MaxDelay] \subseteq [state : Live, time : Int]
    BY <1>0, <1>2
  <2>2. [state : {"REQUESTED"}, time : 0..GETDATA_TX_INTERVAL] \subseteq [state : Live, time : Int]
    BY <1>0, <1>2
  <2> QED
    BY <1>1, <1>2, <2>1, <2>2 DEF Known
<1>4. DownloadGroups \subseteq Groups
  <2>1. Announcements \cup {none} \subseteq Known \cup {none}
    BY <1>3
  <2> QED
    BY <2>1 DEF DownloadGroups, Groups
<1>5. \A a \in Announcements : a.state \in Candidates => a.time \in 0..MaxDelay
  BY <1>1, <1>2, Parts
<1>6. ASSUME NEW a \in Known, a.state \in Candidates, a.time \in 0..MaxDelay
      PROVE  a \in Announcements
  <2>1. a \in [state : Live, time : Int]
    BY <1>2, <1>6, Parts DEF Known
  <2>2. a = [state |-> a.state, time |-> a.time]
    BY <2>1
  <2> QED
    BY <1>1, <1>6, <2>2
<1> QED
  BY <1>1, <1>3, <1>4, <1>5, <1>6

(* Announcements go, are COMPLETED, or remain; none is new. *)
Shrinks(g, h) ==
    \A q \in Peers : h[q] = none \/ (h[q] = Completed /\ g[q] # none) \/ Alike(g[q], h[q])

(* Of what remains, the times are in range and the requests are the same. *)
LEMMA ShrinksIs ==
    ASSUME NEW g \in DownloadGroups, NEW h \in Groups, Shrinks(g, h)
    PROVE  /\ h \in DownloadGroups
           /\ \A q \in Peers : /\ h[q] # none => g[q] # none
                               /\ Stage(h, q) = "REQUESTED" => Stage(g, q) = "REQUESTED"
<1>1. ASSUME NEW q \in Peers
      PROVE  /\ h[q] \in Announcements \cup {none}
             /\ h[q] # none => g[q] # none
             /\ Stage(h, q) = "REQUESTED" => Stage(g, q) = "REQUESTED"
  <2>1. g[q] \in Announcements \cup {none}
    BY DEF DownloadGroups
  <2>2. CASE h[q] = none
    BY <2>2 DEF Stage
  <2>3. CASE h[q] = Completed /\ g[q] # none
    BY <2>3, Parts, Ranges DEF Stage
  <2>4. CASE g[q] = h[q]
    BY <2>1, <2>4 DEF Stage
  <2>5. CASE /\ g[q] \in Known /\ h[q] \in Known
             /\ g[q].state \in Candidates /\ h[q].state \in Candidates /\ g[q].time = h[q].time
    <3>1. g[q] # none /\ h[q] # none /\ g[q] \in Announcements
      BY <2>1, <2>5, Parts
    <3>2. h[q] \in Announcements
      BY <2>5, <3>1, Ranges
    <3>3. "REQUESTED" \notin Candidates
      BY DEF Candidates
    <3>4. Stage(h, q) # "REQUESTED"
      BY <2>5, <3>1, <3>3 DEF Stage
    <3> QED
      BY <3>1, <3>2, <3>4
  <2> QED
    BY <2>2, <2>3, <2>4, <2>5 DEF Shrinks, Alike
<1>2. h \in DownloadGroups
  BY <1>1 DEF DownloadGroups, Groups
<1> QED
  BY <1>1, <1>2

(* Every operation of the tracker but ReceivedInv and RequestedTx shrinks. *)
LEMMA NothingShrinks == ASSUME NEW g PROVE Shrinks(g, Nothing) /\ Nothing \in DownloadGroups
BY NothingIs DEF Shrinks, DownloadGroups, Nothing

(* ReceivedResponse; the peer is not asked any more. *)
LEMMA ResponseShrinks ==
    ASSUME NEW tx \in Txs, NEW g \in Groups, Sane(tx, g), NEW p \in Peers
    PROVE  /\ ReceivedResponse(tx, g, p) \in Groups /\ Sane(tx, ReceivedResponse(tx, g, p))
           /\ Shrinks(g, ReceivedResponse(tx, g, p))
           /\ Stage(ReceivedResponse(tx, g, p), p) # "REQUESTED"
<1>1. CASE g[p] = none
  BY <1>1 DEF ReceivedResponse, Shrinks, Alike, Stage
<1>2. CASE g[p] # none
  <2> DEFINE h == MakeCompleted(tx, g, p)
  <2>1. h \in Groups /\ Sane(tx, h) /\ MakesCompleted(g, h, p)
    BY <1>2, MakeCompletedIs
  <2>2. ReceivedResponse(tx, g, p) = h
    BY <1>2 DEF ReceivedResponse
  <2> HIDE DEF h
  <2>3. Shrinks(g, h)
    BY <1>2, <2>1, NothingIs, LikeAlike DEF MakesCompleted, OthersLike, Shrinks, Alike
  <2>4. Stage(h, p) # "REQUESTED"
    BY <2>1, NothingIs, Parts DEF MakesCompleted, Stage
  <2> QED
    BY <2>1, <2>2, <2>3, <2>4
<1> QED
  BY <1>1, <1>2

(* DisconnectedPeer; nothing of the peer is left. *)
LEMMA DisconnectedShrinks ==
    ASSUME NEW tx \in Txs, NEW g \in Groups, Sane(tx, g), NEW p \in Peers
    PROVE  /\ DisconnectedPeer(tx, g, p) \in Groups /\ Sane(tx, DisconnectedPeer(tx, g, p))
           /\ Shrinks(g, DisconnectedPeer(tx, g, p))
           /\ DisconnectedPeer(tx, g, p)[p] = none
<1> DEFINE h == DisconnectedPeer(tx, g, p)
<1>1. h \in Groups /\ Sane(tx, h) /\ Disconnects(g, h, p)
  BY DisconnectedIs
<1> HIDE DEF h
<1>2. CASE h = [g EXCEPT ![p] = none]
  <2>1. h[p] = none /\ \A q \in Peers : h[q] = none \/ h[q] = g[q]
    BY <1>2 DEF Groups
  <2> QED
    BY <1>1, <2>1 DEF Shrinks, Alike, h
<1>3. CASE h # [g EXCEPT ![p] = none]
  <2>1. h[p] = none /\ Shrinks(g, h)
    BY <1>1, <1>3, NothingIs, LikeAlike DEF Disconnects, OthersLike, Shrinks, Alike
  <2> QED
    BY <1>1, <2>1 DEF h
<1> QED
  BY <1>2, <1>3

(* SetTimePoint. *)
LEMMA TimeShrinks ==
    ASSUME NEW tx \in Txs, NEW g \in Groups, Sane(tx, g), NEW now \in Int,
           NEW h \in SetTimePoint(tx, g, now)
    PROVE  h \in Groups /\ Sane(tx, h) /\ Shrinks(g, h)
<1>1. h \in Groups /\ Sane(tx, h) /\ TimePassed(g, h, now)
  BY SetTimePointIs
<1>2. Shrinks(g, h)
  BY <1>1, NothingIs DEF TimePassed, Shrinks, IsExpired
<1> QED
  BY <1>1, <1>2

(* An announcement by itself, and a change of the index. *)
LEMMA CellOf == ASSUME NEW index, SaneIndex(index), NEW tx \in Txs
                PROVE  /\ index[tx] \in DownloadGroups /\ index[tx] \in Groups /\ Sane(tx, index[tx])
                       /\ \A p \in Peers : index[tx][p] \in Announcements \cup {none}
<1>1. index[tx] \in DownloadGroups /\ Sane(tx, index[tx])
  BY DEF SaneIndex
<1>2. \A p \in Peers : index[tx][p] \in Announcements \cup {none}
  BY <1>1 DEF DownloadGroups
<1> QED
  BY <1>1, <1>2, Ranges

(* A change of the announcements of one transaction. *)
LEMMA OneSane ==
    ASSUME NEW index, SaneIndex(index), NEW tx \in Txs, NEW h \in DownloadGroups, Sane(tx, h)
    PROVE  /\ SaneIndex([index EXCEPT ![tx] = h])
           /\ \A u \in Txs : [index EXCEPT ![tx] = h][u] = IF u = tx THEN h ELSE index[u]
<1>1. index \in [Txs -> DownloadGroups]
  BY DEF SaneIndex
<1> HIDE DEF DownloadGroups
<1>2. [index EXCEPT ![tx] = h] \in [Txs -> DownloadGroups]
  BY <1>1
<1>3. \A u \in Txs : [index EXCEPT ![tx] = h][u] = IF u = tx THEN h ELSE index[u]
  BY <1>1
<1> QED
  BY <1>2, <1>3 DEF SaneIndex

(* Where no announcement is new, the limits hold on. *)
Fewer(index, new) == \A tx \in Txs, p \in Peers : new[tx][p] # none => index[tx][p] # none

(* There are no more of them than before. *)
LEMMA FewerLimited ==
    ASSUME NEW index, NEW new, Fewer(index, new), Limited(index)
    PROVE  Limited(new)
<1> SUFFICES ASSUME NEW p \in Peers
             PROVE  /\ IsFiniteSet(AnnouncedBy(new, p))
                    /\ Cardinality(AnnouncedBy(new, p)) <= MAX_PEER_TX_ANNOUNCEMENTS
  BY DEF Limited
<1>1. AnnouncedBy(new, p) \subseteq AnnouncedBy(index, p)
  BY DEF AnnouncedBy, Fewer
<1>2. /\ IsFiniteSet(AnnouncedBy(index, p))
      /\ Cardinality(AnnouncedBy(index, p)) <= MAX_PEER_TX_ANNOUNCEMENTS
  BY DEF Limited
<1>3. /\ IsFiniteSet(AnnouncedBy(new, p))
      /\ Cardinality(AnnouncedBy(new, p)) <= Cardinality(AnnouncedBy(index, p))
  BY <1>1, <1>2, FS_Subset
<1>4. Cardinality(AnnouncedBy(new, p)) \in Nat /\ Cardinality(AnnouncedBy(index, p)) \in Nat
  BY <1>2, <1>3, FS_CardinalityType
<1> QED
  BY <1>2, <1>3, <1>4, Delays

(* One more announcement, of a peer that is not at its limit. *)
LEMMA OneMoreLimited ==
    ASSUME NEW index, NEW new, NEW tx \in Txs, NEW p \in Peers, Limited(index),
           Cardinality(AnnouncedBy(index, p)) < MAX_PEER_TX_ANNOUNCEMENTS,
           \A u \in Txs, q \in Peers : new[u][q] # none => index[u][q] # none \/ (u = tx /\ q = p)
    PROVE  Limited(new)
<1> SUFFICES ASSUME NEW q \in Peers
             PROVE  /\ IsFiniteSet(AnnouncedBy(new, q))
                    /\ Cardinality(AnnouncedBy(new, q)) <= MAX_PEER_TX_ANNOUNCEMENTS
  BY DEF Limited
<1> DEFINE old == AnnouncedBy(index, q)
           all == old \cup {tx}
<1>1. IsFiniteSet(old) /\ Cardinality(old) <= MAX_PEER_TX_ANNOUNCEMENTS
  BY DEF Limited
<1>2. Cardinality(old) \in Nat
  BY <1>1, FS_CardinalityType
<1>3. CASE q # p
  <2>1. AnnouncedBy(new, q) \subseteq old
    BY <1>3 DEF AnnouncedBy
  <2> HIDE DEF old
  <2>2. IsFiniteSet(AnnouncedBy(new, q)) /\ Cardinality(AnnouncedBy(new, q)) <= Cardinality(old)
    BY <1>1, <2>1, FS_Subset
  <2>3. Cardinality(AnnouncedBy(new, q)) \in Nat
    BY <2>2, FS_CardinalityType
  <2> QED
    BY <1>1, <1>2, <2>2, <2>3, Delays
<1>4. CASE q = p
  <2>1. AnnouncedBy(new, q) \subseteq all
    BY <1>4 DEF AnnouncedBy
  <2>2. Cardinality(old) < MAX_PEER_TX_ANNOUNCEMENTS
    BY <1>4
  <2> HIDE DEF old
  <2>3. IsFiniteSet(all) /\ (Cardinality(all) = Cardinality(old) \/ Cardinality(all) = Cardinality(old) + 1)
    BY <1>1, FS_AddElement
  <2> HIDE DEF all
  <2>4. IsFiniteSet(AnnouncedBy(new, q)) /\ Cardinality(AnnouncedBy(new, q)) <= Cardinality(all)
    BY <2>1, <2>3, FS_Subset
  <2>5. Cardinality(AnnouncedBy(new, q)) \in Nat /\ Cardinality(all) \in Nat
    BY <2>3, <2>4, FS_CardinalityType
  <2> QED
    BY <1>2, <2>2, <2>3, <2>4, <2>5, Delays
<1> QED
  BY <1>3, <1>4

(* The outcomes of a time point. *)
LEMMA AtTimeShrinks ==
    ASSUME NEW index, SaneIndex(index), NEW new \in AtTime(index, 0)
    PROVE  SaneIndex(new) /\ \A tx \in Txs : Shrinks(index[tx], new[tx])
<1> DEFINE outcomes == [tx \in Txs |-> SetTimePoint(tx, index[tx], 0)]
<1>1. new \in Selections(outcomes)
  BY DEF AtTime
<1>2. \A tx \in Txs : outcomes[tx] = SetTimePoint(tx, index[tx], 0)
  OBVIOUS
<1> HIDE DEF outcomes
<1>3. /\ new \in [Txs -> UNION {outcomes[tx] : tx \in Txs}]
      /\ \A tx \in Txs : new[tx] \in SetTimePoint(tx, index[tx], 0)
  BY <1>1, <1>2 DEF Selections
<1>4. ASSUME NEW tx \in Txs
      PROVE  new[tx] \in DownloadGroups /\ Sane(tx, new[tx]) /\ Shrinks(index[tx], new[tx])
  <2>1. index[tx] \in DownloadGroups /\ index[tx] \in Groups /\ Sane(tx, index[tx])
    BY CellOf
  <2>2. new[tx] \in Groups /\ Sane(tx, new[tx]) /\ Shrinks(index[tx], new[tx])
    BY <1>3, <2>1, TimeShrinks
  <2> QED
    BY <2>1, <2>2, ShrinksIs
<1>5. new \in [Txs -> DownloadGroups]
  <2>1. new = [tx \in Txs |-> new[tx]] /\ \A tx \in Txs : new[tx] \in DownloadGroups
    BY <1>3, <1>4
  <2> HIDE DEF DownloadGroups
  <2> QED
    BY <2>1
<1> QED
  BY <1>4, <1>5 DEF SaneIndex

(* A tick changes no state. *)
LEMMA SoonerIs ==
    ASSUME NEW a \in Announcements \cup {none}
    PROVE  /\ Sooner(a) \in Announcements \cup {none}
           /\ Sooner(a) = none <=> a = none
           /\ a # none => Sooner(a).state = a.state
<1>1. CASE a = none \/ a.time = 0
  BY <1>1 DEF Sooner
<1>2. CASE a # none /\ a.time # 0
  <2>1. a # Completed /\ a \in Announcements
    BY <1>2 DEF Completed
  <2>2. Sooner(a) = [a EXCEPT !.time = @ - 1]
    BY <1>2 DEF Sooner
  <2>3. CASE a \in [state : Candidates, time : 0..MaxDelay]
    <3>1. a.state \in Candidates /\ a.time - 1 \in 0..MaxDelay
      BY <1>2, <2>3, Delays
    <3>2. Sooner(a) = [state |-> a.state, time |-> a.time - 1]
      BY <2>2, <2>3
    <3>3. Sooner(a) \in Announcements
      BY <3>1, <3>2, Ranges
    <3> QED
      BY <1>2, <3>2, <3>3, Ranges, Parts
  <2>4. CASE a \in [state : {"REQUESTED"}, time : 0..GETDATA_TX_INTERVAL]
    <3>1. a.state = "REQUESTED" /\ a.time - 1 \in 0..GETDATA_TX_INTERVAL
      BY <1>2, <2>4, Delays
    <3>2. Sooner(a) = [state |-> a.state, time |-> a.time - 1]
      BY <2>2, <2>4
    <3>3. Sooner(a) \in Announcements
      BY <3>1, <3>2, Ranges
    <3> QED
      BY <1>2, <3>2, <3>3, Ranges, Parts
  <2> QED
    BY <2>1, <2>3, <2>4 DEF Announcements, MaxDelay
<1> QED
  BY <1>1, <1>2

(* What is sane depends only on the states. *)
LEMMA SameStages ==
    ASSUME NEW tx \in Txs, NEW g, NEW h, Sane(tx, g), \A q \in Peers : Stage(h, q) = Stage(g, q)
    PROVE  Sane(tx, h)
BY DEF Sane

(* A step in which no announcement is new: what is asked of the rest of    *)
(* the state.                                                              *)
LEMMA FewerStep ==
    ASSUME DownloadInv, SaneIndex(m_txrequest'), Fewer(m_txrequest, m_txrequest'),
           \A tx \in Txs, p \in Peers : InUse(tx, p)',
           m_peer_info' \subseteq Peers, have' \subseteq Txs, getdata' \subseteq Txs \X Peers,
           reconnects' \in 0..MaxReconnects
    PROVE  DownloadInv'
<1>1. Limited(m_txrequest)'
  <2>1. Limited(m_txrequest')
    BY FewerLimited DEF DownloadInv
  <2> QED
    BY <2>1 DEF Limited, AnnouncedBy
<1>2. SaneIndex(m_txrequest)'
  BY DEF SaneIndex
<1> QED
  BY <1>1, <1>2 DEF DownloadInv

(* The invariant holds at the start. *)
LEMMA InitDownload == Init => DownloadInv
<1> SUFFICES ASSUME Init PROVE DownloadInv
  OBVIOUS
<1>1. Nothing \in DownloadGroups
  BY NothingShrinks
<1>2. m_txrequest \in [Txs -> DownloadGroups] /\ \A tx \in Txs : m_txrequest[tx] = Nothing
  <2> HIDE DEF DownloadGroups, Nothing
  <2> QED
    BY <1>1 DEF Init
<1>3. SaneIndex(m_txrequest)
  BY <1>2, NothingIs DEF SaneIndex
<1>4. \A tx \in Txs, p \in Peers : m_txrequest[tx][p] = none /\ Stage(m_txrequest[tx], p) = "none"
  BY <1>2, NothingIs
<1>5. \A p \in Peers : AnnouncedBy(m_txrequest, p) = {}
  BY <1>4 DEF AnnouncedBy
<1>6. Limited(m_txrequest)
  BY <1>5, FS_EmptySet, Delays DEF Limited
<1>7. \A tx \in Txs, p \in Peers : InUse(tx, p)
  BY <1>4 DEF InUse
<1> QED
  BY <1>3, <1>6, <1>7, Delays DEF Init, DownloadInv

(* One step per function of TxDownloadManagerImpl. *)
LEMMA AnnouncementStep ==
    ASSUME DownloadInv, NEW tx \in Txs, NEW p \in Peers, AddTxAnnouncement(tx, p)
    PROVE  DownloadInv'
<1> DEFINE g == m_txrequest[tx]
           h == ReceivedInv(g, p, Delay(p))
<1>1. SaneIndex(m_txrequest) /\ g \in DownloadGroups /\ g \in Groups /\ Sane(tx, g)
  BY CellOf DEF DownloadInv
<1>2. Delay(p) \in 0..MaxDelay /\ Delay(p) \in Int
  BY Delays
<1>3. /\ h \in Groups /\ Sane(tx, h)
      /\ h[p] = IF g[p] = none THEN [state |-> "CANDIDATE_DELAYED", time |-> Delay(p)] ELSE g[p]
      /\ \A q \in Peers \ {p} : h[q] = g[q]
  BY <1>1, <1>2, ReceivedInvIs
<1>4. m_txrequest' = [m_txrequest EXCEPT ![tx] = h]
  BY DEF AddTxAnnouncement
<1> HIDE DEF h
<1>5. "CANDIDATE_DELAYED" \in Candidates
  BY DEF Candidates
<1>6. [state |-> "CANDIDATE_DELAYED", time |-> Delay(p)] \in Announcements
  BY <1>2, <1>5, Ranges
<1>7. h \in DownloadGroups
  <2>1. \A q \in Peers : g[q] \in Announcements \cup {none}
    BY <1>1 DEF DownloadGroups
  <2>2. \A q \in Peers : h[q] \in Announcements \cup {none}
    BY <1>3, <1>6, <2>1
  <2> QED
    BY <1>3, <2>2 DEF DownloadGroups, Groups
<1>8. /\ SaneIndex(m_txrequest')
      /\ \A u \in Txs : m_txrequest'[u] = IF u = tx THEN h ELSE m_txrequest[u]
  <2>1. /\ SaneIndex([m_txrequest EXCEPT ![tx] = h])
        /\ \A u \in Txs : [m_txrequest EXCEPT ![tx] = h][u] = IF u = tx THEN h ELSE m_txrequest[u]
    BY <1>1, <1>3, <1>7, OneSane
  <2> QED
    BY <1>4, <2>1
<1>9. \A u \in Txs, q \in Peers : \/ m_txrequest'[u][q] = m_txrequest[u][q]
                                  \/ u = tx /\ q = p /\ Stage(h, q) # "REQUESTED"
  <2>1. CASE g[p] # none
    BY <1>3, <1>8, <2>1
  <2>2. CASE g[p] = none
    <3>1. Stage(h, p) # "REQUESTED"
      BY <1>3, <2>2 DEF Stage
    <3> QED
      BY <1>3, <1>8, <3>1
  <2> QED
    BY <2>1, <2>2
<1>10. Limited(m_txrequest')
  <2>1. Cardinality(AnnouncedBy(m_txrequest, p)) < MAX_PEER_TX_ANNOUNCEMENTS
    <3>1. Limited(m_txrequest) /\ Count(p) = Cardinality(AnnouncedBy(m_txrequest, p))
      BY DEF DownloadInv, Count, AnnouncedBy
    <3>2. Cardinality(AnnouncedBy(m_txrequest, p)) \in Nat
      BY <3>1, FS_CardinalityType DEF Limited
    <3> QED
      BY <3>1, <3>2, Delays DEF AddTxAnnouncement, TooMany
  <2>2. \A u \in Txs, q \in Peers :
           m_txrequest'[u][q] # none => m_txrequest[u][q] # none \/ (u = tx /\ q = p)
    BY <1>9
  <2>3. Limited(m_txrequest)
    BY DEF DownloadInv
  <2> QED
    BY <2>1, <2>2, <2>3, OneMoreLimited
<1>11. ASSUME NEW u \in Txs, NEW q \in Peers PROVE InUse(u, q)'
  <2>1. InUse(u, q) /\ UNCHANGED <<m_peer_info, getdata>> /\ p \in m_peer_info
    BY DEF DownloadInv, AddTxAnnouncement
  <2>2. CASE m_txrequest'[u][q] = m_txrequest[u][q]
    <3>1. Stage(m_txrequest'[u], q) = Stage(m_txrequest[u], q)
      BY <2>2 DEF Stage
    <3> QED
      BY <2>1, <2>2, <3>1 DEF InUse, Stage
  <2>3. CASE u = tx /\ q = p /\ Stage(h, q) # "REQUESTED"
    <3>1. Stage(m_txrequest'[u], q) # "REQUESTED"
      BY <1>8, <2>3
    <3> QED
      BY <2>1, <2>3, <3>1 DEF InUse, Stage
  <2> QED
    BY <1>9, <2>2, <2>3
<1>12. SaneIndex(m_txrequest)' /\ Limited(m_txrequest)'
  BY <1>8, <1>10 DEF SaneIndex, Limited, AnnouncedBy
<1> QED
  BY <1>11, <1>12 DEF DownloadInv, AddTxAnnouncement

(* GetRequestsToSend: the one REQUESTED announcement that is new has its   *)
(* request on the way.                                                     *)
LEMMA SendStep ==
    ASSUME DownloadInv, NEW p \in Peers, GetRequestsToSend(p)
    PROVE  DownloadInv'
<1>1. PICK moved \in AtTime(m_txrequest, 0) :
         LET requestable == {tx \in Txs : p \in In(moved[tx], {"CANDIDATE_BEST"})}
         IN  /\ m_txrequest' = [tx \in Txs |->
                   IF tx \notin requestable THEN moved[tx]
                   ELSE IF tx \in have THEN Nothing
                   ELSE RequestedTx(moved[tx], p, Expiry(p))]
             /\ getdata' = getdata \cup ((requestable \ have) \X {p})
  BY DEF GetRequestsToSend
<1> DEFINE requestable == {tx \in Txs : p \in In(moved[tx], {"CANDIDATE_BEST"})}
<1>2. /\ m_txrequest' = [tx \in Txs |->
            IF tx \notin requestable THEN moved[tx]
            ELSE IF tx \in have THEN Nothing
            ELSE RequestedTx(moved[tx], p, Expiry(p))]
      /\ getdata' = getdata \cup ((requestable \ have) \X {p})
      /\ requestable \subseteq Txs
  BY <1>1
<1>3. SaneIndex(moved) /\ \A tx \in Txs : Shrinks(m_txrequest[tx], moved[tx])
  BY AtTimeShrinks DEF DownloadInv
<1>4. Expiry(p) \in 0..GETDATA_TX_INTERVAL /\ Expiry(p) \in Int
  BY Delays DEF Expiry
<1>5. \A tx \in requestable : Stage(moved[tx], p) = "CANDIDATE_BEST"
  BY DEF In, Stage
<1> HIDE DEF requestable
<1>6. ASSUME NEW tx \in Txs
      PROVE  /\ m_txrequest'[tx] \in DownloadGroups /\ Sane(tx, m_txrequest'[tx])
             /\ \A q \in Peers :
                   /\ m_txrequest'[tx][q] # none => m_txrequest[tx][q] # none
                   /\ Stage(m_txrequest'[tx], q) = "REQUESTED" =>
                         Stage(m_txrequest[tx], q) = "REQUESTED" \/ <<tx, q>> \in getdata'
  <2> DEFINE g == m_txrequest[tx]
             m == moved[tx]
             k == m_txrequest'[tx]
  <2>1. g \in DownloadGroups /\ m \in DownloadGroups /\ m \in Groups /\ Sane(tx, m) /\ Shrinks(g, m)
    BY <1>3, CellOf DEF DownloadInv
  <2>2. \A q \in Peers : /\ m[q] # none => g[q] # none
                         /\ Stage(m, q) = "REQUESTED" => Stage(g, q) = "REQUESTED"
    BY <2>1, ShrinksIs
  <2>3. CASE tx \notin requestable
    <3>1. k = m
      BY <1>2, <2>3
    <3> QED
      BY <2>1, <2>2, <3>1
  <2>4. CASE tx \in requestable /\ tx \in have
    <3>1. k = Nothing
      BY <1>2, <2>4
    <3> QED
      BY <3>1, NothingIs, NothingShrinks
  <2>5. CASE tx \in requestable /\ tx \notin have
    <3>1. k = RequestedTx(m, p, Expiry(p))
      BY <1>2, <2>5
    <3>2. Stage(m, p) = "CANDIDATE_BEST" /\ "CANDIDATE_BEST" \in Candidates
      BY <1>5, <2>5 DEF Candidates
    <3>3. k \in Groups /\ Sane(tx, k) /\ Requests(m, k, p, Expiry(p))
      BY <1>4, <2>1, <3>1, RequestedIs
    <3> HIDE DEF k, m, g
    <3>4. /\ k[p] = [state |-> "REQUESTED", time |-> Expiry(p)]
          /\ \A q \in Peers \ {p} : IF Stage(m, q) = "REQUESTED" THEN k[q] = Completed
                                    ELSE Like(m[q], k[q])
      BY <3>2, <3>3 DEF Requests
    <3>5. k[p] \in Announcements /\ m[p] # none
      BY <1>4, <3>2, <3>4, Ranges DEF Stage
    <3>6. <<tx, p>> \in getdata'
      BY <1>2, <2>5
    <3> DEFINE l == [k EXCEPT ![p] = none]
    <3>7. l \in Groups /\ l[p] = none /\ \A q \in Peers \ {p} : l[q] = k[q]
      BY <3>3 DEF Groups
    <3> HIDE DEF l
    <3>8. Shrinks(m, l)
      <4>1. \A q \in Peers \ {p} : Stage(m, q) = "REQUESTED" => m[q] # none
        BY DEF Stage
      <4> QED
        BY <3>4, <3>7, <4>1, LikeAlike DEF Shrinks
    <3>9. /\ l \in DownloadGroups
          /\ \A q \in Peers : /\ l[q] # none => m[q] # none
                              /\ Stage(l, q) = "REQUESTED" => Stage(m, q) = "REQUESTED"
      BY <2>1, <3>7, <3>8, ShrinksIs
    <3>10. ASSUME NEW q \in Peers \ {p}
           PROVE  /\ k[q] \in Announcements \cup {none}
                  /\ k[q] # none => m[q] # none
                  /\ Stage(k, q) = "REQUESTED" => Stage(m, q) = "REQUESTED"
      BY <3>7, <3>9 DEF DownloadGroups, Stage
    <3>11. k \in DownloadGroups
      <4>1. \A q \in Peers : k[q] \in Announcements \cup {none}
        BY <3>5, <3>10
      <4> QED
        BY <3>3, <4>1 DEF DownloadGroups, Groups
    <3>12. \A q \in Peers : /\ k[q] # none => g[q] # none
                            /\ Stage(k, q) = "REQUESTED" =>
                                  Stage(g, q) = "REQUESTED" \/ <<tx, q>> \in getdata'
      BY <2>2, <3>5, <3>6, <3>10
    <3> QED
      BY <3>3, <3>11, <3>12 DEF k, g
  <2> QED
    BY <2>3, <2>4, <2>5
<1>7. SaneIndex(m_txrequest')
  <2>1. m_txrequest' = [tx \in Txs |-> m_txrequest'[tx]]
    BY <1>2
  <2>2. \A tx \in Txs : m_txrequest'[tx] \in DownloadGroups
    BY <1>6
  <2>3. m_txrequest' \in [Txs -> DownloadGroups]
    <3> HIDE DEF DownloadGroups
    <3> QED
      BY <2>1, <2>2
  <2> QED
    BY <1>6, <2>3 DEF SaneIndex
<1>8. Fewer(m_txrequest, m_txrequest')
  BY <1>6 DEF Fewer
<1>9. ASSUME NEW tx \in Txs, NEW q \in Peers PROVE InUse(tx, q)'
  <2>1. InUse(tx, q) /\ UNCHANGED <<m_peer_info, have>> /\ getdata \subseteq getdata'
    BY <1>2 DEF DownloadInv, GetRequestsToSend
  <2>2. /\ m_txrequest'[tx][q] # none => m_txrequest[tx][q] # none
        /\ Stage(m_txrequest'[tx], q) = "REQUESTED" =>
              Stage(m_txrequest[tx], q) = "REQUESTED" \/ <<tx, q>> \in getdata'
    BY <1>6
  <2> QED
    BY <2>1, <2>2 DEF InUse, Stage
<1>10. getdata' \subseteq Txs \X Peers
  BY <1>2 DEF DownloadInv
<1> QED
  BY <1>7, <1>8, <1>9, <1>10, FewerStep DEF DownloadInv, GetRequestsToSend

(* A transaction of which nothing is left. *)
LEMMA ForgetIs ==
    ASSUME NEW index, SaneIndex(index), NEW tx \in Txs
    PROVE  /\ SaneIndex(Forget(index, tx)) /\ Fewer(index, Forget(index, tx))
           /\ \A u \in Txs : Forget(index, tx)[u] = IF u = tx THEN Nothing ELSE index[u]
<1>1. Nothing \in DownloadGroups /\ Sane(tx, Nothing) /\ \A p \in Peers : Nothing[p] = none
  BY NothingIs, NothingShrinks
<1>2. /\ SaneIndex([index EXCEPT ![tx] = Nothing])
      /\ \A u \in Txs : [index EXCEPT ![tx] = Nothing][u] = IF u = tx THEN Nothing ELSE index[u]
  BY <1>1, OneSane
<1> QED
  BY <1>1, <1>2 DEF Forget, Fewer

(* A cell in use stays so when its announcement goes or stays, and what is *)
(* needed for it stays.                                                    *)
LEMMA StaysInUse ==
    ASSUME NEW tx, NEW p, InUse(tx, p),
           m_txrequest'[tx][p] # none => m_txrequest[tx][p] # none,
           Stage(m_txrequest'[tx], p) = "REQUESTED" =>
               Stage(m_txrequest[tx], p) = "REQUESTED" /\ (<<tx, p>> \in getdata => <<tx, p>> \in getdata'),
           m_txrequest'[tx][p] # none /\ p \in m_peer_info => p \in m_peer_info'
    PROVE  InUse(tx, p)'
BY DEF InUse, Stage

(* All announcements of a transaction are forgotten. *)
LEMMA KnownStep ==
    ASSUME DownloadInv, NEW tx \in Txs, m_txrequest' = Forget(m_txrequest, tx),
           have' = have \cup {tx}, UNCHANGED <<m_peer_info, reconnects>>,
           getdata' \subseteq getdata, getdata \ getdata' \subseteq {tx} \X Peers
    PROVE  DownloadInv'
<1>1. /\ SaneIndex(m_txrequest') /\ Fewer(m_txrequest, m_txrequest')
      /\ \A u \in Txs : m_txrequest'[u] = IF u = tx THEN Nothing ELSE m_txrequest[u]
  BY ForgetIs DEF DownloadInv
<1>2. ASSUME NEW u \in Txs, NEW q \in Peers PROVE InUse(u, q)'
  <2>1. InUse(u, q)
    BY DEF DownloadInv
  <2>2. CASE u = tx
    <3>1. m_txrequest'[u][q] = none /\ Stage(m_txrequest'[u], q) = "none"
      BY <1>1, <2>2, NothingIs
    <3> QED
      BY <2>1, <3>1, StaysInUse
  <2>3. CASE u # tx
    <3>1. m_txrequest'[u] = m_txrequest[u]
      BY <1>1, <2>3
    <3>2. <<u, q>> \in getdata => <<u, q>> \in getdata'
      BY <2>3
    <3> QED
      BY <2>1, <3>1, <3>2, StaysInUse
  <2> QED
    BY <2>2, <2>3
<1> QED
  BY <1>1, <1>2, FewerStep DEF DownloadInv

(* BlockConnected. *)
LEMMA BlockConnectedStep ==
    ASSUME DownloadInv, NEW tx \in Txs, BlockConnected(tx)
    PROVE  DownloadInv'
<1>1. /\ have' = have \cup {tx} /\ m_txrequest' = Forget(m_txrequest, tx)
      /\ UNCHANGED <<m_peer_info, reconnects>> /\ getdata' = getdata
  BY DEF BlockConnected
<1>2. getdata' \subseteq getdata /\ getdata \ getdata' \subseteq {tx} \X Peers
  BY <1>1
<1> QED
  BY <1>1, <1>2, KnownStep

(* A peer has answered: the request is over, and so is the announcement. *)
Answered(tx, p) ==
    /\ m_txrequest' = [m_txrequest EXCEPT ![tx] = ReceivedResponse(tx, @, p)]
    /\ getdata' = getdata \ {<<tx, p>>} /\ have' \subseteq Txs
    /\ UNCHANGED <<m_peer_info, reconnects>>

(* An answer keeps the invariant, of whatever kind it is. *)
LEMMA AnsweredStep ==
    ASSUME DownloadInv, NEW tx \in Txs, NEW p \in Peers, Answered(tx, p)
    PROVE  DownloadInv'
<1> DEFINE g == m_txrequest[tx]
           h == ReceivedResponse(tx, g, p)
<1>1. SaneIndex(m_txrequest) /\ g \in DownloadGroups /\ g \in Groups /\ Sane(tx, g)
  BY CellOf DEF DownloadInv
<1>2. h \in Groups /\ Sane(tx, h) /\ Shrinks(g, h) /\ Stage(h, p) # "REQUESTED"
  BY <1>1, ResponseShrinks
<1>3. /\ m_txrequest' = [m_txrequest EXCEPT ![tx] = h] /\ getdata' = getdata \ {<<tx, p>>}
      /\ have' \subseteq Txs /\ UNCHANGED <<m_peer_info, reconnects>>
  BY DEF Answered
<1> HIDE DEF h
<1>4. /\ h \in DownloadGroups
      /\ \A q \in Peers : /\ h[q] # none => g[q] # none
                          /\ Stage(h, q) = "REQUESTED" => Stage(g, q) = "REQUESTED"
  BY <1>1, <1>2, ShrinksIs
<1>5. /\ SaneIndex([m_txrequest EXCEPT ![tx] = h])
      /\ \A u \in Txs : [m_txrequest EXCEPT ![tx] = h][u] = IF u = tx THEN h ELSE m_txrequest[u]
  BY <1>1, <1>2, <1>4, OneSane
<1>6. /\ SaneIndex(m_txrequest')
      /\ \A u \in Txs : m_txrequest'[u] = IF u = tx THEN h ELSE m_txrequest[u]
  BY <1>3, <1>5
<1>7. Fewer(m_txrequest, m_txrequest')
  BY <1>4, <1>6 DEF Fewer
<1>8. ASSUME NEW u \in Txs, NEW q \in Peers PROVE InUse(u, q)'
  <2>1. InUse(u, q) /\ UNCHANGED m_peer_info
    BY <1>3 DEF DownloadInv
  <2>2. CASE u = tx
    <3>1. m_txrequest'[u] = h /\ m_txrequest[u] = g
      BY <1>6, <2>2
    <3>2. Stage(h, q) = "REQUESTED" => <<u, q>> # <<tx, p>>
      BY <1>2
    <3> QED
      BY <1>3, <1>4, <2>1, <3>1, <3>2, StaysInUse
  <2>3. CASE u # tx
    <3>1. m_txrequest'[u] = m_txrequest[u]
      BY <1>6, <2>3
    <3>2. <<u, q>> \in getdata => <<u, q>> \in getdata'
      BY <1>3, <2>3
    <3> QED
      BY <2>1, <3>1, <3>2, StaysInUse
  <2> QED
    BY <2>2, <2>3
<1>9. getdata' \subseteq Txs \X Peers
  BY <1>3 DEF DownloadInv
<1> QED
  BY <1>3, <1>6, <1>7, <1>8, <1>9, FewerStep DEF DownloadInv

(* ReceivedNotFound. *)
LEMMA NotFoundStep ==
    ASSUME DownloadInv, NEW tx \in Txs, NEW p \in Peers, ReceivedNotFound(tx, p)
    PROVE  DownloadInv'
<1>1. have' \subseteq Txs
  BY DEF ReceivedNotFound, DownloadInv
<1> QED
  BY <1>1, AnsweredStep DEF ReceivedNotFound, Answered

(* ReceivedTx: an answer like any other for a transaction that is known,   *)
(* and else nothing of the transaction is left.                            *)
LEMMA ReceivedStep ==
    ASSUME DownloadInv, NEW tx \in Txs, NEW p \in Peers, ReceivedTx(tx, p)
    PROVE  DownloadInv'
<1> DEFINE index == [m_txrequest EXCEPT ![tx] = ReceivedResponse(tx, @, p)]
<1>1. /\ getdata' = getdata \ {<<tx, p>>} /\ have' = have \cup {tx}
      /\ m_txrequest' = IF tx \in have THEN index ELSE Forget(index, tx)
      /\ UNCHANGED <<m_peer_info, reconnects>>
  BY DEF ReceivedTx
<1>2. SaneIndex(m_txrequest) /\ m_txrequest \in [Txs -> DownloadGroups] /\ have' \subseteq Txs
  BY <1>1 DEF DownloadInv, SaneIndex
<1>3. CASE tx \in have
  BY <1>1, <1>2, <1>3, AnsweredStep DEF Answered
<1>4. CASE tx \notin have
  <2>1. m_txrequest' = Forget(m_txrequest, tx)
    <3> HIDE DEF DownloadGroups
    <3>1. Forget(index, tx) = Forget(m_txrequest, tx)
      BY <1>2 DEF Forget
    <3> QED
      BY <1>1, <1>4, <3>1
  <2>2. getdata' \subseteq getdata /\ getdata \ getdata' \subseteq {tx} \X Peers
    BY <1>1
  <2> QED
    BY <1>1, <2>1, <2>2, KnownStep
<1> QED
  BY <1>3, <1>4

(* DisconnectedPeer: the requests to it are over. *)
LEMMA DisconnectStep ==
    ASSUME DownloadInv, NEW p \in Peers, Disconnect(p)
    PROVE  DownloadInv'
<1>1. /\ m_txrequest' = [tx \in Txs |-> DisconnectedPeer(tx, m_txrequest[tx], p)]
      /\ m_peer_info' = m_peer_info \ {p} /\ getdata' = {r \in getdata : r[2] # p}
      /\ UNCHANGED <<have, reconnects>>
  BY DEF Disconnect, PeerForgotten
<1>2. ASSUME NEW tx \in Txs
      PROVE  /\ m_txrequest'[tx] \in DownloadGroups /\ Sane(tx, m_txrequest'[tx])
             /\ m_txrequest'[tx][p] = none
             /\ \A q \in Peers :
                   /\ m_txrequest'[tx][q] # none => m_txrequest[tx][q] # none
                   /\ Stage(m_txrequest'[tx], q) = "REQUESTED" => Stage(m_txrequest[tx], q) = "REQUESTED"
  <2> DEFINE g == m_txrequest[tx]
             h == DisconnectedPeer(tx, g, p)
  <2>1. g \in DownloadGroups /\ g \in Groups /\ Sane(tx, g)
    BY CellOf DEF DownloadInv
  <2>2. h \in Groups /\ Sane(tx, h) /\ Shrinks(g, h) /\ h[p] = none
    BY <2>1, DisconnectedShrinks
  <2>3. m_txrequest'[tx] = h
    BY <1>1
  <2> HIDE DEF h
  <2>4. /\ h \in DownloadGroups
        /\ \A q \in Peers : /\ h[q] # none => g[q] # none
                            /\ Stage(h, q) = "REQUESTED" => Stage(g, q) = "REQUESTED"
    BY <2>1, <2>2, ShrinksIs
  <2> QED
    BY <2>2, <2>3, <2>4
<1>3. SaneIndex(m_txrequest')
  <2>1. m_txrequest' = [tx \in Txs |-> m_txrequest'[tx]]
    BY <1>1
  <2>2. \A tx \in Txs : m_txrequest'[tx] \in DownloadGroups
    BY <1>2
  <2>3. m_txrequest' \in [Txs -> DownloadGroups]
    <3> HIDE DEF DownloadGroups
    <3> QED
      BY <2>1, <2>2
  <2> QED
    BY <1>2, <2>3 DEF SaneIndex
<1>4. Fewer(m_txrequest, m_txrequest')
  BY <1>2 DEF Fewer
<1>5. ASSUME NEW tx \in Txs, NEW q \in Peers PROVE InUse(tx, q)'
  <2>1. InUse(tx, q) /\ UNCHANGED have
    BY <1>1 DEF DownloadInv
  <2>2. CASE q = p
    <3>1. m_txrequest'[tx][q] = none /\ Stage(m_txrequest'[tx], q) = "none"
      BY <1>2, <2>2 DEF Stage
    <3> QED
      BY <2>1, <3>1, StaysInUse
  <2>3. CASE q # p
    <3>1. <<tx, q>> \in getdata => <<tx, q>> \in getdata'
      BY <1>1, <2>3
    <3>2. q \in m_peer_info => q \in m_peer_info'
      BY <1>1, <2>3
    <3> QED
      BY <1>2, <2>1, <3>1, <3>2, StaysInUse
  <2> QED
    BY <2>2, <2>3
<1>6. m_peer_info' \subseteq Peers /\ getdata' \subseteq Txs \X Peers
  BY <1>1 DEF DownloadInv
<1> QED
  BY <1>1, <1>3, <1>4, <1>5, <1>6, FewerStep DEF DownloadInv

(* A tick changes times only. *)
LEMMA TickStep ==
    ASSUME DownloadInv, Tick
    PROVE  DownloadInv'
<1>1. /\ m_txrequest' = [tx \in Txs |-> [p \in Peers |-> Sooner(m_txrequest[tx][p])]]
      /\ UNCHANGED <<m_peer_info, have, getdata, reconnects>>
  BY DEF Tick
<1>2. ASSUME NEW tx \in Txs
      PROVE  /\ m_txrequest'[tx] \in DownloadGroups /\ Sane(tx, m_txrequest'[tx])
             /\ \A q \in Peers : /\ m_txrequest'[tx][q] # none => m_txrequest[tx][q] # none
                                 /\ Stage(m_txrequest'[tx], q) = Stage(m_txrequest[tx], q)
  <2> DEFINE g == m_txrequest[tx]
             h == [q \in Peers |-> Sooner(g[q])]
  <2>1. Sane(tx, g) /\ \A q \in Peers : g[q] \in Announcements \cup {none}
    BY CellOf DEF DownloadInv
  <2>2. m_txrequest'[tx] = h
    BY <1>1
  <2>3. \A q \in Peers : /\ h[q] = Sooner(g[q]) /\ h[q] \in Announcements \cup {none}
                         /\ h[q] = none <=> g[q] = none
                         /\ g[q] # none => h[q].state = g[q].state
    BY <2>1, SoonerIs
  <2>4. h \in DownloadGroups
    BY <2>3 DEF DownloadGroups
  <2> HIDE DEF h
  <2>5. \A q \in Peers : Stage(h, q) = Stage(g, q)
    BY <2>3 DEF Stage
  <2>6. Sane(tx, h)
    BY <2>1, <2>5, SameStages
  <2> QED
    BY <2>2, <2>3, <2>4, <2>5, <2>6
<1>3. SaneIndex(m_txrequest')
  <2>1. m_txrequest' = [tx \in Txs |-> m_txrequest'[tx]]
    BY <1>1
  <2>2. \A tx \in Txs : m_txrequest'[tx] \in DownloadGroups
    BY <1>2
  <2>3. m_txrequest' \in [Txs -> DownloadGroups]
    <3> HIDE DEF DownloadGroups
    <3> QED
      BY <2>1, <2>2
  <2> QED
    BY <1>2, <2>3 DEF SaneIndex
<1>4. Fewer(m_txrequest, m_txrequest')
  BY <1>2 DEF Fewer
<1>5. ASSUME NEW tx \in Txs, NEW q \in Peers PROVE InUse(tx, q)'
  BY <1>1, <1>2, StaysInUse DEF DownloadInv
<1> QED
  BY <1>1, <1>3, <1>4, <1>5, FewerStep DEF DownloadInv

(* Peers that connect, and transactions that become known, or not known     *)
(* any more, without the tracker being told.                                *)
LEMMA OtherStep ==
    ASSUME DownloadInv, \/ \E p \in Peers : ConnectedPeer(p)
                        \/ \E tx \in Txs : BlockDisconnected(tx) \/ BroadcastTransaction(tx)
                        \/ UNCHANGED vars
    PROVE  DownloadInv'
<1>1. /\ UNCHANGED <<m_txrequest, getdata>> /\ m_peer_info \subseteq m_peer_info'
      /\ have' \subseteq Txs /\ m_peer_info' \subseteq Peers
  BY DEF ConnectedPeer, BlockDisconnected, BroadcastTransaction, vars, DownloadInv
<1>2. reconnects' \in 0..MaxReconnects
  BY Delays DEF ConnectedPeer, BlockDisconnected, BroadcastTransaction, vars, DownloadInv
<1>3. ASSUME NEW tx \in Txs, NEW q \in Peers PROVE InUse(tx, q)'
  BY <1>1, StaysInUse DEF DownloadInv
<1>4. SaneIndex(m_txrequest') /\ Fewer(m_txrequest, m_txrequest')
  BY <1>1 DEF DownloadInv, Fewer
<1> QED
  BY <1>1, <1>2, <1>3, <1>4, FewerStep DEF DownloadInv

(* Every step keeps the invariant. *)
LEMMA NextDownload == DownloadInv /\ [Next]_vars => DownloadInv'
<1> SUFFICES ASSUME DownloadInv, [Next]_vars PROVE DownloadInv'
  OBVIOUS
<1>1. ASSUME NEW a \in Announceable, AddTxAnnouncement(a[1], a[2]) PROVE DownloadInv'
  <2>1. a[1] \in Txs /\ a[2] \in Peers
    BY TrackerAssumption
  <2> QED
    BY <1>1, <2>1, AnnouncementStep
<1>2. ASSUME NEW p \in Peers, GetRequestsToSend(p) \/ Disconnect(p) \/ ConnectedPeer(p)
      PROVE  DownloadInv'
  BY <1>2, SendStep, DisconnectStep, OtherStep
<1>3. ASSUME NEW tx \in Txs, BlockConnected(tx) \/ BlockDisconnected(tx) \/ BroadcastTransaction(tx)
      PROVE  DownloadInv'
  BY <1>3, BlockConnectedStep, OtherStep
<1>4. ASSUME NEW tx \in Txs, NEW p \in Peers, ReceivedTx(tx, p) \/ ReceivedNotFound(tx, p)
      PROVE  DownloadInv'
  BY <1>4, ReceivedStep, NotFoundStep
<1>5. CASE Tick
  BY <1>5, TickStep
<1>6. CASE UNCHANGED vars
  BY <1>6, OtherStep
<1> QED
  BY <1>1, <1>2, <1>3, <1>4, <1>5, <1>6 DEF Next

(* The announcements stay sane, in use and within their limits, whatever   *)
(* the peers announce, deliver, withhold or deny, and whenever they go.    *)
THEOREM DownloadInvariant == Spec => []DownloadInv
BY InitDownload, NextDownload, PTL DEF Spec

(* The times of the announcements never exceed the delays of               *)
(* AddTxAnnouncement and the interval of GetRequestsToSend.                *)
THEOREM DownloadType == Spec => []TypeOK
<1>1. DownloadInv => TypeOK
  BY DEF DownloadInv, SaneIndex, DownloadGroups, TypeOK
<1> QED
  BY <1>1, DownloadInvariant, PTL

(* The tracker keeps nothing of a peer that has gone, waits only for       *)
(* answers that are on their way, and keeps no more announcements of a     *)
(* peer than MAX_PEER_TX_ANNOUNCEMENTS.                                    *)
THEOREM DownloadNothingStale == Spec => []NothingStale
<1>1. DownloadInv => NothingStale
  <2> SUFFICES ASSUME DownloadInv, NEW tx \in Txs, NEW p \in Peers
               PROVE  /\ p \in In(m_txrequest[tx], {"REQUESTED"}) => <<tx, p>> \in getdata
                      /\ m_txrequest[tx][p] # none => p \in m_peer_info
                      /\ Count(p) <= MAX_PEER_TX_ANNOUNCEMENTS
    BY DEF NothingStale
  <2>1. InUse(tx, p)
    BY DEF DownloadInv
  <2>2. p \in In(m_txrequest[tx], {"REQUESTED"}) => Stage(m_txrequest[tx], p) = "REQUESTED"
    BY DEF In, Stage
  <2>3. Count(p) <= MAX_PEER_TX_ANNOUNCEMENTS
    BY DEF DownloadInv, Limited, AnnouncedBy, Count
  <2> QED
    BY <2>1, <2>2, <2>3 DEF InUse
<1> QED
  BY <1>1, DownloadInvariant, PTL
=============================================================================
