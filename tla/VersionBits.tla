----------------------------- MODULE VersionBits -----------------------------
(***************************************************************************)
(* The BIP 9 state of a deployment (versionbits.cpp).  The state of the    *)
(* block after a given one is computed from the last block of each period  *)
(* and cached per block, on whichever branch is asked about and in         *)
(* whichever order: by validation (IsActiveAfter), by the miner            *)
(* (ComputeBlockVersion, GBTStatus), by RPC (Info) and, for the warning    *)
(* about unknown rules, by CheckUnknownActivations, which keeps a second   *)
(* cache on top of the first.  m_mutex is held in each of them.            *)
(*                                                                         *)
(* One version bit is modelled, the one of the deployment; a deployment    *)
(* that is NEVER_ACTIVE leaves it an unknown bit.  A block is its          *)
(* signalling of that bit and its median time past, which the rule that a  *)
(* block's time exceeds the median of its ancestors keeps from falling     *)
(* along a branch.                                                         *)
(***************************************************************************)
EXTENDS Integers, Sequences, FiniteSets

CONSTANTS
    Parent,       \* the tree of blocks 1, 2, ...: pprev, nullptr for the first
    Deployments,  \* Consensus::BIP9Deployment: the parameters to consider
    Warning,      \* the parameters of WarningBitsConditionChecker
    MinBIP9WarningHeight,
    Headers       \* what each block may be: how much later its median time past
                  \* is than its parent's, and whether it signals

ALWAYS_ACTIVE == -1
NEVER_ACTIVE == -2
nullptr == 0

Blocks == DOMAIN Parent
Parameters == [begin : Nat \cup {ALWAYS_ACTIVE, NEVER_ACTIVE}, end : Int,
               min_activation_height : Nat, period : Nat \ {0}, threshold : Nat]

ASSUME VersionBitsAssumption ==
    /\ Parent \in Seq(Nat)
    /\ \A b \in Blocks : Parent[b] \in 0..b - 1
    /\ Deployments \subseteq Parameters
    /\ Warning \in Parameters
    /\ MinBIP9WarningHeight \in Nat
    /\ DOMAIN Headers = Blocks
    /\ \A b \in Blocks : Headers[b] \subseteq [later : Nat, signal : BOOLEAN]

VARIABLES
    dep,        \* the parameters of the deployment
    index,      \* the block index: CBlockIndex of the headers accepted so far
    cache,      \* m_caches of the deployment
    warn_cache  \* m_warning_caches of its bit

vars == <<dep, index, cache, warn_cache>>

States == {"DEFINED", "STARTED", "LOCKED_IN", "ACTIVE", "FAILED"}
(* The argument pindexPrev of the queries. *)
Indexed == DOMAIN index \cup {nullptr}

Init ==
    /\ dep \in Deployments
    /\ index = <<>> /\ cache = <<>> /\ warn_cache = <<>>

-----------------------------------------------------------------------------
nHeight[b \in Blocks \cup {nullptr}] ==
    IF b = nullptr THEN -1 ELSE nHeight[Parent[b]] + 1

(* b and the blocks before it, without nullptr. *)
Branch[b \in Blocks \cup {nullptr}] ==
    IF b = nullptr THEN {} ELSE {b} \cup Branch[Parent[b]]

(* Caches hold the states after the last block of a period, and no others. *)
IsCache(c, period) ==
    \A e \in DOMAIN c : e \in Indexed /\ (nHeight[e] + 1) % period = 0 /\ c[e] \in States

TypeOK ==
    /\ dep \in Deployments
    /\ DOMAIN index \subseteq Blocks
    /\ \A b \in DOMAIN index : index[b] \in [mtp : Nat, signal : BOOLEAN]
    /\ IsCache(cache, dep.period) /\ IsCache(warn_cache, Warning.period)

GetAncestor(b, height) ==
    IF height < 0 THEN nullptr ELSE CHOOSE a \in Branch[b] : nHeight[a] = height

(* The last block, up to b, that ends a period; and the one before e. *)
EndOfPeriod(b, period) == GetAncestor(b, nHeight[b] - ((nHeight[b] + 1) % period))
PreviousEnd(e, period) == GetAncestor(e, nHeight[e] - period)

GetMedianTimePast(b) == index[b].mtp

(* The blocks of the period that ends with e which meet the Condition, *)
(* given the blocks that meet it.                                      *)
CountFromEnd(e, period, signalling) ==
    Cardinality({b \in Branch[e] \cap signalling : nHeight[b] > nHeight[e] - period})

(* The switch in GetStateFor: from the state of the period that ends with e *)
(* to that of the next.                                                     *)
NextState(c, signalling, state, e) ==
    CASE state = "DEFINED" /\ GetMedianTimePast(e) >= c.begin -> "STARTED"
      [] state = "STARTED" /\ CountFromEnd(e, c.period, signalling) >= c.threshold -> "LOCKED_IN"
      [] state = "STARTED" /\ CountFromEnd(e, c.period, signalling) < c.threshold
                           /\ GetMedianTimePast(e) >= c.end -> "FAILED"
      [] state = "LOCKED_IN" /\ nHeight[e] + 1 >= c.min_activation_height -> "ACTIVE"
      [] OTHER -> state

-----------------------------------------------------------------------------
(* GetStateFor: back from the end of a period until the state is cached,   *)
(* or is DEFINED because there is no block or its time is before the       *)
(* start; then forward again, caching every state on the way.              *)
BeforeStart(c, e) == e = nullptr \/ GetMedianTimePast(e) < c.begin

WalkedFromBlock(c, known, p) ==
    LET Back[e \in Indexed] ==
          IF e \in DOMAIN known \/ BeforeStart(c, e) THEN {e}
          ELSE {e} \cup Back[PreviousEnd(e, c.period)]
    IN  Back[p]
Walked(c, known, p) ==
    LET Back[e \in Indexed] ==
          IF e \in DOMAIN known \/ BeforeStart(c, e) THEN {e}
          ELSE {e} \cup Back[PreviousEnd(e, c.period)]
    IN  Back[EndOfPeriod(p, c.period)]

StateOf(c, known, signalling, p) ==
    LET Forward[e \in Indexed] ==
          CASE e \in DOMAIN known -> known[e]
            [] e \notin DOMAIN known /\ BeforeStart(c, e) -> "DEFINED"
            [] OTHER -> NextState(c, signalling, Forward[PreviousEnd(e, c.period)], e)
    IN  Forward[EndOfPeriod(p, c.period)]

GetStateFor(c, known, signalling, p) ==
    CASE c.begin = ALWAYS_ACTIVE -> "ACTIVE"
      [] c.begin = NEVER_ACTIVE -> "FAILED"
      [] OTHER -> StateOf(c, known, signalling, p)

(* ... and the cache afterwards.  It is keyed by the end of the period. *)
Cached(c, known, signalling, ends) ==
    [e \in ends \cup DOMAIN known |->
        IF e \in ends THEN StateOf(c, known, signalling, e) ELSE known[e]]
CachedByHeight(c, known, signalling, p) ==
    LET walked == Walked(c, known, p)
        at(e) == {g \in walked : nHeight[e] = nHeight[g]}
    IN  [e \in {f \in Indexed : at(f) # {}} \cup DOMAIN known |->
            IF at(e) = {} THEN known[e]
            ELSE StateOf(c, known, signalling, CHOOSE g \in at(e) : TRUE)]
CacheAfter(c, known, signalling, p) ==
    IF c.begin \in {ALWAYS_ACTIVE, NEVER_ACTIVE} THEN known
    ELSE Cached(c, known, signalling, Walked(c, known, p))

(* Condition of VersionBitsConditionChecker: the blocks that signal. *)
Signalling == {b \in DOMAIN index : index[b].signal}

State(p) == GetStateFor(dep, cache, Signalling, p)

(* GetStateSinceHeightFor: back over the ends of the periods in whose next *)
(* one the state was the same.                                             *)
GetStateSinceHeightFor(p) ==
    LET initialState == State(p)
        Back[e \in Indexed] ==
          LET previous == PreviousEnd(e, dep.period)
          IN  IF previous # nullptr /\ State(previous) = initialState THEN Back[previous]
              ELSE nHeight[e] + 1
    IN  IF dep.begin \in {ALWAYS_ACTIVE, NEVER_ACTIVE} \/ initialState = "DEFINED" THEN 0
        ELSE Back[EndOfPeriod(p, dep.period)]

(* GetStateStatisticsFor: over the period that b is in, up to b. *)
StatisticsBeforeBlock(b) ==
    LET elapsed == nHeight[b] % dep.period
        count == CountFromEnd(b, elapsed, Signalling)
    IN  [elapsed |-> elapsed, count |-> count,
         possible |-> dep.period - dep.threshold >= elapsed - count]
GetStateStatisticsFor(b) ==
    LET elapsed == 1 + (nHeight[b] % dep.period)
        count == CountFromEnd(b, elapsed, Signalling)
    IN  [elapsed |-> elapsed, count |-> count,
         possible |-> dep.period - dep.threshold >= elapsed - count]

(* ComputeBlockVersion: whether the version for the block after p has the *)
(* bit.                                                                   *)
ComputeBlockVersion(p) == State(p) \in {"STARTED", "LOCKED_IN"}

(* Condition of WarningBitsConditionChecker: the signal is not expected.   *)
(* The last of its tests is made, and the deployment's cache filled, only  *)
(* when the others hold.                                                   *)
WarnCandidates == {b \in Signalling : nHeight[b] >= MinBIP9WarningHeight}
WarnSignallingAny == WarnCandidates
WarnSignalling == {b \in WarnCandidates : ~ComputeBlockVersion(Parent[b])}

(* The candidates that GetStateFor asks about: those of the periods it     *)
(* computes while the state is STARTED.                                    *)
WarnCounted(p, unexpected) ==
    LET Computed == {e \in Walked(Warning, warn_cache, p) \ DOMAIN warn_cache :
                        /\ ~BeforeStart(Warning, e)
                        /\ StateOf(Warning, warn_cache, unexpected,
                                   PreviousEnd(e, Warning.period)) = "STARTED"}
    IN  {b \in WarnCandidates : \E e \in Computed :
            b \in Branch[e] /\ nHeight[b] > nHeight[e] - Warning.period}

-----------------------------------------------------------------------------
(* A header enters the block index after its parent.  Blocks are numbered *)
(* in the order in which they do.                                         *)
AddToBlockIndex(b, mtp, signal) ==
    index' = [a \in DOMAIN index \cup {b} |->
                IF a = b THEN [mtp |-> mtp, signal |-> signal] ELSE index[a]]
AcceptBlockHeader(b, header) ==
    LET mtp == header.later + (IF Parent[b] = nullptr THEN 0 ELSE GetMedianTimePast(Parent[b]))
    IN  /\ b = Cardinality(DOMAIN index) + 1
        /\ AddToBlockIndex(b, mtp, header.signal)
        /\ UNCHANGED <<dep, cache, warn_cache>>

(* IsActiveAfter, ComputeBlockVersion and GBTStatus *)
Query(p) ==
    /\ cache' = CacheAfter(dep, cache, Signalling, p)
    /\ UNCHANGED <<dep, index, warn_cache>>

(* Info: the state at a block and after it.  The state of each earlier     *)
(* period that GetStateSinceHeightFor asks for is then cached.             *)
Info(b) ==
    /\ cache' = CacheAfter(dep, CacheAfter(dep, cache, Signalling, Parent[b]), Signalling, b)
    /\ UNCHANGED <<dep, index, warn_cache>>

(* CheckUnknownActivations, when the tip changes *)
CheckUnknownActivations(b) ==
    LET unexpected == WarnSignalling
        Asked == {Parent[a] : a \in WarnCounted(b, unexpected)}
        Filled == UNION {Walked(dep, cache, p) : p \in Asked} \ DOMAIN cache
    IN  /\ warn_cache' = CacheAfter(Warning, warn_cache, unexpected, b)
        /\ cache' = IF dep.begin < 0 THEN cache
                    ELSE Cached(dep, cache, Signalling, Filled)
        /\ UNCHANGED <<dep, index>>

Next ==
    \/ \E b \in Blocks : \E header \in Headers[b] : AcceptBlockHeader(b, header)
    \/ \E p \in Indexed : Query(p)
    \/ \E b \in DOMAIN index : Info(b)
    \/ \E b \in DOMAIN index : CheckUnknownActivations(b)

Spec == Init /\ [][Next]_vars

-----------------------------------------------------------------------------
(* The rule of BIP 9, without the caches and without walking: what the     *)
(* state after p is, from the ends of the periods on p's branch.  The      *)
(* first period after the start that either has enough signals or ends     *)
(* past the timeout decides.                                               *)
RuleState(c, signalling, p) ==
    LET Ends == {e \in Branch[p] : (nHeight[e] + 1) % c.period = 0}
        Starts == {e \in Ends : GetMedianTimePast(e) >= c.begin}
        Voting == {e \in Ends : \E s \in Starts : nHeight[s] < nHeight[e]}
        Enough(e) == CountFromEnd(e, c.period, signalling) >= c.threshold
        Deciding == {e \in Voting : Enough(e) \/ GetMedianTimePast(e) >= c.end}
        First == CHOOSE e \in Deciding : \A f \in Deciding : nHeight[e] <= nHeight[f]
    IN  CASE c.begin = ALWAYS_ACTIVE -> "ACTIVE"
          [] c.begin = NEVER_ACTIVE -> "FAILED"
          [] c.begin >= 0 /\ Starts = {} -> "DEFINED"
          [] c.begin >= 0 /\ Starts # {} /\ Deciding = {} -> "STARTED"
          [] c.begin >= 0 /\ Deciding # {} ->
               IF ~Enough(First) THEN "FAILED"
               ELSE IF \E e \in Ends : /\ nHeight[e] > nHeight[First]
                                       /\ nHeight[e] + 1 >= c.min_activation_height
                    THEN "ACTIVE" ELSE "LOCKED_IN"

(* Whatever was asked before, on whatever branches and in whatever order,  *)
(* GetStateFor answers what the rule says of the block's own branch, so    *)
(* that all nodes agree on which blocks the quantum rules apply to.        *)
StateByRule == \A p \in Indexed : State(p) = RuleState(dep, Signalling, p)

SinceIsFirst(b) ==
    LET since == GetStateSinceHeightFor(b)
        now == RuleState(dep, Signalling, b)
    IN  /\ \A a \in Branch[b] :
             nHeight[a] + 1 >= since => RuleState(dep, Signalling, a) = now
        /\ since > 0 => RuleState(dep, Signalling, GetAncestor(b, since - 2)) # now
PossibleIsSound(b) ==
    LET stats == GetStateStatisticsFor(b)
        end == EndOfPeriod(b, dep.period) = b
    IN  /\ ~stats.possible =>
             \A e \in DOMAIN index :
                (b \in Branch[e] /\ nHeight[e] - nHeight[b] = dep.period - stats.elapsed)
                   => State(e) # "LOCKED_IN"
        /\ end => (stats.possible <=> State(b) = "LOCKED_IN")

(* What Info reports.  The height "since" is the first one on this branch  *)
(* from which the state has been the present one; when lock-in is called   *)
(* no longer possible in a block's period, no block that ends the period   *)
(* on any branch from it locks in; and at the end of a period "possible"   *)
(* is exactly "locks in".                                                  *)
InfoIsRight ==
    dep.begin >= 0 => \A b \in DOMAIN index :
        SinceIsFirst(b) /\ (State(Parent[b]) = "STARTED" => PossibleIsSound(b))

(* A warning about unknown rules is given exactly when the rule, applied   *)
(* to the signals that the deployment does not explain, has locked in: it  *)
(* depends neither on the order of the queries nor on what was cached      *)
(* about the deployment.                                                   *)
WarningByRule ==
    LET unexpected == WarnSignalling
        unexplained == {b \in WarnCandidates :
            RuleState(dep, Signalling, Parent[b]) \notin {"STARTED", "LOCKED_IN"}}
    IN  \A p \in Indexed : GetStateFor(Warning, warn_cache, unexpected, p)
                                = RuleState(Warning, unexplained, p)
=============================================================================
