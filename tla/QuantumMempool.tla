--------------------------- MODULE QuantumMempool ---------------------------
(***************************************************************************)
(* The memory pool and the chain around the activation of the quantum      *)
(* deployment: MemPoolAccept checks a transaction against the standard     *)
(* flags and then against the flags of the tip; a block is checked against *)
(* its own flags; results of script checks are cached; and a block that is *)
(* disconnected gives its transactions back to the pool.  cs_main is held  *)
(* in each of these, so each is one action.                                *)
(*                                                                         *)
(* A transaction is its one quantum input.  All its other checks (fees,    *)
(* lock times, conflicts, ...) are taken to pass, and different            *)
(* transactions spend different outputs.                                   *)
(***************************************************************************)
EXTENDS QuantumScript

CONSTANTS
    Txs,          \* transactions: records of a witness and a script
    MaxSigs,      \* MAX_STANDARD_QUANTUM_SIGS
    Networks,     \* the kinds of network to consider, see DeploymentAfter
    MaxBlocks     \* bound on the blocks after the first

ASSUME MempoolAssumption ==
    /\ Txs \subseteq [witness : Seq(Elements), script : Seq(Ops)]
    /\ MaxSigs \in Nat /\ MaxBlocks \in Nat
    /\ Networks \subseteq {"main", "test", "vbparams"}

VARIABLES
    network,           \* decides what the deployment does
    require_standard,  \* mempool option; always on for the main network
    chain,             \* blocks, from the first to the tip
    pool,              \* the memory pool
    script_cache,      \* m_script_execution_cache: <<transaction, flags>>
    bug,               \* history: ConsensusScriptChecks has failed
    deactivated        \* history: a disconnected block was the last active one

vars == <<network, require_standard, chain, pool, script_cache, bug, deactivated>>

(* A block: whether the deployment is active at it, whether it is for the  *)
(* block after it, and its transactions.                                   *)
Blocks == [active : BOOLEAN, next_active : BOOLEAN, txs : SUBSET Txs]
Tip == Last(chain)
Confirmed == UNION {chain[i].txs : i \in DOMAIN chain}

TypeOK ==
    /\ network \in Networks
    /\ require_standard \in BOOLEAN
    /\ chain \in Seq(Blocks) /\ chain # <<>>
    /\ pool \in SUBSET Txs
    /\ script_cache \in SUBSET (Txs \X Flags)
    /\ bug \in BOOLEAN
    /\ deactivated \in BOOLEAN

(* What the deployment may be for the block after one at which it is as    *)
(* given: NEVER_ACTIVE, ALWAYS_ACTIVE, or decided by the blocks (-vbparams *)
(* of a regression-test chain), and then for good.                         *)
DeploymentAfter(active) ==
    CASE network = "main" -> {FALSE}
      [] network = "test" -> {TRUE}
      [] OTHER -> IF active THEN {TRUE} ELSE BOOLEAN

Init ==
    /\ network \in Networks
    /\ require_standard \in (IF network = "main" THEN {TRUE} ELSE BOOLEAN)
    /\ \E active \in DeploymentAfter(FALSE) : \E next \in DeploymentAfter(active) :
          chain = <<[active |-> active, next_active |-> next, txs |-> {}]>>
    /\ pool = {} /\ script_cache = {}
    /\ bug = FALSE /\ deactivated = FALSE

-----------------------------------------------------------------------------
ScriptsPass(tx, flags) == ExecuteWitnessScript(flags, tx.witness, tx.script)

(* CheckInputScripts: the cache first, then the scripts. *)
CachedAnyFlags(tx, flags) == \E entry \in script_cache : entry[1] = tx
Cached(tx, flags) == <<tx, flags>> \in script_cache
CheckInputScripts(tx, flags) == Cached(tx, flags) \/ ScriptsPass(tx, flags)

(* The parts of PreChecks that look at quantum witnesses. *)
PreChecks(tx) ==
    require_standard => /\ IsWitnessStandard(tx.witness, tx.script)
                        /\ Cardinality(QuantumSignatures(tx.witness)) <= MaxSigs

PolicyScriptChecks(tx) == CheckInputScripts(tx, STANDARD_SCRIPT_VERIFY_FLAGS)
(* ... against the tip that the transaction is accepted on *)
NoConsensusScriptChecks(tx, tip) == TRUE
ConsensusScriptChecks(tx, tip) == CheckInputScripts(tx, GetBlockScriptFlags(tip.active))

(* AcceptSingleTransaction, for each of a set of transactions: those that  *)
(* get to ConsensusScriptChecks, and those that pass it.                   *)
Candidates(txs) == {tx \in txs : PreChecks(tx) /\ PolicyScriptChecks(tx)}
Accepted(txs, tip) == {tx \in Candidates(txs) : ConsensusScriptChecks(tx, tip)}

CacheEntrySwapped(tx, flags) == <<flags, tx>>
CacheEntry(tx, flags) == <<tx, flags>>
Store(txs, flags) == {CacheEntry(tx, flags) : tx \in txs}

AcceptOn(txs, tip) ==
    /\ pool' = pool \cup Accepted(txs, tip)
    /\ script_cache' = script_cache
                         \cup Store(Accepted(txs, tip), GetBlockScriptFlags(tip.active))
    /\ bug' = (bug \/ Accepted(txs, tip) # Candidates(txs))

AcceptToMemoryPool(tx) ==
    /\ tx \notin pool \cup Confirmed
    /\ AcceptOn({tx}, Tip)
    /\ UNCHANGED <<network, require_standard, chain, deactivated>>

(* The pool after a block was connected. *)
NotRemovedForBlock(txs) == pool
RemovedForBlock(txs) == pool \ txs

(* ConnectBlock and ConnectTip for a block of a peer or of the miner.  The *)
(* cache may drop what it was asked for, and the pool loses what is now in *)
(* the chain.  A block that fails changes nothing.                         *)
ConnectTip(txs) ==
    LET flags == GetBlockScriptFlags(Tip.next_active)
    IN  /\ Len(chain) <= MaxBlocks
        /\ txs \cap Confirmed = {}
        /\ \A tx \in txs : CheckInputScripts(tx, flags)
        /\ \E next \in DeploymentAfter(Tip.next_active) :
              chain' = Append(chain, [active |-> Tip.next_active, next_active |-> next,
                                      txs |-> txs])
        /\ pool' = RemovedForBlock(txs)
        /\ \/ UNCHANGED script_cache
           \/ script_cache' = script_cache \ Store(txs, flags)
        /\ UNCHANGED <<network, require_standard, bug, deactivated>>

(* CreateNewBlock with TestBlockValidity, which stores its results when    *)
(* the scripts are not checked in parallel, and fails with an exception    *)
(* when one of them does not pass.                                         *)
CreateNewBlock(txs) ==
    LET flags == GetBlockScriptFlags(Tip.next_active)
    IN  /\ txs \subseteq pool
        /\ \A tx \in txs : CheckInputScripts(tx, flags)
        /\ script_cache' = script_cache \cup Store(txs, flags)
        /\ UNCHANGED <<network, require_standard, chain, pool, bug, deactivated>>

(* InvalidateBlock of the tip: DisconnectTip, and then                     *)
(* MaybeUpdateMempoolForReorg, which offers the transactions of the block  *)
(* to the pool again and does not look at the scripts of the others.       *)
InvalidateBlock ==
    /\ Len(chain) > 1
    /\ chain' = Front(chain)
    /\ AcceptOn(Tip.txs \ pool, chain[Len(chain) - 1])
    /\ deactivated' = (deactivated \/ Tip.next_active # chain[Len(chain) - 1].next_active)
    /\ UNCHANGED <<network, require_standard>>

Next ==
    \/ \E tx \in Txs : AcceptToMemoryPool(tx)
    \/ \E txs \in SUBSET Txs : ConnectTip(txs)
    \/ \E txs \in SUBSET pool : CreateNewBlock(txs)
    \/ InvalidateBlock

Spec == Init /\ [][Next]_vars

-----------------------------------------------------------------------------
(* Properties *)

(* Every transaction of the chain passes the script checks under the flags *)
(* of its own block, although the cache may have answered for it, with     *)
(* entries made on another tip or for another block.                       *)
BlocksValid ==
    \A i \in DOMAIN chain : \A tx \in chain[i].txs :
        ScriptsPass(tx, GetBlockScriptFlags(chain[i].active))

(* As long as no activation was undone, every transaction of the pool can  *)
(* be mined in the next block, also when it was accepted before the        *)
(* activation: CreateNewBlock does not fail.                               *)
MempoolMinable ==
    ~deactivated => \A tx \in pool : ScriptsPass(tx, GetBlockScriptFlags(Tip.next_active))

(* A transaction is in the pool or in one block of the chain, never in     *)
(* two of these, over any sequence of connected and disconnected blocks.   *)
ConfirmedOnce ==
    /\ pool \cap Confirmed = {}
    /\ \A i, j \in DOMAIN chain : chain[i].txs \cap chain[j].txs # {} => i = j

-----------------------------------------------------------------------------
(* What comments say of this code, and a run refutes. *)

(* SubmitPackage and ConsensusScriptChecks: after PolicyScriptChecks has   *)
(* succeeded, ConsensusScriptChecks never fails.                           *)
PolicyImpliesConsensus == ~bug
=============================================================================
