----------------------------- MODULE CoinsFlush -----------------------------
(***************************************************************************)
(* The set of unspent outputs from the cache to the disk: Chainstate       *)
(* connects and disconnects blocks in memory (validation.cpp), writes what *)
(* has changed in several steps (FlushStateToDisk; CCoinsViewDB::BatchWrite *)
(* in txdb.cpp), and repairs at a restart what a crash has left half       *)
(* written (ReplayBlocks).  A crash comes at any point, and the database,  *)
(* which is not synced after a batch, then may have lost the last ones.    *)
(*                                                                         *)
(* cs_main is held over each action, and over each flush.  Blocks are      *)
(* valid; all are in one block file; pruning, snapshots and -reindex are   *)
(* left out.  Any write may fail.  After a fatal error nothing more is     *)
(* connected, but Shutdown flushes again, and what the failed write has    *)
(* taken off the lists of what there is to write is then left out: the     *)
(* properties hold until a write relies on one that has failed (damaged).  *)
(***************************************************************************)
EXTENDS CoinsView, Sequences, FiniteSets, SequencesExt

CONSTANTS
    Null,          \* the block hash 0
    Genesis,
    Blocks,
    Parent,        \* pprev
    Outpoints,
    Vtx            \* for a block: its transactions in order, with what each spends and creates

Txs == [coinbase : BOOLEAN, spends : SUBSET Outpoints, creates : SUBSET Outpoints]

ASSUME CoinsAssumption ==
    /\ Genesis \in Blocks /\ Null \notin Blocks /\ Parent[Genesis] = Null
    /\ \A b \in Blocks \ {Genesis} : Parent[b] \in Blocks
    \* Hashes make no cycles.
    /\ \A S \in SUBSET Blocks : S # {} => \E b \in S : Parent[b] \notin S
    /\ Vtx \in [Blocks -> Seq(Txs)] /\ Vtx[Genesis] = <<>>

Height[b \in Blocks \cup {Null}] == IF b \in {Null, Genesis} THEN 0 ELSE Height[Parent[b]] + 1
Ancestors[b \in Blocks \cup {Null}] == IF b = Null THEN {} ELSE {b} \cup Ancestors[Parent[b]]

(* What the unspent outputs are after a block, and before a transaction of *)
(* it: the undo data of the block are taken from there.                    *)
Applied(coins, tx, nHeight) ==
    [o \in Outpoints |-> IF o \in tx.creates THEN nHeight
                         ELSE IF o \in tx.spends THEN Spent ELSE coins[o]]
AllApplied(coins, vtx, nHeight) ==
    FoldLeft(LAMBDA c, tx : Applied(c, tx, nHeight), coins, vtx)
Empty == [o \in Outpoints |-> Spent]
Utxo[b \in Blocks \cup {Null}] ==
    IF b \in {Null, Genesis} THEN Empty ELSE AllApplied(Utxo[Parent[b]], Vtx[b], Height[b])
CoinsBefore(b, i) == AllApplied(Utxo[Parent[b]], SubSeq(Vtx[b], 1, i - 1), Height[b])

(* Blocks are valid: what a transaction spends is there (CheckTxInputs) and *)
(* what it creates is not (BIP 30).                                         *)
ASSUME ValidBlocks ==
    \A b \in Blocks \ {Genesis} : \A i \in 1..Len(Vtx[b]) :
        /\ \A o \in Vtx[b][i].spends : CoinsBefore(b, i)[o] # Spent
        /\ \A o \in Vtx[b][i].creates : CoinsBefore(b, i)[o] = Spent

-----------------------------------------------------------------------------
(* Blocks applied to a cache c over the coins base.                        *)
NoEntries == [o \in Outpoints |-> none]

(* AddCoins that asks first whether the coin is there. *)
AddChecked(e, base, coin) == AddCoin(FetchCoin(e, base), coin, HaveCoin(e, base))

(* Coinbases may overwrite. *)
UpdateCoins(d, base, tx, nHeight) ==
    [o \in Outpoints |-> IF o \in tx.spends THEN SpendCoin(d[o], base[o])
                         ELSE IF o \in tx.creates THEN AddCoin(d[o], nHeight, tx.coinbase)
                         ELSE d[o]]
ConnectBlock(c, base, b) ==
    FoldLeft(LAMBDA d, tx : UpdateCoins(d, base, tx, Height[b]), c, Vtx[b])

RollforwardTx(d, base, tx, nHeight) ==
    [o \in Outpoints |-> IF o \in tx.spends THEN SpendCoin(d[o], base[o])
                         ELSE IF o \in tx.creates THEN AddChecked(d[o], base[o], nHeight)
                         ELSE d[o]]
RollforwardBlock(c, base, b) ==
    FoldLeft(LAMBDA d, tx : RollforwardTx(d, base, tx, Height[b]), c, Vtx[b])

(* In reverse; ApplyTxInUndo puts back what was spent. *)
DisconnectTx(d, base, tx, undo) ==
    [o \in Outpoints |-> IF o \in tx.creates THEN SpendCoin(d[o], base[o])
                         ELSE IF o \in tx.spends THEN AddChecked(d[o], base[o], undo[o])
                         ELSE d[o]]
DisconnectBlock(c, base, b) ==
    FoldLeft(LAMBDA d, i : DisconnectTx(d, base, Vtx[b][i], CoinsBefore(b, i)),
             c, Reverse([i \in 1..Len(Vtx[b]) |-> i]))

GetAncestor(b, height) == CHOOSE a \in Ancestors[b] : Height[a] = height
LastCommonAncestor(a, b) ==
    LET common == Ancestors[a] \cap Ancestors[b]
    IN  CHOOSE c \in common : \A d \in common : Height[d] <= Height[c]

(* The blocks of a branch above a height, from the last one and to it. *)
Downward(b, height) ==
    [i \in 1..(Height[b] - height) |-> GetAncestor(b, Height[b] + 1 - i)]
Upward(b, height) ==
    [i \in 1..(Height[b] - height) |-> GetAncestor(b, height + i)]

(* ReplayBlocks: back along the old branch, then forward to the new tip.   *)
(* The first block is never disconnected or rolled forward.                *)
RolledBack(coins, branch) ==
    FoldLeft(LAMBDA c, b : DisconnectBlock(c, coins, b), NoEntries, branch)
RolledForward(cache, coins, branch) ==
    FoldLeft(LAMBDA c, b : RollforwardBlock(c, coins, b), cache, branch)
Replayed(coins, new, old) ==
    LET nForkHeight == IF old = Null THEN 0 ELSE Height[LastCommonAncestor(old, new)]
    IN  RolledForward(RolledBack(coins, Downward(old, nForkHeight)),
                      coins, Upward(new, nForkHeight))

-----------------------------------------------------------------------------
VARIABLES
    pc,          \* down, running, in a flush (files, coins), in the flush of a replay
                 \* (replay), after a failed write (aborting), or refusing to start (failed)
    mode,        \* the flush: cache erased (flush, also while there is none) or kept (sync),
                 \* or that of Shutdown (stop)
    index,       \* m_block_index: for each block what there is of it, DATA and UNDO
    dirty_index, \* m_dirty_blockindex: the entries that are to be written
    disk_index,  \* the same in the block tree database, which is synced
    files,       \* what is safe in the block and undo files
    cacheCoins,  \* of CoinsTip, or of the cache of ReplayBlocks
    hashBlock,   \* the best block of that cache
    db,          \* the coins database: the coins, DB_BEST_BLOCK, DB_HEAD_BLOCKS
    stable       \* the database as it would come out of a crash

(* What failed writes have left behind: nothing in the code keeps it, and no *)
(* step depends on it.                                                       *)
VARIABLES
    forgotten,   \* the coins that a failed Sync took for written
    unindexed,   \* the entries that a failed write of the block index took for written
    unsynced,    \* in a flush: the files could not be synced
    damaged      \* a write that relied on a failed one has been made

lost == <<forgotten, unindexed, unsynced, damaged>>
vars == <<pc, mode, index, dirty_index, disk_index, files, cacheCoins, hashBlock, db, stable, lost>>

Coins == {Spent} \cup {Height[b] : b \in Blocks}
Databases == [coins : [Outpoints -> Coins], best : Blocks \cup {Null},
              heads : {<<>>} \cup (Blocks \X (Blocks \cup {Null}))]
(* The flags that SanityCheck allows; no base view returns a spent coin, so *)
(* there is no FRESH one.                                                   *)
Entries == {e \in [coin : Coins, dirty : BOOLEAN, fresh : BOOLEAN] :
              IF e.coin = Spent THEN e.dirty /\ ~e.fresh ELSE e.fresh => e.dirty}
Contents == [Blocks -> SUBSET {"DATA", "UNDO"}]

TypeOK ==
    /\ pc \in {"down", "running", "files", "coins", "replay", "aborting", "failed"}
    /\ mode \in {"flush", "sync", "stop"}
    /\ {index, disk_index, files} \subseteq Contents
    /\ hashBlock \in Blocks \cup {Null}
    /\ dirty_index \subseteq Blocks /\ unindexed \subseteq Blocks
    /\ forgotten \subseteq Outpoints /\ {unsynced, damaged} \subseteq BOOLEAN
    /\ ~damaged => /\ cacheCoins \in [Outpoints -> Entries \cup {none}]
                   /\ {db, stable} \subseteq Databases

Unknown == [b \in Blocks |-> {}]
(* LoadGenesisBlock, if it is not there *)
WithGenesis(idx) == [idx EXCEPT ![Genesis] = @ \cup {"DATA"}]
DirtyGenesis(idx) == IF "DATA" \in idx[Genesis] THEN {} ELSE {Genesis}

Init ==
    /\ pc = "running" /\ mode = "flush"
    /\ index = WithGenesis(Unknown) /\ dirty_index = {Genesis}
    /\ disk_index = Unknown /\ files = Unknown
    /\ cacheCoins = NoEntries /\ hashBlock = Null
    /\ db = [coins |-> Empty, best |-> Null, heads |-> <<>>] /\ stable = db
    /\ forgotten = {} /\ unindexed = {} /\ unsynced = FALSE /\ damaged = FALSE

(* The coins that CoinsTip shows. *)
View == [o \in Outpoints |-> GetCoin(cacheCoins[o], db.coins[o])]

-----------------------------------------------------------------------------
(* A block arrives and is written to the block file. *)
AcceptBlock(b) ==
    /\ pc = "running" /\ index[b] = {} /\ index[Parent[b]] # {}
    /\ index' = [index EXCEPT ![b] = {"DATA"}]
    /\ dirty_index' = dirty_index \cup {b}
    /\ UNCHANGED <<pc, mode, disk_index, files, cacheCoins, hashBlock, db, stable, lost>>

(* A block is applied to a view over CoinsTip, which is then flushed into  *)
(* it.  The view's lookups have filled CoinsTip from the database.         *)
Touched(b) == UNION {tx.spends \cup tx.creates : tx \in Range(Vtx[b])}
Looked(b) == [o \in Outpoints |-> IF o \in Touched(b) THEN FetchCoin(cacheCoins[o], db.coins[o])
                                  ELSE cacheCoins[o]]
FlushedInto(c, view) == [o \in Outpoints |-> BatchWrite(c[o], view[o])]

(* Undo data are written if the block has none. *)
WriteBlockUndo(b) ==
    IF b = Genesis \/ "UNDO" \in index[b] THEN UNCHANGED <<index, dirty_index>>
    ELSE /\ index' = [index EXCEPT ![b] = @ \cup {"UNDO"}]
         /\ dirty_index' = dirty_index \cup {b}

ConnectTip(b) ==
    /\ pc = "running" /\ "DATA" \in index[b] /\ Parent[b] = hashBlock
    /\ cacheCoins' = FlushedInto(Looked(b), ConnectBlock(NoEntries, View, b))
    /\ hashBlock' = b
    /\ WriteBlockUndo(b)
    /\ UNCHANGED <<pc, mode, disk_index, files, db, stable, lost>>

DisconnectTip ==
    /\ pc = "running" /\ hashBlock \notin {Null, Genesis} /\ "UNDO" \in index[hashBlock]
    /\ cacheCoins' = FlushedInto(Looked(hashBlock), DisconnectBlock(NoEntries, View, hashBlock))
    /\ hashBlock' = Parent[hashBlock]
    /\ UNCHANGED <<pc, mode, index, dirty_index, disk_index, files, db, stable, lost>>

(* The mempool looks a coin up through CoinsTip, or uncaches it. *)
LookUp(o) ==
    /\ pc = "running"
    /\ cacheCoins' = [cacheCoins EXCEPT ![o] = FetchCoin(@, db.coins[o])]
    /\ UNCHANGED <<pc, mode, index, dirty_index, disk_index, files, hashBlock, db, stable, lost>>
UncacheCoin(o) ==
    /\ pc = "running"
    /\ cacheCoins' = [cacheCoins EXCEPT ![o] = Uncache(@)]
    /\ UNCHANGED <<pc, mode, index, dirty_index, disk_index, files, hashBlock, db, stable, lost>>

-----------------------------------------------------------------------------
(* FlushStateToDisk: block files, then the block index, then the coins.    *)
(* The sync of the files may fail, and then there is a warning and the     *)
(* flush goes on; what of them is safe all the same can only help.         *)
FlushBlockFileNoUndo == [b \in Blocks |-> files[b] \cup (index[b] \cap {"DATA"})]
FlushBlockFile == index

FlushBlockFiles(m, synced) ==
    /\ pc = "running" \/ (pc = "aborting" /\ m = "stop")
    /\ pc' = "files" /\ mode' = m
    /\ files' = IF synced THEN FlushBlockFile ELSE files
    /\ unsynced' = ~synced
    /\ UNCHANGED <<index, dirty_index, disk_index, cacheCoins, hashBlock, db, stable,
                   forgotten, unindexed, damaged>>

WriteBlockIndexDB ==
    /\ pc = "files"
    /\ disk_index' = [b \in Blocks |-> IF b \in dirty_index THEN index[b] ELSE disk_index[b]]
    /\ dirty_index' = {}
    /\ pc' = IF hashBlock # Null THEN "coins" ELSE IF mode = "stop" THEN "down" ELSE "running"
    /\ mode' = IF hashBlock # Null THEN mode ELSE "flush"
    /\ unsynced' = FALSE /\ damaged' = (damaged \/ (unsynced /\ dirty_index # {}))
    /\ UNCHANGED <<index, files, cacheCoins, hashBlock, db, stable, forgotten, unindexed>>

(* The entries are taken off the list before they are written.  FatalError, *)
(* and Shutdown will flush once more.                                       *)
WriteBlockIndexFails ==
    /\ pc = "files"
    /\ dirty_index' = {} /\ unindexed' = unindexed \cup dirty_index
    /\ pc' = "aborting" /\ mode' = "flush"
    /\ unsynced' = FALSE
    /\ UNCHANGED <<index, disk_index, files, cacheCoins, hashBlock, db, stable,
                   forgotten, damaged>>

(* CCoinsViewDB::BatchWrite.  Entries go out in batches; the first makes    *)
(* the database one in transition, the last one that has the new best      *)
(* block.  The assertion on the heads stops the process if it fails.       *)
Dirty == {o \in Outpoints : cacheCoins[o] # none /\ cacheCoins[o].dirty}
OldTip == IF db.best = Null /\ db.heads # <<>> THEN db.heads[2] ELSE db.best
HeadsAgree == db.best = Null /\ db.heads # <<>> => db.heads[1] = hashBlock
CoinsWith(batch) == [o \in Outpoints |-> IF o \in batch THEN cacheCoins[o].coin ELSE db.coins[o]]
(* What has been put into a batch is clean, unless all will be erased. *)
Handed(batch) ==
    IF mode = "sync" /\ pc = "coins"
    THEN [o \in Outpoints |-> IF o \in batch THEN NextAndMaybeErase(cacheCoins[o]) ELSE cacheCoins[o]]
    ELSE cacheCoins

(* The chain of the tip has an entry that the block index on the disk lacks. *)
NotIndexed == unindexed \cap Ancestors[hashBlock] # {}

WritePartialBatch(batch) ==
    /\ pc \in {"coins", "replay"} /\ HeadsAgree /\ batch # {}
    /\ db' = [coins |-> CoinsWith(batch), best |-> Null, heads |-> <<hashBlock, OldTip>>]
    /\ stable' \in {stable, db'}
    /\ cacheCoins' = Handed(batch)
    /\ damaged' = (damaged \/ NotIndexed)
    /\ UNCHANGED <<pc, mode, index, dirty_index, disk_index, files, hashBlock,
                   forgotten, unindexed, unsynced>>

WriteFinalBatch ==
    /\ pc \in {"coins", "replay"} /\ HeadsAgree
    /\ db' = [coins |-> CoinsWith(Dirty), best |-> hashBlock, heads |-> <<>>]
    /\ stable' \in {stable, db'}
    /\ cacheCoins' = IF mode = "sync" /\ pc = "coins" THEN Handed(Dirty) ELSE NoEntries
    /\ pc' = IF mode = "stop" /\ pc = "coins" THEN "down" ELSE "running"
    /\ mode' = "flush"
    /\ damaged' = (damaged \/ NotIndexed \/ forgotten # {})
    /\ UNCHANGED <<index, dirty_index, disk_index, files, hashBlock,
                   forgotten, unindexed, unsynced>>

(* A write fails: FatalError, and Shutdown will flush once more.  What a    *)
(* Sync had put into the batch is clean already.                            *)
WriteFails(batch) ==
    /\ pc = "coins" /\ HeadsAgree
    /\ cacheCoins' = Handed(batch)
    /\ forgotten' = IF mode = "sync" THEN forgotten \cup batch ELSE forgotten
    /\ pc' = "aborting" /\ mode' = "flush"
    /\ UNCHANGED <<index, dirty_index, disk_index, files, hashBlock, db, stable,
                   unindexed, unsynced, damaged>>

-----------------------------------------------------------------------------
Crash ==
    /\ pc' = "down" /\ mode' = "flush"
    /\ db' = stable
    /\ index' = Unknown /\ dirty_index' = {} /\ cacheCoins' = NoEntries /\ hashBlock' = Null
    /\ forgotten' = {} /\ unindexed' = {} /\ unsynced' = FALSE
    /\ UNCHANGED <<disk_index, files, stable, damaged>>

(* Everything that ReplayBlocks asks the block index and the files for. *)
CanReplay(idx, new, old) ==
    /\ idx[new] # {} /\ (old = Null \/ idx[old] # {})
    /\ \A b \in Ancestors[old] \ Ancestors[new] : {"DATA", "UNDO"} \subseteq idx[b] \cap files[b]
    /\ \A b \in Ancestors[new] \ (Ancestors[old] \cup {Genesis}) : "DATA" \in idx[b] \cap files[b]

(* LoadBlockIndex and LoadGenesisBlock; then LoadChainTip, or ReplayBlocks *)
(* first, up to its flush.                                                 *)
Restart ==
    LET idx == WithGenesis(disk_index)
        inTransition == db.heads # <<>>
    IN  /\ pc = "down"
        /\ index' = idx /\ dirty_index' = DirtyGenesis(disk_index)
        /\ pc' = IF inTransition THEN (IF CanReplay(idx, db.heads[1], db.heads[2]) THEN "replay" ELSE "failed")
                 ELSE IF db.best # Null /\ idx[db.best] = {} THEN "failed" ELSE "running"
        /\ hashBlock' = IF inTransition THEN db.heads[1] ELSE db.best
        /\ cacheCoins' = IF inTransition THEN Replayed(db.coins, db.heads[1], db.heads[2]) ELSE NoEntries
        /\ forgotten' = {} /\ unindexed' = {} /\ unsynced' = FALSE
        /\ UNCHANGED <<mode, disk_index, files, db, stable, damaged>>

Next ==
    \/ \E b \in Blocks : AcceptBlock(b) \/ ConnectTip(b)
    \/ DisconnectTip
    \/ \E o \in Outpoints : LookUp(o) \/ UncacheCoin(o)
    \/ \E m \in {"flush", "sync", "stop"}, synced \in BOOLEAN : FlushBlockFiles(m, synced)
    \/ WriteBlockIndexDB \/ WriteBlockIndexFails
    \/ \E batch \in SUBSET Dirty : WritePartialBatch(batch) \/ WriteFails(batch)
    \/ WriteFinalBatch
    \/ Crash \/ Restart

Spec == Init /\ [][Next]_vars

-----------------------------------------------------------------------------
(* What the node takes for unspent is what its chain leaves unspent,       *)
(* through any reorganisations, flushes, evictions, failed writes and      *)
(* crashes: except for the coins that a failed Sync took for written, and  *)
(* as long as no write has relied on a failed one.                         *)
CacheIsTip ==
    pc \in {"running", "files", "coins"} /\ ~damaged =>
        \A o \in Outpoints \ forgotten : View[o] = Utxo[hashBlock][o]

(* "mark the database as consistent with hashBlock": a database that names *)
(* a best block has exactly the unspent outputs of that block's chain.     *)
(* This is also what a crash during a replay comes back to.                *)
Consistent(image) == image.heads = <<>> => image.coins = Utxo[image.best]
(* So it is through failed writes, until one has been relied on ... *)
MarkedConsistent == ~damaged => Consistent(db) /\ Consistent(stable)
(* ... but not for ever: the flush of Shutdown, after a Sync that failed,   *)
(* marks a database in which that Sync's coins are missing.                 *)
LastBatchConsistent == Consistent(db)

(* "FRESH means the parent cache does not have this coin or that it is a   *)
(* spent coin", and what is not DIRTY is as in the database, but for what  *)
(* a failed Sync took for written.                                         *)
FlagsTrue ==
    pc \in {"running", "files"} /\ db.heads = <<>> /\ ~damaged =>
        \A o \in Outpoints \ forgotten :
            LET e == cacheCoins[o]
            IN  e # none => /\ e.fresh => db.coins[o] = Spent
                            /\ ~e.dirty => e.coin = db.coins[o]

(* After a crash the node can start: the block index on the disk has what  *)
(* the database refers to, and the files have what the index refers to,    *)
(* until a write has relied on one that failed.  (The flush of Shutdown    *)
(* does: the entries of a failed index write are off their list, so it     *)
(* writes coins that name a block which the next start will not find.)     *)
Recoverable ==
    ~damaged => pc # "failed" /\ \A b \in Blocks : disk_index[b] \subseteq files[b]
=============================================================================
