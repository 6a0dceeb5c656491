------------------------- MODULE CoinsFlush_proofs --------------------------
(***************************************************************************)
(* Proofs about CoinsFlush, for any tree of valid blocks: wherever a crash *)
(* comes, in a flush, in a reorganisation or in the repair of an earlier   *)
(* crash, whatever the database has lost and whichever writes have failed, *)
(* the node can start again (RecoverInv), and its coins are those of its   *)
(* tip (CoinsInv): until a write relies on one that failed.  The second    *)
(* goes by one outpoint: an entry of the cache that is Sound for the coin  *)
(* below it stays so, and a block moves what a cache shows from the coins  *)
(* of its parent to its own, or back, even where another block's coins     *)
(* were there already (Between).                                           *)
(***************************************************************************)
EXTENDS CoinsFlush, NaturalsInduction, WellFoundedInduction, TLAPS

(* The hash of a block, or 0. *)
Hashes == Blocks \cup {Null}

(* An equation that Ancestors solves, and the smallest solution. *)
AncestorsSolve(f) == f = [b \in Hashes |-> IF b = Null THEN {} ELSE {b} \cup f[Parent[b]]]
Closed(S, b) == b \in S /\ \A x \in S \cap Blocks : Parent[x] \in S
LeastAncestors ==
    [b \in Hashes |-> {a \in Blocks : \A S \in SUBSET Hashes : Closed(S, b) => a \in S}]

(* A block and its ancestors. *)
LEMMA AncestorsOf ==
    /\ Ancestors[Null] = {}
    /\ \A b \in Blocks : Parent[b] \in Hashes /\ Ancestors[b] = {b} \cup Ancestors[Parent[b]]
<1>1. \A b \in Blocks : Parent[b] \in Hashes /\ b # Null
  BY CoinsAssumption DEF Hashes
<1>2. LeastAncestors[Null] = {}
  <2>1. {Null} \in SUBSET Hashes /\ Closed({Null}, Null)
    BY <1>1 DEF Closed, Hashes
  <2>2. \A a \in Blocks : a \notin {Null}
    BY <1>1
  <2> QED
    BY <2>1, <2>2 DEF LeastAncestors, Hashes
<1>3. ASSUME NEW b \in Blocks PROVE LeastAncestors[b] = {b} \cup LeastAncestors[Parent[b]]
  <2>1. ASSUME NEW a \in LeastAncestors[b], a # b PROVE a \in LeastAncestors[Parent[b]]
    <3>1. a \in Blocks
      BY <2>1 DEF LeastAncestors, Hashes
    <3>2. ASSUME NEW S \in SUBSET Hashes, Closed(S, Parent[b]) PROVE a \in S
      <4>1. S \cup {b} \in SUBSET Hashes /\ Closed(S \cup {b}, b)
        BY <3>2 DEF Closed, Hashes
      <4>2. a \in S \cup {b}
        BY <2>1, <4>1 DEF LeastAncestors, Hashes
      <4> QED
        BY <2>1, <4>2
    <3> QED
      BY <1>1, <3>1, <3>2 DEF LeastAncestors
  <2>2. ASSUME NEW a \in LeastAncestors[Parent[b]] PROVE a \in LeastAncestors[b]
    <3>1. a \in Blocks
      BY <1>1, <2>2 DEF LeastAncestors
    <3>2. ASSUME NEW S \in SUBSET Hashes, Closed(S, b) PROVE a \in S
      <4>1. Closed(S, Parent[b])
        BY <3>2 DEF Closed
      <4> QED
        BY <1>1, <2>2, <4>1 DEF LeastAncestors
    <3> QED
      BY <3>1, <3>2 DEF LeastAncestors, Hashes
  <2>3. b \in LeastAncestors[b]
    BY DEF LeastAncestors, Closed, Hashes
  <2> QED
    BY <2>1, <2>2, <2>3
<1>4. AncestorsSolve(LeastAncestors)
  <2>1. ASSUME NEW b \in Hashes
        PROVE  LeastAncestors[b] = IF b = Null THEN {} ELSE {b} \cup LeastAncestors[Parent[b]]
    BY <1>2, <1>3 DEF Hashes
  <2>2. LeastAncestors = [b \in Hashes |-> LeastAncestors[b]]
    BY DEF LeastAncestors
  <2> QED
    BY <2>1, <2>2 DEF AncestorsSolve
<1>5. Ancestors = CHOOSE f : AncestorsSolve(f)
  BY DEF Ancestors, AncestorsSolve, Hashes
<1>6. AncestorsSolve(Ancestors)
  BY <1>4, <1>5
<1> QED
  BY <1>1, <1>6 DEF AncestorsSolve, Hashes

-----------------------------------------------------------------------------
(* What of TypeOK the restart depends on: not the coins.  After a failed   *)
(* write there is only the flush of Shutdown, until the node is restarted. *)
Markers == {<<>>} \cup (Blocks \X Hashes)
MarkersOK(image) == image.best \in Hashes /\ image.heads \in Markers
LostOK ==
    /\ dirty_index \subseteq Blocks /\ unindexed \subseteq Blocks /\ forgotten \subseteq Outpoints
    /\ unsynced \in BOOLEAN /\ damaged \in BOOLEAN
    /\ pc \in {"running", "replay"} \/ (pc \in {"files", "coins"} /\ mode # "stop") =>
          forgotten = {} /\ unindexed = {}
ControlOK ==
    /\ pc \in {"down", "running", "files", "coins", "replay", "aborting", "failed"}
    /\ mode \in {"flush", "sync", "stop"}
    /\ index \in Contents /\ disk_index \in Contents /\ files \in Contents
    /\ hashBlock \in Hashes /\ (pc \in {"coins", "replay"} => hashBlock # Null)
    /\ MarkersOK(db) /\ MarkersOK(stable)
    /\ LostOK

(* The chain that ends in b goes back to the first block, and idx has      *)
(* every other block of it with its undo data.                             *)
ChainIn(idx, b) ==
    b # Null => /\ Ancestors[b] \subseteq Blocks /\ Genesis \in Ancestors[b]
                /\ \A a \in Ancestors[b] \ {Genesis} : {"DATA", "UNDO"} \subseteq idx[a]

(* Every block that a database names as its best one, as the one it was    *)
(* being moved to or as the one it was being moved from.                   *)
NamesIn(idx, image) ==
    /\ ChainIn(idx, image.best)
    /\ image.heads # <<>> => ChainIn(idx, image.heads[1]) /\ ChainIn(idx, image.heads[2])

(* The block files are written before the block index ... *)
FilesFirst ==
    /\ \A b \in Blocks : disk_index[b] \subseteq files[b]
    /\ pc # "down" => \A b \in Blocks : disk_index[b] \subseteq index[b]
    /\ pc = "files" /\ ~unsynced => files = index
(* ... and the block index before the coins; what of it is not on the disk *)
(* is still to be written, or has been lost by a write that failed.        *)
IndexFirst ==
    /\ NamesIn(disk_index, db) /\ NamesIn(disk_index, stable)
    /\ pc # "down" => ChainIn(index, hashBlock)
    /\ pc # "down" =>
          \A b \in Blocks \ (dirty_index \cup unindexed) : index[b] \subseteq disk_index[b]
    /\ pc = "coins" => dirty_index = {}
    /\ pc = "replay" => ChainIn(disk_index, hashBlock)

RecoverInv == ControlOK /\ pc # "failed" /\ FilesFirst /\ IndexFirst

-----------------------------------------------------------------------------
(* ControlOK, which also a damaged database keeps.                         *)

(* Initially there is nothing. *)
LEMMA InitControl == Init => ControlOK
<1> SUFFICES ASSUME Init PROVE ControlOK
  OBVIOUS
<1>1. Unknown \in Contents /\ WithGenesis(Unknown) \in Contents
  BY DEF Unknown, WithGenesis, Contents
<1>2. MarkersOK(db) /\ MarkersOK(stable)
  BY DEF Init, MarkersOK, Markers, Hashes
<1>3. LostOK
  BY CoinsAssumption DEF Init, LostOK
<1> QED
  BY <1>1, <1>2, <1>3 DEF Init, ControlOK, Hashes

(* The steps of the running node. *)
LEMMA RunningControl ==
    ASSUME ControlOK, pc = "running", UNCHANGED <<pc, mode, disk_index, files, db, stable, lost>>,
           index' \in Contents, dirty_index' \subseteq Blocks, hashBlock' \in Hashes
    PROVE  ControlOK'
<1>1. UNCHANGED <<forgotten, unindexed, unsynced, damaged>>
  BY DEF lost
<1>2. LostOK'
  BY <1>1 DEF ControlOK, LostOK
<1> QED
  BY <1>2 DEF ControlOK, MarkersOK

(* The steps of a flush that do not touch the coins. *)
LEMMA FlushControl ==
    ASSUME ControlOK,
           \/ \E m \in {"flush", "sync", "stop"}, synced \in BOOLEAN : FlushBlockFiles(m, synced)
           \/ WriteBlockIndexDB \/ WriteBlockIndexFails
    PROVE  ControlOK'
<1>1. ASSUME NEW m \in {"flush", "sync", "stop"}, NEW synced \in BOOLEAN, FlushBlockFiles(m, synced)
      PROVE  ControlOK'
  <2>1. LostOK'
    BY <1>1 DEF FlushBlockFiles, ControlOK, LostOK
  <2> QED
    BY <1>1, <2>1 DEF FlushBlockFiles, FlushBlockFile, ControlOK, MarkersOK
<1>2. CASE WriteBlockIndexDB
  <2>1. disk_index' \in Contents
    BY <1>2 DEF WriteBlockIndexDB, ControlOK, Contents
  <2>2. LostOK'
    BY <1>2 DEF WriteBlockIndexDB, ControlOK, LostOK
  <2> QED
    BY <1>2, <2>1, <2>2 DEF WriteBlockIndexDB, ControlOK, MarkersOK
<1>3. CASE WriteBlockIndexFails
  <2>1. LostOK'
    BY <1>3 DEF WriteBlockIndexFails, ControlOK, LostOK
  <2> QED
    BY <1>3, <2>1 DEF WriteBlockIndexFails, ControlOK, MarkersOK
<1> QED
  BY <1>1, <1>2, <1>3

(* The blocks that the batches write into the database. *)
LEMMA BatchBlocks ==
    ASSUME ControlOK, pc \in {"coins", "replay"}
    PROVE  hashBlock \in Blocks /\ OldTip \in Hashes
<1>1. hashBlock \in Blocks /\ MarkersOK(db)
  BY DEF ControlOK, Hashes
<1>2. CASE db.best = Null /\ db.heads # <<>>
  <2>1. db.heads \in Blocks \X Hashes /\ OldTip = db.heads[2]
    BY <1>1, <1>2 DEF MarkersOK, Markers, OldTip
  <2> QED
    BY <1>1, <2>1
<1>3. CASE ~(db.best = Null /\ db.heads # <<>>)
  BY <1>1, <1>3 DEF OldTip, MarkersOK
<1> QED
  BY <1>2, <1>3

(* The steps that write coins. *)
LEMMA BatchControl ==
    ASSUME ControlOK, NEW batch \in SUBSET Dirty,
           WritePartialBatch(batch) \/ WriteFinalBatch \/ WriteFails(batch)
    PROVE  ControlOK'
<1>1. pc \in {"coins", "replay"}
  BY DEF WritePartialBatch, WriteFinalBatch, WriteFails
<1>2. hashBlock \in Blocks /\ OldTip \in Hashes
  BY <1>1, BatchBlocks
<1>3. MarkersOK(db') /\ MarkersOK(stable')
  <2>1. CASE WritePartialBatch(batch)
    <3>1. db'.best = Null /\ db'.heads = <<hashBlock, OldTip>> /\ stable' \in {stable, db'}
      BY <2>1 DEF WritePartialBatch
    <3>2. MarkersOK(db')
      BY <1>2, <3>1 DEF MarkersOK, Markers, Hashes
    <3> QED
      BY <3>1, <3>2 DEF ControlOK
  <2>2. CASE WriteFinalBatch
    <3>1. db'.best = hashBlock /\ db'.heads = <<>> /\ stable' \in {stable, db'}
      BY <2>2 DEF WriteFinalBatch
    <3>2. MarkersOK(db')
      BY <1>2, <3>1 DEF MarkersOK, Markers, Hashes
    <3> QED
      BY <3>1, <3>2 DEF ControlOK
  <2>3. CASE WriteFails(batch)
    BY <2>3 DEF WriteFails, ControlOK
  <2> QED
    BY <2>1, <2>2, <2>3
<1>4. LostOK'
  <2>1. batch \subseteq Outpoints
    BY DEF Dirty
  <2>2. CASE WritePartialBatch(batch)
    BY <2>2 DEF WritePartialBatch, ControlOK, LostOK
  <2>3. CASE WriteFinalBatch
    BY <2>3 DEF WriteFinalBatch, ControlOK, LostOK
  <2>4. CASE WriteFails(batch)
    BY <2>1, <2>4 DEF WriteFails, ControlOK, LostOK
  <2> QED
    BY <2>2, <2>3, <2>4
<1>5. /\ UNCHANGED <<index, disk_index, files, hashBlock>> /\ mode' \in {mode, "flush"}
      /\ pc' \in {pc, "down", "running", "aborting"}
  BY DEF WritePartialBatch, WriteFinalBatch, WriteFails
<1>6. MarkersOK(db)' /\ MarkersOK(stable)'
  BY <1>3 DEF MarkersOK
<1> QED
  BY <1>1, <1>2, <1>4, <1>5, <1>6, CoinsAssumption DEF ControlOK

(* The crash and the restart. *)
LEMMA CrashControl == ASSUME ControlOK, Crash \/ Restart PROVE ControlOK'
<1>1. CASE Crash
  <2>1. Unknown \in Contents
    BY DEF Unknown, Contents
  <2>2. LostOK'
    BY <1>1 DEF Crash, ControlOK, LostOK
  <2> QED
    BY <1>1, <2>1, <2>2 DEF Crash, ControlOK, MarkersOK, Hashes
<1>2. CASE Restart
  <2>1. index' \in Contents
    BY <1>2, CoinsAssumption DEF Restart, WithGenesis, ControlOK, Contents
  <2>2. DirtyGenesis(disk_index) \subseteq Blocks
    BY CoinsAssumption DEF DirtyGenesis
  <2>3. LostOK'
    BY <1>2, <2>2 DEF Restart, ControlOK, LostOK
  <2>4. MarkersOK(db)
    BY DEF ControlOK
  <2>5. db.heads # <<>> => db.heads[1] \in Blocks
    BY <2>4 DEF MarkersOK, Markers
  <2>6. hashBlock' \in Hashes /\ (pc' = "replay" => hashBlock' # Null)
    BY <1>2, <2>4, <2>5, CoinsAssumption DEF Restart, MarkersOK, Hashes
  <2>7. pc' \in {"replay", "failed", "running"} /\ UNCHANGED <<mode, disk_index, files, db, stable>>
    BY <1>2 DEF Restart
  <2> QED
    BY <2>1, <2>3, <2>6, <2>7 DEF ControlOK, MarkersOK
<1> QED
  BY <1>1, <1>2

(* Every step keeps ControlOK, and no step repairs the database. *)
LEMMA StepControl == ControlOK /\ [Next]_vars => ControlOK' /\ (damaged => damaged')
<1> SUFFICES ASSUME ControlOK, [Next]_vars PROVE ControlOK' /\ (damaged => damaged')
  OBVIOUS
<1>1. ASSUME NEW b \in Blocks, AcceptBlock(b) PROVE ControlOK' /\ (damaged => damaged')
  <2>1. index' \in Contents /\ dirty_index' \subseteq Blocks /\ hashBlock' \in Hashes
    BY <1>1 DEF AcceptBlock, ControlOK, LostOK, Contents
  <2>2. ControlOK'
    BY <1>1, <2>1, RunningControl DEF AcceptBlock
  <2> QED
    BY <1>1, <2>2 DEF AcceptBlock, lost
<1>2. ASSUME NEW b \in Blocks, ConnectTip(b) PROVE ControlOK' /\ (damaged => damaged')
  <2>1. index' \in Contents /\ dirty_index' \subseteq Blocks
    BY <1>2 DEF ConnectTip, WriteBlockUndo, ControlOK, LostOK, Contents
  <2>2. hashBlock' \in Hashes
    BY <1>2 DEF ConnectTip, Hashes
  <2>3. ControlOK'
    BY <1>2, <2>1, <2>2, RunningControl DEF ConnectTip
  <2> QED
    BY <1>2, <2>3 DEF ConnectTip, lost
<1>3. CASE DisconnectTip
  <2>1. hashBlock' \in Hashes
    BY <1>3, AncestorsOf DEF DisconnectTip, ControlOK, Hashes
  <2>2. index' \in Contents /\ dirty_index' \subseteq Blocks
    BY <1>3 DEF DisconnectTip, ControlOK, LostOK
  <2>3. ControlOK'
    BY <1>3, <2>1, <2>2, RunningControl DEF DisconnectTip
  <2> QED
    BY <1>3, <2>3 DEF DisconnectTip, lost
<1>4. ASSUME NEW o \in Outpoints, LookUp(o) \/ UncacheCoin(o) PROVE ControlOK' /\ (damaged => damaged')
  <2>1. pc = "running" /\ UNCHANGED <<pc, mode, index, dirty_index, disk_index, files, hashBlock, db, stable, lost>>
    BY <1>4 DEF LookUp, UncacheCoin
  <2>2. index' \in Contents /\ dirty_index' \subseteq Blocks /\ hashBlock' \in Hashes
    BY <2>1 DEF ControlOK, LostOK
  <2>3. ControlOK'
    BY <2>1, <2>2, RunningControl
  <2> QED
    BY <2>1, <2>3 DEF lost
<1>5. ASSUME NEW m \in {"flush", "sync", "stop"}, NEW synced \in BOOLEAN, FlushBlockFiles(m, synced)
      PROVE  ControlOK' /\ (damaged => damaged')
  BY <1>5, FlushControl DEF FlushBlockFiles
<1>6. CASE WriteBlockIndexDB
  BY <1>6, FlushControl DEF WriteBlockIndexDB
<1>7. CASE WriteBlockIndexFails
  BY <1>7, FlushControl DEF WriteBlockIndexFails
<1>8. ASSUME NEW batch \in SUBSET Dirty, WritePartialBatch(batch)
      PROVE  ControlOK' /\ (damaged => damaged')
  BY <1>8, BatchControl DEF WritePartialBatch
<1>9. ASSUME NEW batch \in SUBSET Dirty, WriteFails(batch)
      PROVE  ControlOK' /\ (damaged => damaged')
  BY <1>9, BatchControl DEF WriteFails
<1>10. CASE WriteFinalBatch
  <2>1. {} \in SUBSET Dirty
    OBVIOUS
  <2> QED
    BY <1>10, <2>1, BatchControl DEF WriteFinalBatch
<1>11. CASE Crash
  BY <1>11, CrashControl DEF Crash
<1>12. CASE Restart
  BY <1>12, CrashControl DEF Restart
<1>13. CASE UNCHANGED vars
  BY <1>13 DEF vars, lost, ControlOK, LostOK, MarkersOK
<1> QED
  BY <1>1, <1>2, <1>3, <1>4, <1>5, <1>6, <1>7, <1>8, <1>9, <1>10, <1>11, <1>12, <1>13 DEF Next

-----------------------------------------------------------------------------
(* The order of the writes.                                                *)

(* A block index that has more has the same chains. *)
LEMMA ChainInMore ==
    ASSUME NEW idx \in Contents, NEW more \in Contents,
           \A b \in Blocks : idx[b] \subseteq more[b],
           NEW b, ChainIn(idx, b)
    PROVE  ChainIn(more, b)
BY DEF ChainIn

(* ... and so do the blocks that a database names. *)
LEMMA NamesInMore ==
    ASSUME NEW idx \in Contents, NEW more \in Contents,
           \A b \in Blocks : idx[b] \subseteq more[b],
           NEW image, NamesIn(idx, image)
    PROVE  NamesIn(more, image)
BY ChainInMore DEF NamesIn

(* The chain of a block that extends another. *)
LEMMA ChainExtends ==
    ASSUME NEW idx \in Contents, NEW b \in Blocks, ChainIn(idx, Parent[b]),
           b # Genesis => {"DATA", "UNDO"} \subseteq idx[b] /\ Parent[b] # Null
    PROVE  ChainIn(idx, b)
<1>1. Ancestors[b] = {b} \cup Ancestors[Parent[b]]
  BY AncestorsOf
<1>2. CASE b = Genesis
  <2>1. Ancestors[b] = {Genesis}
    BY <1>1, <1>2, AncestorsOf, CoinsAssumption
  <2> QED
    BY <2>1, CoinsAssumption DEF ChainIn
<1>3. CASE b # Genesis
  BY <1>1, <1>3 DEF ChainIn
<1> QED
  BY <1>2, <1>3

(* The chain of a block without the block. *)
LEMMA ChainShortens ==
    ASSUME NEW idx \in Contents, NEW b \in Blocks, b # Genesis, ChainIn(idx, b)
    PROVE  ChainIn(idx, Parent[b])
<1>1. Ancestors[b] = {b} \cup Ancestors[Parent[b]] /\ b # Null
  BY AncestorsOf, CoinsAssumption
<1> QED
  BY <1>1 DEF ChainIn

(* Initially there is nothing. *)
LEMMA InitRecover == Init => RecoverInv
<1> SUFFICES ASSUME Init PROVE RecoverInv
  OBVIOUS
<1>1. ControlOK /\ pc = "running"
  BY InitControl DEF Init
<1>2. FilesFirst
  BY DEF Init, FilesFirst, Unknown
<1>3. IndexFirst
  <2>1. \A b \in Blocks \ {Genesis} : index[b] = {}
    BY CoinsAssumption DEF Init, Unknown, WithGenesis
  <2> QED
    BY <2>1 DEF Init, IndexFirst, NamesIn, ChainIn
<1> QED
  BY <1>1, <1>2, <1>3 DEF RecoverInv

(* A step of the running node that only adds to its block index. *)
LEMMA RunningRecover ==
    ASSUME RecoverInv, ControlOK', pc = "running",
           UNCHANGED <<pc, mode, disk_index, files, db, stable, lost>>,
           dirty_index \subseteq dirty_index',
           \A b \in Blocks : index[b] \subseteq index'[b],
           \A b \in Blocks \ dirty_index' : index'[b] = index[b],
           ChainIn(index', hashBlock')
    PROVE  RecoverInv'
<1>1. UNCHANGED <<unindexed, unsynced>>
  BY DEF lost
<1>2. FilesFirst'
  BY DEF RecoverInv, FilesFirst
<1>3. IndexFirst'
  BY <1>1 DEF RecoverInv, IndexFirst, NamesIn, ChainIn
<1> QED
  BY <1>2, <1>3 DEF RecoverInv

(* AcceptBlock *)
LEMMA AcceptRecover ==
    ASSUME RecoverInv, ControlOK', NEW b \in Blocks, AcceptBlock(b) PROVE RecoverInv'
<1>1. index \in Contents /\ index' \in Contents /\ ChainIn(index, hashBlock)
  BY DEF RecoverInv, ControlOK, IndexFirst, AcceptBlock
<1>2. /\ \A a \in Blocks : index[a] \subseteq index'[a]
      /\ \A a \in Blocks \ dirty_index' : index'[a] = index[a]
  BY <1>1 DEF AcceptBlock, Contents
<1>3. ChainIn(index', hashBlock)
  BY <1>1, <1>2, ChainInMore
<1> QED
  BY <1>2, <1>3, RunningRecover DEF AcceptBlock

(* ConnectTip: the undo data are there before the block is the best one. *)
LEMMA ConnectRecover ==
    ASSUME RecoverInv, ControlOK', NEW b \in Blocks, ConnectTip(b) PROVE RecoverInv'
<1>1. index \in Contents /\ index' \in Contents /\ ChainIn(index, Parent[b])
  BY DEF RecoverInv, ControlOK, IndexFirst, ConnectTip
<1>2. /\ \A a \in Blocks : index[a] \subseteq index'[a]
      /\ \A a \in Blocks \ dirty_index' : index'[a] = index[a]
      /\ dirty_index \subseteq dirty_index'
  BY <1>1 DEF ConnectTip, WriteBlockUndo, Contents
<1>3. b # Genesis => {"DATA", "UNDO"} \subseteq index'[b] /\ Parent[b] # Null
  BY <1>1, CoinsAssumption DEF ConnectTip, WriteBlockUndo, Contents
<1>4. ChainIn(index', b)
  BY <1>1, <1>2, <1>3, ChainInMore, ChainExtends
<1>5. hashBlock' = b
  BY DEF ConnectTip
<1> QED
  BY <1>2, <1>4, <1>5, RunningRecover DEF ConnectTip

(* DisconnectTip *)
LEMMA DisconnectRecover == ASSUME RecoverInv, ControlOK', DisconnectTip PROVE RecoverInv'
<1>1. /\ index \in Contents /\ hashBlock \in Blocks /\ hashBlock # Genesis
      /\ ChainIn(index, hashBlock)
  BY DEF RecoverInv, ControlOK, IndexFirst, DisconnectTip, Hashes
<1>2. ChainIn(index, Parent[hashBlock])
  BY <1>1, ChainShortens
<1> QED
  BY <1>1, <1>2, RunningRecover DEF DisconnectTip

(* A step that leaves everything alone but the cached coins. *)
LEMMA CacheRecover ==
    ASSUME RecoverInv, ControlOK',
           UNCHANGED <<pc, mode, index, dirty_index, disk_index, files, hashBlock, db, stable, lost>>
    PROVE  RecoverInv'
<1>1. UNCHANGED <<unindexed, unsynced>>
  BY DEF lost
<1> QED
  BY <1>1 DEF RecoverInv, FilesFirst, IndexFirst, NamesIn, ChainIn

(* FlushBlockFiles: if they are synced, the files have all that the index has. *)
LEMMA FilesRecover ==
    ASSUME RecoverInv, ControlOK', NEW m, NEW synced \in BOOLEAN, FlushBlockFiles(m, synced)
    PROVE  RecoverInv'
<1>1. /\ pc \notin {"down", "failed"} /\ pc' = "files"
      /\ files' = IF synced THEN index ELSE files
      /\ unsynced' = ~synced
      /\ UNCHANGED <<index, dirty_index, disk_index, hashBlock, db, stable, unindexed>>
  BY DEF FlushBlockFiles, FlushBlockFile
<1>2. FilesFirst'
  BY <1>1 DEF RecoverInv, FilesFirst
<1>3. IndexFirst'
  BY <1>1 DEF RecoverInv, IndexFirst, NamesIn, ChainIn
<1> QED
  BY <1>1, <1>2, <1>3 DEF RecoverInv

(* WriteBlockIndexDB: from now on the disk has all but what was lost before. *)
LEMMA IndexRecover == ASSUME RecoverInv, ControlOK', ~damaged', WriteBlockIndexDB PROVE RecoverInv'
<1>1. /\ pc = "files" /\ pc' \in {"coins", "down", "running"} /\ dirty_index' = {}
      /\ disk_index' = [b \in Blocks |-> IF b \in dirty_index THEN index[b] ELSE disk_index[b]]
      /\ dirty_index = {} \/ ~unsynced
      /\ UNCHANGED <<index, files, hashBlock, db, stable, unindexed>>
  BY DEF WriteBlockIndexDB, RecoverInv, ControlOK, LostOK
<1>2. /\ index \in Contents /\ disk_index \in Contents /\ files \in Contents /\ disk_index' \in Contents
      /\ \A b \in Blocks : disk_index[b] \subseteq index[b] /\ disk_index[b] \subseteq files[b]
      /\ ~unsynced => files = index
      /\ NamesIn(disk_index, db) /\ NamesIn(disk_index, stable)
      /\ ChainIn(index, hashBlock)
      /\ \A b \in Blocks \ (dirty_index \cup unindexed) : index[b] \subseteq disk_index[b]
  BY <1>1 DEF RecoverInv, ControlOK, FilesFirst, IndexFirst
<1>3. /\ \A b \in Blocks : disk_index[b] \subseteq disk_index'[b]
      /\ \A b \in Blocks : disk_index'[b] \subseteq index[b]
      /\ \A b \in Blocks : disk_index'[b] \subseteq files[b]
      /\ \A b \in Blocks \ unindexed : index[b] \subseteq disk_index'[b]
  BY <1>1, <1>2
<1>4. FilesFirst'
  BY <1>1, <1>3 DEF FilesFirst
<1>5. NamesIn(disk_index', db) /\ NamesIn(disk_index', stable)
  BY <1>2, <1>3, NamesInMore
<1>6. IndexFirst'
  BY <1>1, <1>2, <1>3, <1>5 DEF IndexFirst, NamesIn, ChainIn
<1> QED
  BY <1>1, <1>4, <1>6 DEF RecoverInv

(* WriteBlockIndexFails: what was to be written is lost instead. *)
LEMMA IndexFailsRecover == ASSUME RecoverInv, ControlOK', WriteBlockIndexFails PROVE RecoverInv'
<1>1. /\ pc = "files" /\ pc' = "aborting"
      /\ unindexed' = unindexed \cup dirty_index
      /\ UNCHANGED <<index, disk_index, files, hashBlock, db, stable>>
  BY DEF WriteBlockIndexFails
<1>2. FilesFirst'
  BY <1>1 DEF RecoverInv, FilesFirst
<1>3. IndexFirst'
  BY <1>1 DEF RecoverInv, IndexFirst, NamesIn, ChainIn
<1> QED
  BY <1>1, <1>2, <1>3 DEF RecoverInv

(* A step in the writing of the coins: the database and what a crash       *)
(* leaves of it name blocks whose chains are on the disk.                  *)
LEMMA BatchRecover ==
    ASSUME RecoverInv, ControlOK', pc \in {"coins", "replay"},
           UNCHANGED <<index, dirty_index, disk_index, files, hashBlock, unindexed>>,
           pc' = pc \/ pc' \in {"running", "down", "aborting"},
           NamesIn(disk_index, db'), stable' \in {stable, db'}
    PROVE  RecoverInv'
<1>1. NamesIn(disk_index, stable) /\ ChainIn(index, hashBlock)
  BY DEF RecoverInv, IndexFirst
<1>2. NamesIn(disk_index, stable')
  BY <1>1
<1>3. FilesFirst'
  BY DEF RecoverInv, FilesFirst
<1>4. IndexFirst'
  BY <1>1, <1>2 DEF RecoverInv, IndexFirst, NamesIn, ChainIn
<1> QED
  BY <1>3, <1>4 DEF RecoverInv

(* The chains of the blocks that the batches write into the database: the  *)
(* disk has them, unless an entry of the new one was lost.                 *)
LEMMA BatchChains ==
    ASSUME RecoverInv, pc \in {"coins", "replay"}, ~NotIndexed
    PROVE  ChainIn(disk_index, hashBlock) /\ ChainIn(disk_index, OldTip)
<1>1. ChainIn(disk_index, hashBlock)
  <2>1. CASE pc = "coins"
    <3>1. /\ ChainIn(index, hashBlock)
          /\ \A b \in Blocks \ unindexed : index[b] \subseteq disk_index[b]
      BY <2>1 DEF RecoverInv, IndexFirst
    <3> QED
      BY <3>1 DEF ChainIn, NotIndexed
  <2>2. CASE pc = "replay"
    BY <2>2 DEF RecoverInv, IndexFirst
  <2> QED
    BY <2>1, <2>2
<1>2. NamesIn(disk_index, db)
  BY DEF RecoverInv, IndexFirst
<1> QED
  BY <1>1, <1>2 DEF OldTip, NamesIn

(* WritePartialBatch *)
LEMMA PartialRecover ==
    ASSUME RecoverInv, ControlOK', ~damaged', NEW batch, WritePartialBatch(batch) PROVE RecoverInv'
<1>1. pc \in {"coins", "replay"} /\ ~NotIndexed
  BY DEF WritePartialBatch, RecoverInv, ControlOK, LostOK
<1>2. ChainIn(disk_index, hashBlock) /\ ChainIn(disk_index, OldTip)
  BY <1>1, BatchChains
<1>3. db'.best = Null /\ db'.heads = <<hashBlock, OldTip>>
  BY DEF WritePartialBatch
<1>4. NamesIn(disk_index, db')
  BY <1>2, <1>3 DEF NamesIn, ChainIn
<1>5. /\ UNCHANGED <<index, dirty_index, disk_index, files, hashBlock, unindexed>> /\ pc' = pc
      /\ stable' \in {stable, db'}
  BY DEF WritePartialBatch
<1> QED
  BY <1>1, <1>4, <1>5, BatchRecover

(* WriteFinalBatch *)
LEMMA FinalRecover == ASSUME RecoverInv, ControlOK', ~damaged', WriteFinalBatch PROVE RecoverInv'
<1>1. pc \in {"coins", "replay"} /\ ~NotIndexed
  BY DEF WriteFinalBatch, RecoverInv, ControlOK, LostOK
<1>2. ChainIn(disk_index, hashBlock)
  BY <1>1, BatchChains
<1>3. db'.best = hashBlock /\ db'.heads = <<>>
  BY DEF WriteFinalBatch
<1>4. NamesIn(disk_index, db')
  BY <1>2, <1>3 DEF NamesIn
<1>5. /\ UNCHANGED <<index, dirty_index, disk_index, files, hashBlock, unindexed>>
      /\ pc' \in {"running", "down"} /\ stable' \in {stable, db'}
  BY DEF WriteFinalBatch
<1> QED
  BY <1>1, <1>4, <1>5, BatchRecover

(* WriteFails *)
LEMMA FailsRecover == ASSUME RecoverInv, ControlOK', NEW batch, WriteFails(batch) PROVE RecoverInv'
<1>1. /\ pc \in {"coins", "replay"} /\ pc' = "aborting"
      /\ UNCHANGED <<index, dirty_index, disk_index, files, hashBlock, unindexed, db, stable>>
  BY DEF WriteFails
<1>2. NamesIn(disk_index, db)
  BY DEF RecoverInv, IndexFirst
<1> QED
  BY <1>1, <1>2, BatchRecover

(* Crash: what is left is the disk. *)
LEMMA CrashRecover == ASSUME RecoverInv, ControlOK', Crash PROVE RecoverInv'
<1>1. pc' = "down" /\ db' = stable /\ UNCHANGED <<disk_index, files, stable>>
  BY DEF Crash
<1>2. FilesFirst'
  BY <1>1 DEF RecoverInv, FilesFirst
<1>3. IndexFirst'
  BY <1>1 DEF RecoverInv, IndexFirst, NamesIn, ChainIn
<1> QED
  BY <1>1, <1>2, <1>3 DEF RecoverInv

(* LoadGenesisBlock only adds to the block index. *)
LEMMA WithGenesisAdds ==
    ASSUME NEW idx \in Contents
    PROVE  /\ WithGenesis(idx) \in Contents /\ WithGenesis(idx)[Genesis] # {}
           /\ \A b \in Blocks : idx[b] \subseteq WithGenesis(idx)[b]
           /\ \A b \in Blocks \ DirtyGenesis(idx) : WithGenesis(idx)[b] \subseteq idx[b]
           /\ \A b \in Blocks : ChainIn(idx, b) => WithGenesis(idx)[b] # {}
<1>1. /\ WithGenesis(idx) \in Contents /\ WithGenesis(idx)[Genesis] # {}
      /\ \A b \in Blocks : idx[b] \subseteq WithGenesis(idx)[b]
      /\ \A b \in Blocks \ DirtyGenesis(idx) : WithGenesis(idx)[b] \subseteq idx[b]
  BY CoinsAssumption DEF WithGenesis, DirtyGenesis, Contents
<1>2. ASSUME NEW b \in Blocks, ChainIn(idx, b), b # Genesis PROVE idx[b] # {}
  <2>1. b \in Ancestors[b] /\ b # Null
    BY AncestorsOf, CoinsAssumption
  <2> QED
    BY <1>2, <2>1 DEF ChainIn
<1> QED
  BY <1>1, <1>2

(* Restart: LoadChainTip or ReplayBlocks finds every block it asks for. *)
LEMMA RestartRecover == ASSUME RecoverInv, ControlOK', Restart PROVE RecoverInv'
<1> DEFINE idx == WithGenesis(disk_index)
<1>1. /\ pc = "down" /\ index' = idx /\ dirty_index' = DirtyGenesis(disk_index) /\ unindexed' = {}
      /\ UNCHANGED <<mode, disk_index, files, db, stable>>
  BY DEF Restart
<1>2. /\ disk_index \in Contents /\ files \in Contents
      /\ \A b \in Blocks : disk_index[b] \subseteq files[b]
      /\ MarkersOK(db) /\ NamesIn(disk_index, db)
  BY DEF RecoverInv, ControlOK, FilesFirst, IndexFirst
<1>3. /\ idx \in Contents /\ idx[Genesis] # {}
      /\ \A b \in Blocks : disk_index[b] \subseteq idx[b]
      /\ \A b \in Blocks \ DirtyGenesis(disk_index) : idx[b] \subseteq disk_index[b]
      /\ \A b \in Blocks : ChainIn(disk_index, b) => idx[b] # {}
  BY <1>2, WithGenesisAdds
<1> HIDE DEF idx
<1>4. CASE db.heads # <<>>
  <2> DEFINE new == db.heads[1]
             old == db.heads[2]
  <2>1. /\ new \in Blocks /\ old \in Hashes /\ new # Null
        /\ ChainIn(disk_index, new) /\ ChainIn(disk_index, old)
    BY <1>2, <1>4, CoinsAssumption DEF MarkersOK, Markers, NamesIn
  <2> HIDE DEF new, old
  <2>2. CanReplay(idx, new, old)
    <3>1. idx[new] # {} /\ (old = Null \/ idx[old] # {})
      BY <1>3, <2>1 DEF Hashes
    <3>2. ASSUME NEW b \in Ancestors[old] \ Ancestors[new]
          PROVE  {"DATA", "UNDO"} \subseteq idx[b] \cap files[b]
      <4>1. old # Null
        BY <3>2, AncestorsOf
      <4>2. b \in Blocks /\ {"DATA", "UNDO"} \subseteq disk_index[b]
        BY <2>1, <3>2, <4>1 DEF ChainIn
      <4> QED
        BY <1>2, <1>3, <4>2
    <3>3. ASSUME NEW b \in Ancestors[new] \ (Ancestors[old] \cup {Genesis})
          PROVE  "DATA" \in idx[b] \cap files[b]
      <4>1. b \in Blocks /\ {"DATA", "UNDO"} \subseteq disk_index[b]
        BY <2>1, <3>3 DEF ChainIn
      <4> QED
        BY <1>2, <1>3, <4>1
    <3> QED
      BY <3>1, <3>2, <3>3 DEF CanReplay
  <2>3. pc' = "replay" /\ hashBlock' = new
    BY <1>4, <2>2 DEF Restart, idx, new, old
  <2>4. ChainIn(idx, new)
    BY <1>2, <1>3, <2>1, ChainInMore
  <2>5. FilesFirst'
    BY <1>1, <1>2, <1>3, <2>3 DEF FilesFirst
  <2>6. IndexFirst'
    BY <1>1, <1>3, <2>1, <2>3, <2>4 DEF RecoverInv, IndexFirst, NamesIn, ChainIn
  <2> QED
    BY <2>3, <2>5, <2>6 DEF RecoverInv
<1>5. CASE db.heads = <<>>
  <2>1. db.best \in Hashes /\ ChainIn(disk_index, db.best)
    BY <1>2 DEF MarkersOK, NamesIn
  <2>2. db.best # Null => idx[db.best] # {}
    BY <1>3, <2>1 DEF Hashes
  <2>3. pc' = "running" /\ hashBlock' = db.best
    BY <1>5, <2>2 DEF Restart, idx
  <2>4. ChainIn(idx, db.best)
    BY <1>2, <1>3, <2>1, ChainInMore
  <2>5. FilesFirst'
    BY <1>1, <1>2, <1>3, <2>3 DEF FilesFirst
  <2>6. IndexFirst'
    BY <1>1, <1>3, <2>1, <2>3, <2>4 DEF RecoverInv, IndexFirst, NamesIn, ChainIn
  <2> QED
    BY <2>3, <2>5, <2>6 DEF RecoverInv
<1> QED
  BY <1>4, <1>5

(* Every step keeps RecoverInv, unless it damages the database. *)
LEMMA StepRecover == RecoverInv /\ ~damaged' /\ [Next]_vars => RecoverInv'
<1> SUFFICES ASSUME RecoverInv, ~damaged', [Next]_vars PROVE RecoverInv'
  OBVIOUS
<1>0. ControlOK'
  BY StepControl DEF RecoverInv
<1>1. ASSUME NEW b \in Blocks, AcceptBlock(b) \/ ConnectTip(b) PROVE RecoverInv'
  BY <1>0, <1>1, AcceptRecover, ConnectRecover
<1>2. CASE DisconnectTip
  BY <1>0, <1>2, DisconnectRecover
<1>3. ASSUME NEW o \in Outpoints, LookUp(o) \/ UncacheCoin(o) PROVE RecoverInv'
  BY <1>0, <1>3, CacheRecover DEF LookUp, UncacheCoin
<1>4. ASSUME NEW m \in {"flush", "sync", "stop"}, NEW synced \in BOOLEAN, FlushBlockFiles(m, synced)
      PROVE  RecoverInv'
  BY <1>0, <1>4, FilesRecover
<1>5. CASE WriteBlockIndexDB
  BY <1>0, <1>5, IndexRecover
<1>6. CASE WriteBlockIndexFails
  BY <1>0, <1>6, IndexFailsRecover
<1>7. ASSUME NEW batch \in SUBSET Dirty, WritePartialBatch(batch) \/ WriteFails(batch)
      PROVE  RecoverInv'
  BY <1>0, <1>7, PartialRecover, FailsRecover
<1>8. CASE WriteFinalBatch
  BY <1>0, <1>8, FinalRecover
<1>9. CASE Crash \/ Restart
  BY <1>0, <1>9, CrashRecover, RestartRecover
<1>10. CASE UNCHANGED vars
  BY <1>0, <1>10, CacheRecover DEF vars
<1> QED
  BY <1>1, <1>2, <1>3, <1>4, <1>5, <1>6, <1>7, <1>8, <1>9, <1>10 DEF Next

(* The inductive invariant of the restart: through failed writes of the    *)
(* files, of the block index and of the coins, and through crashes, the    *)
(* blocks that the database names are on the disk with their chains, until *)
(* a write has relied on one that failed.                                  *)
THEOREM RecoverInvariant == Spec => [](ControlOK /\ (~damaged => RecoverInv))
<1>1. Init => ControlOK /\ (~damaged => RecoverInv)
  BY InitControl, InitRecover
<1>2. ControlOK /\ (~damaged => RecoverInv) /\ [Next]_vars => (ControlOK /\ (~damaged => RecoverInv))'
  BY StepControl, StepRecover
<1> QED
  BY <1>1, <1>2, PTL DEF Spec

(* Wherever the node is stopped, ReplayBlocks and LoadChainTip find in the *)
(* block index what the database refers to, and in the files what the      *)
(* index refers to: the node does not refuse to start, unless Shutdown has *)
(* written coins or index entries that rely on a write that failed.        *)
THEOREM FlushRecoverable == Spec => []Recoverable
<1>1. ControlOK /\ (~damaged => RecoverInv) => Recoverable
  BY DEF RecoverInv, FilesFirst, Recoverable
<1> QED
  BY RecoverInvariant, <1>1, PTL

-----------------------------------------------------------------------------
(* The coins.  First what recursive definitions and folds compute.         *)

(* A set of natural numbers has a least element. *)
LEMMA LeastNatural ==
    ASSUME NEW T, T \subseteq Nat, T # {}
    PROVE  \E m \in T : \A k \in T : m <= k
<1>1. PICK m \in T : \A k \in T : <<k, m>> \notin OpToRel(<, Nat)
  BY WFMin, NatLessThanWellFounded
<1>2. \A k \in T : ~(k < m)
  BY <1>1 DEF OpToRel
<1> QED
  BY <1>2

(* Induction, for a set of natural numbers. *)
LEMMA InductiveSet ==
    ASSUME NEW T, 0 \in T, \A n \in Nat \ {0} : n - 1 \in T => n \in T
    PROVE  \A n \in Nat : n \in T
<1> SUFFICES ASSUME NEW n \in Nat, n \notin T PROVE FALSE
  OBVIOUS
<1> DEFINE M == Nat \ T
<1>1. M \subseteq Nat /\ M # {}
  OBVIOUS
<1> HIDE DEF M
<1>2. PICK m \in M : \A k \in M : m <= k
  BY <1>1, LeastNatural
<1>3. m \in Nat /\ m \notin T /\ m # 0
  BY <1>2 DEF M
<1>4. m - 1 \in Nat /\ ~(m <= m - 1)
  BY <1>3
<1>5. m - 1 \in T
  BY <1>2, <1>4 DEF M
<1> QED
  BY <1>3, <1>5

(* A set of numbers up to n has a largest one. *)
LEMMA LargestNatural ==
    ASSUME NEW n \in Nat, NEW T, T \subseteq 0..n, T # {}
    PROVE  \E m \in T : \A k \in T : k <= m
<1> DEFINE M == {n - k : k \in T}
<1>0. \A k \in T : k \in 0..n /\ n - k \in Nat
  OBVIOUS
<1>1. M \subseteq Nat /\ M # {}
  <2>1. PICK k : k \in T
    OBVIOUS
  <2>2. n - k \in M
    BY <2>1
  <2> QED
    BY <1>0, <2>2
<1>2. \A k \in T : k \in 0..n /\ n - k \in M
  OBVIOUS
<1>3. \A j \in M : \E k \in T : j = n - k
  OBVIOUS
<1> HIDE DEF M
<1>4. PICK j \in M : \A i \in M : j <= i
  BY <1>1, LeastNatural
<1>5. PICK m \in T : j = n - m
  BY <1>3
<1>6. ASSUME NEW k \in T PROVE k <= m
  <2>1. n - m <= n - k /\ k \in Nat /\ m \in Nat
    BY <1>2, <1>4, <1>5
  <2> QED
    BY <2>1
<1> QED
  BY <1>6

(* Induction along the chain, for a set of blocks. *)
LEMMA ChainInduction ==
    ASSUME NEW T, \A b \in Blocks : Parent[b] \in T \cup {Null} => b \in T
    PROVE  Blocks \subseteq T
<1> DEFINE S == Blocks \ T
<1>1. SUFFICES ASSUME S # {} PROVE FALSE
  OBVIOUS
<1>2. S \in SUBSET Blocks
  OBVIOUS
<1> HIDE DEF S
<1>3. PICK b \in S : Parent[b] \notin S
  BY <1>1, <1>2, CoinsAssumption
<1>4. b \in Blocks /\ b \notin T /\ Parent[b] \in Blocks \cup {Null}
  BY <1>3, CoinsAssumption DEF S
<1>5. Parent[b] \in T \cup {Null}
  BY <1>3, <1>4 DEF S
<1> QED
  BY <1>4, <1>5

(* A recursion along the chain: v0 for no block, and for a block what F    *)
(* makes of the block and of the value for its parent.                     *)
Generated(R, v0, F) ==
    /\ <<Null, v0>> \in R
    /\ \A b \in Blocks : \A v : <<Parent[b], v>> \in R => <<b, F[<<b, v>>]>> \in R
ChainSolves(f, v0, F) ==
    f[Null] = v0 /\ \A b \in Blocks : f[b] = F[<<b, f[Parent[b]]>>]

(* It has a solution. *)
LEMMA ChainRecursion ==
    ASSUME NEW V, NEW v0 \in V, NEW F \in [Blocks \X V -> V]
    PROVE  \E f \in [Hashes -> V] : ChainSolves(f, v0, F)
<1> DEFINE All == Hashes \X V
           R   == {p \in All : \A Q \in SUBSET All : Generated(Q, v0, F) => p \in Q}
           One == {b \in Hashes : \E v \in V : <<b, v>> \in R /\ \A w : <<b, w>> \in R => w = v}
<1>0. /\ Null \in Hashes /\ Null \notin Blocks
      /\ \A b \in Blocks : b \in Hashes /\ Parent[b] \in Hashes
  BY CoinsAssumption DEF Hashes
<1>1. R \in SUBSET All
  OBVIOUS
<1>2. Generated(R, v0, F)
  <2>1. <<Null, v0>> \in R
    BY <1>0 DEF Generated
  <2>2. ASSUME NEW b \in Blocks, NEW v, <<Parent[b], v>> \in R PROVE <<b, F[<<b, v>>]>> \in R
    <3>1. v \in V
      BY <2>2
    <3>2. <<b, F[<<b, v>>]>> \in All
      BY <1>0, <3>1
    <3>3. ASSUME NEW Q \in SUBSET All, Generated(Q, v0, F) PROVE <<b, F[<<b, v>>]>> \in Q
      BY <2>2, <3>3 DEF Generated
    <3> QED
      BY <3>2, <3>3
  <2> QED
    BY <2>1, <2>2 DEF Generated
<1>3. ASSUME NEW Q \in SUBSET All, Generated(Q, v0, F) PROVE R \subseteq Q
  BY <1>3
<1> HIDE DEF R
<1>4. Null \in One
  <2> DEFINE Q == R \ {p \in All : p[1] = Null /\ p[2] # v0}
  <2>1. Q \in SUBSET All
    BY <1>1
  <2>2. Generated(Q, v0, F)
    <3>1. <<Null, v0>> \in Q
      BY <1>2 DEF Generated
    <3>2. ASSUME NEW b \in Blocks, NEW v, <<Parent[b], v>> \in Q PROVE <<b, F[<<b, v>>]>> \in Q
      BY <1>0, <1>2, <3>2 DEF Generated
    <3> HIDE DEF Q
    <3> QED
      BY <3>1, <3>2 DEF Generated
  <2>3. R \subseteq Q
    BY <1>3, <2>1, <2>2
  <2>4. ASSUME NEW w, <<Null, w>> \in R PROVE w = v0
    BY <1>1, <2>3, <2>4
  <2>5. <<Null, v0>> \in R
    BY <1>2 DEF Generated
  <2> QED
    BY <1>0, <2>4, <2>5
<1>5. ASSUME NEW b \in Blocks, Parent[b] \in One PROVE b \in One
  <2>1. PICK v \in V : <<Parent[b], v>> \in R /\ \A w : <<Parent[b], w>> \in R => w = v
    BY <1>5
  <2> DEFINE x == F[<<b, v>>]
             Q == R \ {p \in All : p[1] = b /\ p[2] # x}
  <2>2. x \in V /\ <<b, x>> \in R
    BY <1>2, <2>1 DEF Generated
  <2>3. Q \in SUBSET All
    BY <1>1
  <2>4. Generated(Q, v0, F)
    <3>1. <<Null, v0>> \in Q
      BY <1>0, <1>2 DEF Generated
    <3>2. ASSUME NEW c \in Blocks, NEW w, <<Parent[c], w>> \in Q PROVE <<c, F[<<c, w>>]>> \in Q
      <4>1. <<Parent[c], w>> \in R
        BY <3>2
      <4>2. <<c, F[<<c, w>>]>> \in R
        BY <1>2, <4>1 DEF Generated
      <4>3. c = b => F[<<c, w>>] = x
        BY <2>1, <4>1
      <4> HIDE DEF x
      <4> QED
        BY <4>2, <4>3
    <3> HIDE DEF Q
    <3> QED
      BY <3>1, <3>2 DEF Generated
  <2>5. R \subseteq Q
    BY <1>3, <2>3, <2>4
  <2> HIDE DEF x
  <2>6. ASSUME NEW w, <<b, w>> \in R PROVE w = x
    BY <1>1, <2>5, <2>6
  <2> QED
    BY <1>0, <2>2, <2>6
<1>6. Hashes \subseteq One
  <2> HIDE DEF One
  <2>1. Blocks \subseteq One
    <3>1. \A b \in Blocks : Parent[b] \in One \cup {Null} => b \in One
      BY <1>4, <1>5
    <3> QED
      BY <3>1, ChainInduction
  <2> QED
    BY <1>4, <2>1 DEF Hashes
<1> DEFINE f == [b \in Hashes |-> CHOOSE v \in V : <<b, v>> \in R]
<1>7. \A b \in Hashes : f[b] \in V /\ <<b, f[b]>> \in R /\ \A w : <<b, w>> \in R => w = f[b]
  BY <1>6
<1>8. f \in [Hashes -> V]
  BY <1>7
<1> HIDE DEF f, One
<1>9. f[Null] = v0
  BY <1>0, <1>2, <1>7 DEF Generated
<1>10. ASSUME NEW b \in Blocks PROVE f[b] = F[<<b, f[Parent[b]]>>]
  BY <1>0, <1>2, <1>7 DEF Generated
<1> QED
  BY <1>8, <1>9, <1>10 DEF ChainSolves

HeightSolves(f) == f = [b \in Hashes |-> IF b \in {Null, Genesis} THEN 0 ELSE f[Parent[b]] + 1]

(* The height of a block. *)
LEMMA Heights ==
    /\ Height[Null] = 0 /\ Height[Genesis] = 0
    /\ \A b \in Hashes : Height[b] \in Nat
    /\ \A b \in Blocks \ {Genesis} : Parent[b] \in Blocks /\ Height[b] = Height[Parent[b]] + 1
<1> DEFINE F == [x \in Blocks \X Nat |-> IF x[1] = Genesis THEN 0 ELSE x[2] + 1]
<1>0. /\ Genesis \in Blocks /\ Null \in Hashes /\ Null \notin Blocks
      /\ \A b \in Blocks : b \in Hashes /\ Parent[b] \in Hashes
      /\ \A b \in Blocks \ {Genesis} : Parent[b] \in Blocks
      /\ \A b \in Hashes : b \notin {Null, Genesis} => b \in Blocks \ {Genesis}
  BY CoinsAssumption DEF Hashes
<1>1. F \in [Blocks \X Nat -> Nat]
  OBVIOUS
<1>2. PICK f \in [Hashes -> Nat] : ChainSolves(f, 0, F)
  <2> HIDE DEF F
  <2> QED
    BY <1>1, ChainRecursion
<1>3. HeightSolves(f)
  <2>1. f[Null] = 0
    BY <1>2 DEF ChainSolves
  <2>2. ASSUME NEW b \in Blocks PROVE f[b] = IF b = Genesis THEN 0 ELSE f[Parent[b]] + 1
    <3>1. f[b] = F[<<b, f[Parent[b]]>>]
      BY <1>2 DEF ChainSolves
    <3>2. f[Parent[b]] \in Nat
      BY <1>0
    <3> QED
      BY <3>1, <3>2
  <2>3. f = [b \in Hashes |-> f[b]]
    OBVIOUS
  <2>4. \A b \in Hashes : f[b] = IF b \in {Null, Genesis} THEN 0 ELSE f[Parent[b]] + 1
    BY <1>0, <2>1, <2>2
  <2> QED
    BY <2>3, <2>4 DEF HeightSolves
<1>4. Height = CHOOSE g : HeightSolves(g)
  BY DEF Height, HeightSolves, Hashes
<1>5. HeightSolves(Height)
  BY <1>3, <1>4
<1>6. Height[Null] = 0 /\ Height[Genesis] = 0
  BY <1>0, <1>5 DEF HeightSolves
<1>7. \A b \in Blocks \ {Genesis} : Parent[b] \in Blocks /\ Height[b] = Height[Parent[b]] + 1
  BY <1>0, <1>5 DEF HeightSolves
<1> DEFINE T == {b \in Blocks : Height[b] \in Nat}
<1>8. ASSUME NEW b \in Blocks, Parent[b] \in T \cup {Null} PROVE b \in T
  BY <1>6, <1>7, <1>8
<1> HIDE DEF T
<1>9. Blocks \subseteq T
  BY <1>8, ChainInduction
<1>10. \A b \in Hashes : Height[b] \in Nat
  BY <1>6, <1>9 DEF T, Hashes
<1> QED
  BY <1>6, <1>7, <1>10

(* The blocks of a branch: one at each height up to its last block. *)
BranchTo(b) ==
    /\ Ancestors[b] \subseteq Blocks /\ Genesis \in Ancestors[b] /\ b \in Ancestors[b]
    /\ \A a \in Ancestors[b] : Height[a] <= Height[b]
    /\ \A a \in Ancestors[b] \ {Genesis} : Parent[a] \in Ancestors[b]
    /\ \A a, c \in Ancestors[b] : Height[a] = Height[c] => a = c
    /\ \A h \in 0..Height[b] : \E a \in Ancestors[b] : Height[a] = h

(* Every block has such a branch. *)
LEMMA Branches == \A b \in Blocks : BranchTo(b)
<1> DEFINE T == {b \in Blocks : BranchTo(b)}
<1>0. /\ Genesis \in Blocks /\ Null \notin Blocks /\ Parent[Genesis] = Null
      /\ \A b \in Blocks : Height[b] \in Nat
  BY CoinsAssumption, Heights DEF Hashes
<1>1. BranchTo(Genesis)
  <2>1. Ancestors[Genesis] = {Genesis}
    BY <1>0, AncestorsOf
  <2>2. Height[Genesis] = 0
    BY Heights
  <2> QED
    BY <1>0, <2>1, <2>2 DEF BranchTo
<1>2. ASSUME NEW b \in Blocks, b # Genesis, BranchTo(Parent[b]) PROVE BranchTo(b)
  <2> DEFINE p == Parent[b]
  <2>1. p \in Blocks /\ Height[b] = Height[p] + 1 /\ Height[p] \in Nat
    BY <1>0, <1>2, Heights
  <2>2. Ancestors[b] = {b} \cup Ancestors[p]
    BY AncestorsOf
  <2>3. /\ Ancestors[p] \subseteq Blocks /\ Genesis \in Ancestors[p] /\ p \in Ancestors[p]
        /\ \A a \in Ancestors[p] : Height[a] <= Height[p]
        /\ \A a \in Ancestors[p] \ {Genesis} : Parent[a] \in Ancestors[p]
        /\ \A a, c \in Ancestors[p] : Height[a] = Height[c] => a = c
        /\ \A h \in 0..Height[p] : \E a \in Ancestors[p] : Height[a] = h
    BY <1>2 DEF BranchTo
  <2> HIDE DEF p
  <2>4. \A a \in Ancestors[p] : Height[a] \in Nat /\ Height[a] < Height[b]
    BY <1>0, <2>1, <2>3
  <2>5. \A a \in Ancestors[b] : Height[a] <= Height[b]
    BY <1>0, <2>2, <2>4
  <2>6. \A a \in Ancestors[b] \ {Genesis} : Parent[a] \in Ancestors[b]
    BY <2>2, <2>3 DEF p
  <2>7. \A a, c \in Ancestors[b] : Height[a] = Height[c] => a = c
    BY <1>0, <2>2, <2>3, <2>4
  <2>8. ASSUME NEW h \in 0..Height[b] PROVE \E a \in Ancestors[b] : Height[a] = h
    <3>1. CASE h = Height[b]
      BY <2>2, <3>1
    <3>2. CASE h # Height[b]
      <4>1. h \in 0..Height[p]
        BY <2>1, <3>2
      <4> QED
        BY <2>2, <2>3, <4>1
    <3> QED
      BY <3>1, <3>2
  <2> QED
    BY <2>2, <2>3, <2>5, <2>6, <2>7, <2>8 DEF BranchTo
<1>3. ASSUME NEW b \in Blocks, Parent[b] \in T \cup {Null} PROVE b \in T
  <2>1. CASE b = Genesis
    BY <1>0, <1>1, <2>1
  <2>2. CASE b # Genesis
    <3>1. Parent[b] \in Blocks /\ Parent[b] # Null
      BY <1>0, <2>2, Heights
    <3> QED
      BY <1>2, <1>3, <2>2, <3>1
  <2> QED
    BY <2>1, <2>2
<1> HIDE DEF T
<1>4. Blocks \subseteq T
  BY <1>3, ChainInduction
<1> QED
  BY <1>4 DEF T

(* GetAncestor walks along pprev. *)
LEMMA AncestorAt ==
    ASSUME NEW b \in Blocks, NEW h \in 0..Height[b]
    PROVE  /\ GetAncestor(b, h) \in Ancestors[b] /\ GetAncestor(b, h) \in Blocks
           /\ Height[GetAncestor(b, h)] = h
           /\ \A a \in Ancestors[b] : Height[a] = h => a = GetAncestor(b, h)
           /\ h # 0 => /\ GetAncestor(b, h) # Genesis
                       /\ Parent[GetAncestor(b, h)] = GetAncestor(b, h - 1)
<1>0. BranchTo(b) /\ Height[b] \in Nat
  BY Branches, Heights DEF Hashes
<1>1. ASSUME NEW k \in 0..Height[b]
      PROVE  /\ GetAncestor(b, k) \in Ancestors[b] /\ GetAncestor(b, k) \in Blocks
             /\ Height[GetAncestor(b, k)] = k
             /\ \A a \in Ancestors[b] : Height[a] = k => a = GetAncestor(b, k)
  <2>1. \E a \in Ancestors[b] : Height[a] = k
    BY <1>0 DEF BranchTo
  <2>2. GetAncestor(b, k) \in Ancestors[b] /\ Height[GetAncestor(b, k)] = k
    BY <2>1 DEF GetAncestor
  <2> QED
    BY <1>0, <2>2 DEF BranchTo
<1>2. ASSUME h # 0
      PROVE  /\ GetAncestor(b, h) # Genesis
             /\ Parent[GetAncestor(b, h)] = GetAncestor(b, h - 1)
  <2> DEFINE a == GetAncestor(b, h)
  <2>1. a \in Ancestors[b] /\ a \in Blocks /\ Height[a] = h
    BY <1>1
  <2> HIDE DEF a
  <2>2. a # Genesis
    BY <1>2, <2>1, Heights
  <2>3. Parent[a] \in Ancestors[b] /\ Parent[a] \in Blocks /\ h = Height[Parent[a]] + 1
    BY <1>0, <2>1, <2>2, Heights DEF BranchTo
  <2>4. Height[Parent[a]] \in Nat
    BY <2>3, Heights DEF Hashes
  <2>5. Height[Parent[a]] = h - 1 /\ h - 1 \in 0..Height[b]
    BY <1>0, <1>2, <2>3, <2>4
  <2> QED
    BY <1>1, <2>2, <2>3, <2>5 DEF a
<1> QED
  BY <1>1, <1>2

(* LastCommonAncestor is on both branches, at one height. *)
LEMMA Forks ==
    ASSUME NEW a \in Blocks, NEW b \in Blocks, NEW h, h = Height[LastCommonAncestor(a, b)]
    PROVE  h \in 0..Height[a] /\ h \in 0..Height[b] /\ GetAncestor(a, h) = GetAncestor(b, h)
<1> DEFINE common == Ancestors[a] \cap Ancestors[b]
           T == {Height[d] : d \in common}
           c == LastCommonAncestor(a, b)
<1>0. /\ BranchTo(a) /\ BranchTo(b) /\ Height[a] \in Nat /\ Height[b] \in Nat
      /\ \A d \in Blocks : Height[d] \in Nat
  BY Branches, Heights DEF Hashes
<1>1. T \subseteq 0..Height[a] /\ T # {}
  <2>1. \A d \in common : Height[d] \in Nat /\ Height[d] <= Height[a]
    BY <1>0 DEF BranchTo
  <2>2. Genesis \in common
    BY <1>0 DEF BranchTo
  <2> QED
    BY <1>0, <2>1, <2>2
<1>2. PICK m \in T : \A k \in T : k <= m
  <2> HIDE DEF T
  <2> QED
    BY <1>0, <1>1, LargestNatural
<1>3. \E x \in common : \A d \in common : Height[d] <= Height[x]
  BY <1>2
<1>4. c \in common
  BY <1>3 DEF LastCommonAncestor
<1> HIDE DEF c
<1>5. h = Height[c]
  BY DEF c
<1>6. h \in 0..Height[a] /\ h \in 0..Height[b]
  BY <1>0, <1>4, <1>5 DEF BranchTo
<1>7. c = GetAncestor(a, h) /\ c = GetAncestor(b, h)
  BY <1>4, <1>5, <1>6, AncestorAt
<1> QED
  BY <1>6, <1>7

(* Induction along a run of n steps. *)
LEMMA RunInduction ==
    ASSUME NEW n \in Nat, NEW T, NEW run, run[0] \in T,
           \A i \in 1..n : run[i - 1] \in T => run[i] \in T
    PROVE  \A i \in 0..n : run[i] \in T
<1> DEFINE S == {i \in Nat : i <= n => run[i] \in T}
<1>1. 0 \in S
  OBVIOUS
<1>2. ASSUME NEW i \in Nat \ {0}, i - 1 \in S PROVE i \in S
  BY <1>2
<1> HIDE DEF S
<1>3. \A i \in Nat : i \in S
  BY <1>1, <1>2, InductiveSet
<1>4. ASSUME NEW i \in 0..n PROVE run[i] \in T
  <2>1. i \in Nat /\ i <= n
    OBVIOUS
  <2> QED
    BY <1>3, <2>1 DEF S
<1> QED
  BY <1>4

(* The largest element of a set of numbers up to k that holds k. *)
LEMMA MaxIsBound ==
    ASSUME NEW k \in Nat, NEW s \in SUBSET (1..k), k \in s
    PROVE  Max(s) = k
<1>1. \A y \in s : y \in Int /\ k >= y
  OBVIOUS
<1>2. \A x \in s : (\A y \in s : x >= y) => x = k
  BY <1>1
<1> QED
  BY <1>1, <1>2 DEF Max

(* FoldLeft is defined by recursion over the sets of positions of the      *)
(* sequence; F is one step of the fold.                                    *)
FoldOf(h, F, base, n) ==
    /\ h[{}] = base
    /\ \A s \in SUBSET (1..n) : s # {} => Max(s) \in s /\ h[s] = F[<<h[s \ {Max(s)}], Max(s)>>]

(* The recursion has a solution. *)
LEMMA FoldSolution ==
    ASSUME NEW V, NEW base \in V, NEW n \in Nat, NEW F \in [V \X (1..n) -> V]
    PROVE  \E h \in [SUBSET (1..n) -> V] : FoldOf(h, F, base, n)
<1> DEFINE T == {k \in Nat : k <= n => \E h \in [SUBSET (1..k) -> V] : FoldOf(h, F, base, k)}
<1>1. 0 \in T
  <2> DEFINE h == [s \in SUBSET (1..0) |-> base]
  <2>1. \A s \in SUBSET (1..0) : s = {}
    OBVIOUS
  <2>2. h \in [SUBSET (1..0) -> V] /\ FoldOf(h, F, base, 0)
    BY <2>1 DEF FoldOf
  <2> QED
    BY <2>2
<1>2. ASSUME NEW k \in Nat \ {0}, k - 1 \in T PROVE k \in T
  <2> SUFFICES ASSUME k <= n PROVE \E h \in [SUBSET (1..k) -> V] : FoldOf(h, F, base, k)
    OBVIOUS
  <2>0. k - 1 <= n
    OBVIOUS
  <2>1. PICK h \in [SUBSET (1..(k - 1)) -> V] : FoldOf(h, F, base, k - 1)
    BY <1>2, <2>0
  <2> DEFINE g == [s \in SUBSET (1..k) |-> IF k \in s THEN F[<<h[s \ {k}], k>>] ELSE h[s]]
  <2>2. \A s \in SUBSET (1..k) : s \ {k} \in SUBSET (1..(k - 1)) /\ k \notin s \ {k}
    OBVIOUS
  <2>3. g \in [SUBSET (1..k) -> V]
    <3>1. ASSUME NEW s \in SUBSET (1..k), k \in s PROVE F[<<h[s \ {k}], k>>] \in V
      <4>1. h[s \ {k}] \in V /\ k \in 1..n
        BY <2>1, <2>2
      <4> QED
        BY <4>1
    <3>2. ASSUME NEW s \in SUBSET (1..k), k \notin s PROVE h[s] \in V
      <4>1. s = s \ {k}
        BY <3>2
      <4> QED
        BY <2>1, <2>2, <4>1
    <3> QED
      BY <3>1, <3>2
  <2>4. g[{}] = base
    BY <2>1 DEF FoldOf
  <2>5. ASSUME NEW s \in SUBSET (1..k), s # {}
        PROVE  Max(s) \in s /\ g[s] = F[<<g[s \ {Max(s)}], Max(s)>>]
    <3>1. CASE k \in s
      <4>1. Max(s) = k
        BY <3>1, MaxIsBound
      <4>2. s \ {k} \in SUBSET (1..k) /\ k \notin s \ {k}
        OBVIOUS
      <4> QED
        BY <3>1, <4>1, <4>2
    <3>2. CASE k \notin s
      <4>1. s \in SUBSET (1..(k - 1))
        BY <3>2
      <4>2. Max(s) \in s /\ h[s] = F[<<h[s \ {Max(s)}], Max(s)>>]
        BY <2>1, <2>5, <4>1 DEF FoldOf
      <4>3. s \ {Max(s)} \in SUBSET (1..k) /\ k \notin s \ {Max(s)}
        BY <3>2
      <4>4. g[s] = h[s] /\ g[s \ {Max(s)}] = h[s \ {Max(s)}]
        BY <3>2, <4>3
      <4> QED
        BY <4>2, <4>4
    <3> QED
      BY <3>1, <3>2
  <2> HIDE DEF g
  <2> QED
    BY <2>3, <2>4, <2>5 DEF FoldOf
<1> HIDE DEF T
<1>3. n \in T
  BY <1>1, <1>2, InductiveSet
<1>4. n <= n
  OBVIOUS
<1> QED
  BY <1>3, <1>4 DEF T

(* The positions up to i. *)
LEMMA Positions ==
    ASSUME NEW n \in Nat, NEW i \in 1..n
    PROVE  /\ 1..i \in SUBSET (1..n) /\ 1..i # {} /\ Max(1..i) = i
           /\ (1..i) \ {i} = 1..(i - 1)
<1>1. i \in Nat /\ i \in 1..i /\ 1..i \in SUBSET (1..i) /\ 1..i \in SUBSET (1..n)
  OBVIOUS
<1>2. Max(1..i) = i
  BY <1>1, MaxIsBound
<1>3. (1..i) \ {i} = 1..(i - 1)
  OBVIOUS
<1> QED
  BY <1>1, <1>2, <1>3

(* The coins of every outpoint, after each transaction of a block. *)
CoinMaps == [Outpoints -> Coins]
AppliedSolves(h, coins, vtx, nHeight, n) ==
    h = [s \in SUBSET (1..n) |-> IF s = {} THEN coins
                                 ELSE Applied(h[s \ {Max(s)}], vtx[Max(s)], nHeight)]
AppliedRun(run, coins, vtx, nHeight) ==
    /\ run[0] = coins
    /\ \A i \in 1..Len(vtx) : run[i] = Applied(run[i - 1], vtx[i], nHeight)

(* AllApplied applies the transactions one after the other. *)
LEMMA AllAppliedRun ==
    ASSUME NEW coins \in CoinMaps, NEW vtx \in Seq(Txs), NEW nHeight \in Coins
    PROVE  \E run \in [0..Len(vtx) -> CoinMaps] :
              AppliedRun(run, coins, vtx, nHeight) /\ AllApplied(coins, vtx, nHeight) = run[Len(vtx)]
<1> DEFINE n == Len(vtx)
           F == [x \in CoinMaps \X (1..n) |-> Applied(x[1], vtx[x[2]], nHeight)]
           iter == CHOOSE h : AppliedSolves(h, coins, vtx, nHeight, n)
           run == [i \in 0..n |-> iter[1..i]]
<1>0. n \in Nat /\ DOMAIN vtx = 1..n
  OBVIOUS
<1>1. \A c \in CoinMaps : \A tx : Applied(c, tx, nHeight) \in CoinMaps
  BY DEF Applied, CoinMaps, Coins
<1>2. F \in [CoinMaps \X (1..n) -> CoinMaps]
  BY <1>1
<1>3. PICK h \in [SUBSET (1..n) -> CoinMaps] : FoldOf(h, F, coins, n)
  <2> HIDE DEF F, n
  <2> QED
    BY <1>0, <1>2, FoldSolution
<1>4. AppliedSolves(h, coins, vtx, nHeight, n)
  <2>1. ASSUME NEW s \in SUBSET (1..n), s # {}
        PROVE  h[s] = Applied(h[s \ {Max(s)}], vtx[Max(s)], nHeight)
    <3>1. Max(s) \in 1..n /\ h[s] = F[<<h[s \ {Max(s)}], Max(s)>>]
      BY <1>3, <2>1 DEF FoldOf
    <3>2. s \ {Max(s)} \in SUBSET (1..n)
      OBVIOUS
    <3>3. h[s \ {Max(s)}] \in CoinMaps
      BY <3>2
    <3> HIDE DEF n
    <3> QED
      BY <3>1, <3>3
  <2>2. h[{}] = coins
    BY <1>3 DEF FoldOf
  <2>3. h = [s \in SUBSET (1..n) |-> h[s]]
    OBVIOUS
  <2> HIDE DEF F, n
  <2> QED
    BY <2>1, <2>2, <2>3 DEF AppliedSolves
<1>5. AppliedSolves(iter, coins, vtx, nHeight, n)
  BY <1>4
<1>6. AllApplied(coins, vtx, nHeight) = iter[1..n]
  BY <1>0 DEF AllApplied, FoldLeft, MapThenFoldSet, AppliedSolves
<1> HIDE DEF iter, F, n
<1>7. run[0] = coins
  <2>1. 1..0 = {} /\ 1..0 \in SUBSET (1..n) /\ 0 \in 0..n
    BY <1>0
  <2> QED
    BY <1>5, <2>1 DEF AppliedSolves
<1>8. ASSUME NEW i \in 1..n PROVE run[i] = Applied(run[i - 1], vtx[i], nHeight)
  <2>1. /\ 1..i \in SUBSET (1..n) /\ 1..i # {} /\ Max(1..i) = i
        /\ (1..i) \ {i} = 1..(i - 1)
    BY <1>0, Positions
  <2>2. iter[1..i] = Applied(iter[1..(i - 1)], vtx[i], nHeight)
    BY <1>5, <2>1 DEF AppliedSolves
  <2>3. i \in 0..n /\ i - 1 \in 0..n
    BY <1>0
  <2> QED
    BY <2>2, <2>3
<1>9. run[n] = iter[1..n] /\ run = [i \in 0..n |-> run[i]]
  BY <1>0
<1> HIDE DEF run
<1>10. \A i \in 0..n : run[i] \in CoinMaps
  <2>1. ASSUME NEW i \in 1..n, run[i - 1] \in CoinMaps PROVE run[i] \in CoinMaps
    BY <1>1, <1>8, <2>1
  <2> QED
    BY <1>0, <1>7, <2>1, RunInduction
<1> QED
  BY <1>6, <1>7, <1>8, <1>9, <1>10 DEF AppliedRun, n

UtxoSolves(f) ==
    f = [b \in Hashes |-> IF b \in {Null, Genesis} THEN Empty
                          ELSE AllApplied(f[Parent[b]], Vtx[b], Height[b])]

(* A coin is told by its height; only Spent is 0, but for the first block. *)
LEMMA CoinHeights ==
    /\ Spent \in Coins /\ Coins \subseteq Int /\ Empty \in CoinMaps
    /\ \A b \in Blocks : Height[b] \in Coins
    /\ \A b \in Blocks \ {Genesis} : Height[b] # Spent
<1>1. /\ \A b \in Blocks : Height[b] \in Nat
      /\ \A b \in Blocks \ {Genesis} : Parent[b] \in Blocks /\ Height[b] = Height[Parent[b]] + 1
  BY Heights DEF Hashes
<1> QED
  BY <1>1 DEF Coins, Spent, Empty, CoinMaps

(* The unspent outputs after a block come from those after its parent. *)
LEMMA Utxos ==
    /\ Utxo[Null] = Empty /\ Utxo[Genesis] = Empty
    /\ \A b \in Hashes : Utxo[b] \in CoinMaps
    /\ \A b \in Blocks \ {Genesis} : Utxo[b] = AllApplied(Utxo[Parent[b]], Vtx[b], Height[b])
<1> DEFINE F == [x \in Blocks \X CoinMaps |-> IF x[1] = Genesis THEN Empty
                                              ELSE AllApplied(x[2], Vtx[x[1]], Height[x[1]])]
<1>0. /\ Genesis \in Blocks /\ Null \in Hashes /\ Null \notin Blocks
      /\ \A b \in Blocks : b \in Hashes /\ Parent[b] \in Hashes /\ Vtx[b] \in Seq(Txs)
      /\ \A b \in Blocks \ {Genesis} : Parent[b] \in Blocks
      /\ \A b \in Hashes : b \notin {Null, Genesis} => b \in Blocks \ {Genesis}
  BY CoinsAssumption DEF Hashes
<1>1. ASSUME NEW coins \in CoinMaps, NEW b \in Blocks
      PROVE  AllApplied(coins, Vtx[b], Height[b]) \in CoinMaps
  <2>1. Vtx[b] \in Seq(Txs) /\ Height[b] \in Coins /\ Len(Vtx[b]) \in 0..Len(Vtx[b])
    BY <1>0, CoinHeights
  <2>2. PICK run \in [0..Len(Vtx[b]) -> CoinMaps] :
           AllApplied(coins, Vtx[b], Height[b]) = run[Len(Vtx[b])]
    BY <2>1, AllAppliedRun
  <2> QED
    BY <2>1, <2>2
<1>2. F \in [Blocks \X CoinMaps -> CoinMaps] /\ Empty \in CoinMaps
  BY <1>1, CoinHeights
<1>3. PICK f \in [Hashes -> CoinMaps] : ChainSolves(f, Empty, F)
  <2> HIDE DEF F
  <2> QED
    BY <1>2, ChainRecursion
<1>4. UtxoSolves(f)
  <2>1. f[Null] = Empty
    BY <1>3 DEF ChainSolves
  <2>2. ASSUME NEW b \in Blocks
        PROVE  f[b] = IF b = Genesis THEN Empty ELSE AllApplied(f[Parent[b]], Vtx[b], Height[b])
    <3>1. f[b] = F[<<b, f[Parent[b]]>>]
      BY <1>3 DEF ChainSolves
    <3>2. f[Parent[b]] \in CoinMaps
      BY <1>0
    <3> QED
      BY <3>1, <3>2
  <2>3. f = [b \in Hashes |-> f[b]]
    OBVIOUS
  <2>4. \A b \in Hashes : f[b] = IF b \in {Null, Genesis} THEN Empty
                                 ELSE AllApplied(f[Parent[b]], Vtx[b], Height[b])
    BY <1>0, <2>1, <2>2
  <2> HIDE DEF F
  <2> QED
    BY <2>3, <2>4 DEF UtxoSolves
<1>5. Utxo = CHOOSE g : UtxoSolves(g)
  BY DEF Utxo, UtxoSolves, Hashes
<1>6. UtxoSolves(Utxo)
  BY <1>4, <1>5
<1> HIDE DEF F
<1>7. Utxo[Null] = Empty /\ Utxo[Genesis] = Empty
  BY <1>0, <1>6 DEF UtxoSolves, Hashes
<1>8. \A b \in Blocks \ {Genesis} : Utxo[b] = AllApplied(Utxo[Parent[b]], Vtx[b], Height[b])
  BY <1>0, <1>6 DEF UtxoSolves
<1> DEFINE T == {b \in Blocks : Utxo[b] \in CoinMaps}
<1>9. ASSUME NEW b \in Blocks, Parent[b] \in T \cup {Null} PROVE b \in T
  BY <1>1, <1>2, <1>7, <1>8, <1>9
<1> HIDE DEF T
<1>10. Blocks \subseteq T
  BY <1>9, ChainInduction
<1>11. \A b \in Hashes : Utxo[b] \in CoinMaps
  BY <1>2, <1>7, <1>10 DEF T, Hashes
<1> QED
  BY <1>7, <1>8, <1>11

(* The coins at each transaction of a valid block. *)
BlockRun(run, b) ==
    /\ run \in [0..Len(Vtx[b]) -> CoinMaps]
    /\ run[0] = Utxo[Parent[b]] /\ run[Len(Vtx[b])] = Utxo[b]
    /\ \A i \in 1..Len(Vtx[b]) :
          /\ Vtx[b][i] \in Txs
          /\ run[i - 1] \in CoinMaps /\ run[i] = Applied(run[i - 1], Vtx[b][i], Height[b])
          /\ CoinsBefore(b, i) = run[i - 1]
          /\ \A o \in Vtx[b][i].spends : run[i - 1][o] # Spent
          /\ \A o \in Vtx[b][i].creates : run[i - 1][o] = Spent

(* Every block but the first takes the coins from its parent's to its own. *)
LEMMA BlockRuns == \A b \in Blocks \ {Genesis} : \E run : BlockRun(run, b)
<1> SUFFICES ASSUME NEW b \in Blocks \ {Genesis} PROVE \E run : BlockRun(run, b)
  OBVIOUS
<1> DEFINE vtx == Vtx[b]
           n == Len(vtx)
           coins == Utxo[Parent[b]]
           h == Height[b]
<1>1. vtx \in Seq(Txs) /\ n \in Nat /\ h \in Coins /\ coins \in CoinMaps
  BY CoinsAssumption, CoinHeights, Utxos, Heights DEF Hashes
<1>2. /\ Utxo[b] = AllApplied(coins, vtx, h)
      /\ \A i : CoinsBefore(b, i) = AllApplied(coins, SubSeq(vtx, 1, i - 1), h)
  BY Utxos DEF CoinsBefore
<1>3. \A i \in 1..n : /\ \A o \in vtx[i].spends : CoinsBefore(b, i)[o] # Spent
                      /\ \A o \in vtx[i].creates : CoinsBefore(b, i)[o] = Spent
  BY ValidBlocks
<1> HIDE DEF vtx, coins, h
<1>4. PICK run \in [0..n -> CoinMaps] :
         AppliedRun(run, coins, vtx, h) /\ AllApplied(coins, vtx, h) = run[n]
  BY <1>1, AllAppliedRun
<1>5. ASSUME NEW i \in 1..n PROVE AllApplied(coins, SubSeq(vtx, 1, i - 1), h) = run[i - 1]
  <2> DEFINE s == SubSeq(vtx, 1, i - 1)
             k == i - 1
  <2>1. s \in Seq(Txs) /\ Len(s) = k /\ k \in Nat /\ \A j \in 1..k : s[j] = vtx[j] /\ j \in 1..n
    BY <1>1
  <2> HIDE DEF s, k
  <2>2. PICK part \in [0..k -> CoinMaps] :
           AppliedRun(part, coins, s, h) /\ AllApplied(coins, s, h) = part[k]
    BY <1>1, <2>1, AllAppliedRun
  <2> DEFINE T == {j \in Nat : j <= k => part[j] = run[j]}
  <2>3. 0 \in T
    BY <1>4, <2>2 DEF AppliedRun
  <2>4. ASSUME NEW j \in Nat \ {0}, j - 1 \in T PROVE j \in T
    <3> SUFFICES ASSUME j <= k PROVE part[j] = run[j]
      OBVIOUS
    <3>1. j \in 1..k /\ part[j - 1] = run[j - 1]
      BY <2>1, <2>4
    <3>2. part[j] = Applied(part[j - 1], s[j], h) /\ run[j] = Applied(run[j - 1], vtx[j], h)
      BY <1>4, <2>1, <2>2, <3>1 DEF AppliedRun
    <3> QED
      BY <2>1, <3>1, <3>2
  <2> HIDE DEF T
  <2>5. k \in T
    BY <2>1, <2>3, <2>4, InductiveSet
  <2>6. part[k] = run[k]
    BY <2>1, <2>5 DEF T
  <2> QED
    BY <2>2, <2>6 DEF s, k
<1>6. ASSUME NEW i \in 1..n
      PROVE  /\ vtx[i] \in Txs
             /\ run[i - 1] \in CoinMaps /\ run[i] = Applied(run[i - 1], vtx[i], h)
             /\ CoinsBefore(b, i) = run[i - 1]
  <2>1. i - 1 \in 0..n /\ vtx[i] \in Txs
    BY <1>1
  <2>2. run[i] = Applied(run[i - 1], vtx[i], h)
    BY <1>4 DEF AppliedRun
  <2> QED
    BY <1>2, <1>4, <1>5, <2>1, <2>2
<1>7. run[0] = coins /\ run[n] = Utxo[b]
  BY <1>2, <1>4 DEF AppliedRun
<1> HIDE DEF n
<1>8. BlockRun(run, b)
  BY <1>3, <1>4, <1>6, <1>7 DEF BlockRun, vtx, coins, h, n
<1> QED
  BY <1>8

-----------------------------------------------------------------------------
(* One entry of a cache: its flags tell the truth about the coin that the  *)
(* base has.                                                               *)
Sound(e, base) ==
    /\ e \in Entries \cup {none}
    /\ e # none => /\ e.fresh => base = Spent
                   /\ ~e.dirty => e.coin = base

(* No entry is an entry of the cache. *)
LEMMA EntryIsNot ==
    /\ none \notin Entries
    /\ \A coin \in Coins \ {Spent}, dirty \in BOOLEAN, fresh \in BOOLEAN :
          (fresh => dirty) => Entry(coin, dirty, fresh) \in Entries
    /\ Entry(Spent, TRUE, FALSE) \in Entries
<1>1. Entries \subseteq [coin : Int, dirty : BOOLEAN, fresh : BOOLEAN]
  BY CoinHeights DEF Entries
<1> QED
  BY <1>1, NoneAssumption, CoinHeights DEF Entries, Entry

(* The parts of an entry. *)
LEMMA EntryParts ==
    ASSUME NEW coin, NEW dirty, NEW fresh
    PROVE  /\ Entry(coin, dirty, fresh).coin = coin
           /\ Entry(coin, dirty, fresh).dirty = dirty
           /\ Entry(coin, dirty, fresh).fresh = fresh
BY DEF Entry

(* A new entry. *)
LEMMA EntrySound ==
    ASSUME NEW base \in Coins, NEW coin \in Coins \ {Spent}, NEW dirty \in BOOLEAN,
           NEW fresh \in BOOLEAN, fresh => dirty /\ base = Spent, ~dirty => coin = base
    PROVE  /\ Sound(Entry(coin, dirty, fresh), base)
           /\ Entry(coin, dirty, fresh) # none
           /\ GetCoin(Entry(coin, dirty, fresh), base) = coin
<1> DEFINE e == Entry(coin, dirty, fresh)
<1>1. e \in Entries /\ e # none
  BY EntryIsNot
<1>2. e.coin = coin /\ e.dirty = dirty /\ e.fresh = fresh
  BY EntryParts
<1> HIDE DEF e
<1>3. Sound(e, base) /\ GetCoin(e, base) = coin
  BY <1>1, <1>2 DEF Sound, GetCoin
<1> QED
  BY <1>1, <1>3 DEF e

(* An entry that has to be written. *)
LEMMA DirtySound ==
    ASSUME NEW base \in Coins, NEW coin \in Coins \ {Spent}, NEW fresh \in BOOLEAN,
           fresh => base = Spent
    PROVE  /\ Sound(Entry(coin, TRUE, fresh), base)
           /\ GetCoin(Entry(coin, TRUE, fresh), base) = coin
<1>1. TRUE \in BOOLEAN /\ (fresh => TRUE /\ base = Spent) /\ (~TRUE => coin = base)
  OBVIOUS
<1> QED
  BY <1>1, EntrySound

(* The entry of a spent coin that the base may have. *)
LEMMA SpentSound ==
    ASSUME NEW base
    PROVE  /\ Sound(Entry(Spent, TRUE, FALSE), base)
           /\ Entry(Spent, TRUE, FALSE) # none
           /\ GetCoin(Entry(Spent, TRUE, FALSE), base) = Spent
<1> DEFINE e == Entry(Spent, TRUE, FALSE)
<1>1. e \in Entries /\ e # none
  BY EntryIsNot
<1>2. e.coin = Spent /\ e.dirty /\ ~e.fresh
  BY DEF Entry
<1> HIDE DEF e
<1>3. Sound(e, base) /\ GetCoin(e, base) = Spent
  BY <1>1, <1>2 DEF Sound, GetCoin
<1> QED
  BY <1>1, <1>3 DEF e

(* No entry. *)
LEMMA NoneSound == ASSUME NEW base PROVE Sound(none, base) /\ GetCoin(none, base) = base
BY DEF Sound, GetCoin

(* What is known of an entry. *)
LEMMA SoundEntry ==
    ASSUME NEW base \in Coins, NEW e, Sound(e, base), e # none
    PROVE  /\ e \in Entries /\ e.coin \in Coins /\ e.dirty \in BOOLEAN /\ e.fresh \in BOOLEAN
           /\ e.coin = Spent => e.dirty /\ ~e.fresh
           /\ e.fresh => e.dirty /\ base = Spent
           /\ ~e.dirty => e.coin = base
           /\ GetCoin(e, base) = e.coin
<1>1. e \in Entries
  BY DEF Sound
<1> QED
  BY <1>1 DEF Sound, Entries, GetCoin

(* FetchCoin shows the same coin. *)
LEMMA FetchSound ==
    ASSUME NEW base \in Coins, NEW e, Sound(e, base)
    PROVE  /\ Sound(FetchCoin(e, base), base)
           /\ GetCoin(FetchCoin(e, base), base) = GetCoin(e, base)
           /\ FetchCoin(e, base) = none => base = Spent
<1>1. CASE e = none /\ base # Spent
  <2>1. FetchCoin(e, base) = Entry(base, FALSE, FALSE)
    BY <1>1 DEF FetchCoin
  <2> QED
    BY <1>1, <2>1, EntrySound DEF GetCoin
<1>2. CASE ~(e = none /\ base # Spent)
  BY <1>2 DEF FetchCoin
<1> QED
  BY <1>1, <1>2

(* After SpendCoin the coin is spent: an entry may be forgotten only if the *)
(* base does not have the coin.                                             *)
LEMMA SpendSound ==
    ASSUME NEW base \in Coins, NEW e, Sound(e, base)
    PROVE  Sound(SpendCoin(e, base), base) /\ GetCoin(SpendCoin(e, base), base) = Spent
<1> DEFINE it == FetchCoin(e, base)
<1>1. Sound(it, base) /\ (it = none => base = Spent)
  BY FetchSound
<1>2. SpendCoin(e, base) = IF it = none \/ it.fresh THEN none ELSE Entry(Spent, TRUE, FALSE)
  BY DEF SpendCoin
<1> HIDE DEF it
<1>3. CASE it = none \/ it.fresh
  <2>1. base = Spent
    BY <1>1, <1>3 DEF Sound
  <2> QED
    BY <1>2, <1>3, <2>1, NoneSound
<1>4. CASE ~(it = none \/ it.fresh)
  BY <1>2, <1>4, SpentSound
<1> QED
  BY <1>3, <1>4

(* After AddCoin the coin is the new one, if nothing unspent is there or   *)
(* overwriting is allowed, and if an entry that is missing is missing in   *)
(* the base too.                                                           *)
LEMMA AddSound ==
    ASSUME NEW base \in Coins, NEW e, Sound(e, base), NEW coin \in Coins \ {Spent},
           NEW overwrite \in BOOLEAN, ~overwrite => GetCoin(e, base) = Spent
    PROVE  /\ Sound(AddCoin(e, coin, overwrite), base)
           /\ GetCoin(AddCoin(e, coin, overwrite), base) = coin
<1> DEFINE fresh == \/ ~overwrite /\ (e = none \/ ~e.dirty)
                    \/ e # none /\ e.fresh
<1>1. AddCoin(e, coin, overwrite) = Entry(coin, TRUE, fresh)
  <2>1. ~(~overwrite /\ e # none /\ e.coin # Spent)
    BY DEF GetCoin
  <2> QED
    BY <2>1 DEF AddCoin
<1>2. fresh \in BOOLEAN
  OBVIOUS
<1>3. fresh => base = Spent
  <2>1. CASE e = none
    BY <2>1 DEF GetCoin
  <2>2. CASE e # none
    <3>1. /\ e.fresh => base = Spent
          /\ ~e.dirty => e.coin = base
          /\ GetCoin(e, base) = e.coin
      BY <2>2, SoundEntry
    <3> QED
      BY <2>2, <3>1
  <2> QED
    BY <2>1, <2>2
<1>4. PICK f \in BOOLEAN : AddCoin(e, coin, overwrite) = Entry(coin, TRUE, f) /\ (f => base = Spent)
  BY <1>1, <1>2, <1>3
<1> HIDE DEF fresh
<1>5. Sound(Entry(coin, TRUE, f), base) /\ GetCoin(Entry(coin, TRUE, f), base) = coin
  BY <1>4, DirtySound
<1> QED
  BY <1>4, <1>5

(* AddCoins that asks first never fails. *)
LEMMA AddCheckedSound ==
    ASSUME NEW base \in Coins, NEW e, Sound(e, base), NEW coin \in Coins \ {Spent}
    PROVE  /\ Sound(AddChecked(e, base, coin), base)
           /\ GetCoin(AddChecked(e, base, coin), base) = coin
<1>1. Sound(FetchCoin(e, base), base) /\ GetCoin(FetchCoin(e, base), base) = GetCoin(e, base)
  BY FetchSound
<1>2. HaveCoin(e, base) \in BOOLEAN /\ (~HaveCoin(e, base) => GetCoin(e, base) = Spent)
  BY DEF HaveCoin
<1> QED
  BY <1>1, <1>2, AddSound DEF AddChecked

(* BatchWrite: the parent shows the coin that the child showed.  FRESH of   *)
(* the child is about the parent, and that of the parent about its base.    *)
LEMMA BatchSound ==
    ASSUME NEW base \in Coins, NEW us, Sound(us, base),
           NEW it, Sound(it, GetCoin(us, base)), GetCoin(us, base) \in Coins
    PROVE  /\ Sound(BatchWrite(us, it), base)
           /\ GetCoin(BatchWrite(us, it), base) = GetCoin(it, GetCoin(us, base))
<1> DEFINE shown == GetCoin(us, base)
<1>1. CASE it = none \/ ~it.dirty
  <2>1. BatchWrite(us, it) = us
    BY <1>1 DEF BatchWrite
  <2>2. GetCoin(it, shown) = shown
    BY <1>1, SoundEntry DEF GetCoin
  <2> QED
    BY <2>1, <2>2
<1>2. CASE it # none /\ it.dirty /\ us = none
  <2>1. shown = base
    BY <1>2 DEF GetCoin
  <2>2. ~(it.fresh /\ it.coin = Spent)
    BY <1>2, SoundEntry
  <2>3. BatchWrite(us, it) = it
    BY <1>2, <2>2 DEF BatchWrite
  <2> QED
    BY <2>1, <2>3
<1>3. CASE it # none /\ it.dirty /\ us # none
  <2>1. /\ shown = us.coin /\ us.fresh \in BOOLEAN /\ it.coin \in Coins
        /\ it.fresh => shown = Spent
        /\ us.fresh => base = Spent
        /\ GetCoin(it, shown) = it.coin
    BY <1>3, SoundEntry
  <2>2. CASE us.fresh /\ it.coin = Spent
    <3>1. BatchWrite(us, it) = none
      BY <1>3, <2>1, <2>2 DEF BatchWrite
    <3> QED
      BY <2>1, <2>2, <3>1, NoneSound
  <2>3. CASE ~(us.fresh /\ it.coin = Spent)
    <3>1. BatchWrite(us, it) = Entry(it.coin, TRUE, us.fresh)
      BY <1>3, <2>1, <2>3 DEF BatchWrite
    <3>2. CASE it.coin = Spent
      <4>1. us.fresh = FALSE
        BY <2>1, <2>3, <3>2
      <4> QED
        BY <2>1, <3>1, <3>2, <4>1, SpentSound
    <3>3. CASE it.coin # Spent
      <4>1. PICK f \in BOOLEAN : f = us.fresh
        BY <2>1
      <4>2. Sound(Entry(it.coin, TRUE, f), base) /\ GetCoin(Entry(it.coin, TRUE, f), base) = it.coin
        BY <2>1, <3>3, <4>1, DirtySound
      <4> QED
        BY <2>1, <3>1, <4>1, <4>2
    <3> QED
      BY <3>2, <3>3
  <2> QED
    BY <2>2, <2>3
<1> QED
  BY <1>1, <1>2, <1>3

(* Uncache drops only what the base has. *)
LEMMA UncacheSound ==
    ASSUME NEW base \in Coins, NEW e, Sound(e, base)
    PROVE  Sound(Uncache(e), base) /\ GetCoin(Uncache(e), base) = GetCoin(e, base)
<1>1. CASE e # none /\ ~e.dirty /\ ~e.fresh
  <2>1. Uncache(e) = none /\ GetCoin(e, base) = base
    BY <1>1, SoundEntry DEF Uncache
  <2> QED
    BY <2>1, NoneSound
<1>2. CASE ~(e # none /\ ~e.dirty /\ ~e.fresh)
  BY <1>2 DEF Uncache
<1> QED
  BY <1>1, <1>2

-----------------------------------------------------------------------------
(* A block applied to a cache is a run of its transactions.  A slot of the *)
(* cache, whatever has been done to it:                                    *)
Slots == {none} \cup [coin : Int, dirty : BOOLEAN, fresh : BOOLEAN]
Caches == [Outpoints -> Slots]

(* An entry is a slot. *)
LEMMA EntrySlot ==
    ASSUME NEW coin \in Int, NEW dirty \in BOOLEAN, NEW fresh \in BOOLEAN
    PROVE  Entry(coin, dirty, fresh) \in Slots
BY DEF Entry, Slots

(* The operations on slots. *)
LEMMA SlotsClosed ==
    ASSUME NEW e \in Slots, NEW base \in Int
    PROVE  /\ FetchCoin(e, base) \in Slots
           /\ SpendCoin(e, base) \in Slots
           /\ \A coin \in Int : \A overwrite \in BOOLEAN : AddCoin(e, coin, overwrite) \in Slots
<1>0. none \in Slots /\ Spent \in Int /\ Thrown \in Int /\ TRUE \in BOOLEAN /\ FALSE \in BOOLEAN
  BY DEF Slots, Spent, Thrown
<1>1. FetchCoin(e, base) \in Slots
  BY <1>0, EntrySlot DEF FetchCoin
<1>2. SpendCoin(e, base) \in Slots
  BY <1>0, EntrySlot DEF SpendCoin
<1>3. ASSUME NEW coin \in Int, NEW overwrite \in BOOLEAN
      PROVE  AddCoin(e, coin, overwrite) \in Slots
  <2> DEFINE fresh == \/ ~overwrite /\ (e = none \/ ~e.dirty)
                      \/ e # none /\ e.fresh
  <2>1. AddCoin(e, coin, overwrite) \in {Entry(Thrown, TRUE, FALSE), Entry(coin, TRUE, fresh)}
    BY DEF AddCoin
  <2>2. PICK f \in BOOLEAN : f = fresh
    <3>1. fresh \in BOOLEAN
      OBVIOUS
    <3> QED
      BY <3>1
  <2>3. Entry(coin, TRUE, f) = Entry(coin, TRUE, fresh)
    BY <2>2
  <2> HIDE DEF fresh
  <2>4. Entry(coin, TRUE, f) \in Slots /\ Entry(Thrown, TRUE, FALSE) \in Slots
    BY <1>0, EntrySlot
  <2> QED
    BY <2>1, <2>3, <2>4
<1> QED
  BY <1>1, <1>2, <1>3

(* ... and the one that asks first. *)
LEMMA AddCheckedSlot ==
    ASSUME NEW e \in Slots, NEW base \in Int, NEW coin \in Int
    PROVE  AddChecked(e, base, coin) \in Slots
<1>1. FetchCoin(e, base) \in Slots /\ HaveCoin(e, base) \in BOOLEAN
  BY SlotsClosed DEF HaveCoin
<1>2. PICK f \in BOOLEAN : f = HaveCoin(e, base)
  BY <1>1
<1>3. AddCoin(FetchCoin(e, base), coin, f) \in Slots
  BY <1>1, SlotsClosed
<1> QED
  BY <1>2, <1>3 DEF AddChecked

(* The steps on a cache. *)
LEMMA StepsClosed ==
    ASSUME NEW d \in Caches, NEW base \in CoinMaps, NEW tx \in Txs
    PROVE  /\ \A coin \in Coins : UpdateCoins(d, base, tx, coin) \in Caches
           /\ \A coin \in Coins : RollforwardTx(d, base, tx, coin) \in Caches
           /\ \A undo \in CoinMaps : DisconnectTx(d, base, tx, undo) \in Caches
<1>1. \A o \in Outpoints : d[o] \in Slots /\ base[o] \in Int
  BY CoinHeights DEF Caches, CoinMaps
<1>2. tx.coinbase \in BOOLEAN
  BY DEF Txs
<1>3. \A o \in Outpoints : SpendCoin(d[o], base[o]) \in Slots
  BY <1>1, SlotsClosed
<1>4. \A coin \in Coins : \A o \in Outpoints : AddCoin(d[o], coin, tx.coinbase) \in Slots
  BY <1>1, <1>2, SlotsClosed, CoinHeights
<1>5. \A coin \in Coins : \A o \in Outpoints : AddChecked(d[o], base[o], coin) \in Slots
  BY <1>1, AddCheckedSlot, CoinHeights
<1>6. \A coin \in Coins : UpdateCoins(d, base, tx, coin) \in Caches
  BY <1>1, <1>3, <1>4 DEF UpdateCoins, Caches
<1>7. \A coin \in Coins : RollforwardTx(d, base, tx, coin) \in Caches
  BY <1>1, <1>3, <1>5 DEF RollforwardTx, Caches
<1>8. ASSUME NEW undo \in CoinMaps PROVE DisconnectTx(d, base, tx, undo) \in Caches
  <2>1. \A o \in Outpoints : AddChecked(d[o], base[o], undo[o]) \in Slots
    BY <1>5 DEF CoinMaps
  <2> QED
    BY <1>1, <1>3, <2>1 DEF DisconnectTx, Caches
<1> QED
  BY <1>6, <1>7, <1>8

(* A solution h of such a recursion, of which only the steps that stay in  *)
(* V are known, and its values along 1..n.                                 *)
FoldIn(h, V, F, base, n) ==
    /\ n \in Nat /\ base \in V /\ F \in [V \X (1..n) -> V]
    /\ h[{}] = base
    /\ \A s \in SUBSET (1..n) :
          s # {} /\ h[s \ {Max(s)}] \in V /\ Max(s) \in 1..n => h[s] = F[<<h[s \ {Max(s)}], Max(s)>>]
RunIn(run, h, V, F, base, n) ==
    /\ run \in [0..n -> V] /\ run[0] = base /\ run[n] = h[1..n]
    /\ \A i \in 1..n : run[i - 1] \in V /\ run[i] = F[<<run[i - 1], i>>]

(* It stays in V, and each position is one step of F. *)
LEMMA FoldRun ==
    ASSUME NEW h, NEW V, NEW F, NEW base, NEW n, FoldIn(h, V, F, base, n)
    PROVE  \E run : RunIn(run, h, V, F, base, n)
<1>0. n \in Nat /\ base \in V /\ F \in [V \X (1..n) -> V]
  BY DEF FoldIn
<1> DEFINE run == [i \in 0..n |-> h[1..i]]
<1>1. run[0] = base
  <2>1. 1..0 = {} /\ 0 \in 0..n
    BY <1>0
  <2> QED
    BY <2>1 DEF FoldIn
<1>2. ASSUME NEW i \in 1..n, run[i - 1] \in V PROVE run[i] = F[<<run[i - 1], i>>] /\ run[i] \in V
  <2>1. /\ 1..i \in SUBSET (1..n) /\ 1..i # {} /\ Max(1..i) = i
        /\ (1..i) \ {i} = 1..(i - 1)
    BY <1>0, Positions
  <2>2. i \in 0..n /\ i - 1 \in 0..n
    BY <1>0
  <2>3. h[1..(i - 1)] \in V
    BY <1>2, <2>2
  <2>4. h[1..i] = F[<<h[1..(i - 1)], i>>]
    BY <2>1, <2>3 DEF FoldIn
  <2>5. F[<<h[1..(i - 1)], i>>] \in V
    BY <1>0, <2>3
  <2> QED
    BY <2>2, <2>4, <2>5
<1>3. run[n] = h[1..n] /\ run = [i \in 0..n |-> run[i]]
  BY <1>0
<1> HIDE DEF run
<1>4. \A i \in 0..n : run[i] \in V
  BY <1>0, <1>1, <1>2, RunInduction
<1>5. run \in [0..n -> V]
  BY <1>3, <1>4
<1>6. ASSUME NEW i \in 1..n PROVE run[i - 1] \in V /\ run[i] = F[<<run[i - 1], i>>]
  <2>1. i - 1 \in 0..n
    BY <1>0
  <2> QED
    BY <1>2, <1>4, <2>1
<1> QED
  BY <1>1, <1>3, <1>5, <1>6 DEF RunIn

(* DisconnectBlock takes the last transaction first. *)
Backwards(b) == Reverse([i \in 1..Len(Vtx[b]) |-> i])
Undone(d, base, b, i) == DisconnectTx(d, base, Vtx[b][i], CoinsBefore(b, i))

(* The positions of the block in that order. *)
LEMMA BackwardsIs ==
    ASSUME NEW b \in Blocks
    PROVE  /\ Len(Vtx[b]) \in Nat /\ DOMAIN Backwards(b) = 1..Len(Vtx[b])
           /\ \A i \in 1..Len(Vtx[b]) : /\ Backwards(b)[i] = Len(Vtx[b]) + 1 - i
                                        /\ Backwards(b)[i] \in 1..Len(Vtx[b])
<1> DEFINE n == Len(Vtx[b])
<1>1. n \in Nat
  BY CoinsAssumption
<1> HIDE DEF n
<1>2. Backwards(b) = [i \in 1..n |-> n + 1 - i]
  BY <1>1 DEF Backwards, Reverse, n
<1> QED
  BY <1>1, <1>2 DEF n

(* The cache at each transaction of ConnectBlock ... *)
ConnectSolves(h, c, base, b, n) ==
    h = [s \in SUBSET (1..n) |->
           IF s = {} THEN c ELSE UpdateCoins(h[s \ {Max(s)}], base, Vtx[b][Max(s)], Height[b])]
ConnectRun(run, c, base, b) ==
    /\ run[0] = c
    /\ \A i \in 1..Len(Vtx[b]) : run[i] = UpdateCoins(run[i - 1], base, Vtx[b][i], Height[b])

(* ConnectBlock is one UpdateCoins after the other. *)
LEMMA ConnectRuns ==
    ASSUME NEW c \in Caches, NEW base \in CoinMaps, NEW b \in Blocks
    PROVE  \E run \in [0..Len(Vtx[b]) -> Caches] :
              ConnectRun(run, c, base, b) /\ ConnectBlock(c, base, b) = run[Len(Vtx[b])]
<1> DEFINE n == Len(Vtx[b])
           F == [x \in Caches \X (1..n) |-> UpdateCoins(x[1], base, Vtx[b][x[2]], Height[b])]
           iter == CHOOSE h : ConnectSolves(h, c, base, b, n)
<1>0. n \in Nat /\ DOMAIN Vtx[b] = 1..n /\ Height[b] \in Coins /\ \A i \in 1..n : Vtx[b][i] \in Txs
  BY CoinsAssumption, CoinHeights
<1>1. ASSUME NEW d \in Caches, NEW i \in 1..n
      PROVE  UpdateCoins(d, base, Vtx[b][i], Height[b]) \in Caches
  BY <1>0, StepsClosed
<1>2. F \in [Caches \X (1..n) -> Caches]
  BY <1>1
<1>3. \A d \in Caches : \A i \in 1..n : F[<<d, i>>] = UpdateCoins(d, base, Vtx[b][i], Height[b])
  OBVIOUS
<1> HIDE DEF F
<1>4. ConnectSolves(iter, c, base, b, n)
  <2>1. PICK h \in [SUBSET (1..n) -> Caches] : FoldOf(h, F, c, n)
    <3> HIDE DEF n
    <3> QED
      BY <1>0, <1>2, FoldSolution
  <2>2. ASSUME NEW s \in SUBSET (1..n), s # {}
        PROVE  h[s] = UpdateCoins(h[s \ {Max(s)}], base, Vtx[b][Max(s)], Height[b])
    <3>1. Max(s) \in 1..n /\ h[s] = F[<<h[s \ {Max(s)}], Max(s)>>]
      BY <2>1, <2>2 DEF FoldOf
    <3>2. h[s \ {Max(s)}] \in Caches
      BY <2>1
    <3> HIDE DEF n
    <3> QED
      BY <1>3, <3>1, <3>2
  <2>3. h[{}] = c /\ h = [s \in SUBSET (1..n) |-> h[s]]
    BY <2>1 DEF FoldOf
  <2> HIDE DEF n
  <2>4. ConnectSolves(h, c, base, b, n)
    BY <2>2, <2>3 DEF ConnectSolves
  <2> QED
    BY <2>4
<1>5. ConnectBlock(c, base, b) = iter[1..n]
  BY <1>0 DEF ConnectBlock, FoldLeft, MapThenFoldSet, ConnectSolves
<1> HIDE DEF iter, n
<1>6. FoldIn(iter, Caches, F, c, n)
  <2>1. \A s \in SUBSET (1..n) :
           s # {} => iter[s] = UpdateCoins(iter[s \ {Max(s)}], base, Vtx[b][Max(s)], Height[b])
    BY <1>4 DEF ConnectSolves
  <2>2. iter[{}] = c
    BY <1>4 DEF ConnectSolves
  <2> QED
    BY <1>0, <1>2, <1>3, <2>1, <2>2 DEF FoldIn
<1>7. PICK run : RunIn(run, iter, Caches, F, c, n)
  BY <1>6, FoldRun
<1>8. /\ run \in [0..n -> Caches] /\ run[0] = c /\ run[n] = iter[1..n]
      /\ \A i \in 1..n : run[i - 1] \in Caches /\ run[i] = F[<<run[i - 1], i>>]
  BY <1>7 DEF RunIn
<1>9. ConnectRun(run, c, base, b)
  BY <1>3, <1>8 DEF ConnectRun, n
<1> QED
  BY <1>5, <1>8, <1>9 DEF n

(* ... of RollforwardBlock ... *)
RollforwardSolves(h, c, base, b, n) ==
    h = [s \in SUBSET (1..n) |->
           IF s = {} THEN c ELSE RollforwardTx(h[s \ {Max(s)}], base, Vtx[b][Max(s)], Height[b])]
RollforwardRun(run, c, base, b) ==
    /\ run[0] = c
    /\ \A i \in 1..Len(Vtx[b]) : run[i] = RollforwardTx(run[i - 1], base, Vtx[b][i], Height[b])

(* RollforwardBlock is one RollforwardTx after the other. *)
LEMMA RollforwardRuns ==
    ASSUME NEW c \in Caches, NEW base \in CoinMaps, NEW b \in Blocks
    PROVE  \E run \in [0..Len(Vtx[b]) -> Caches] :
              RollforwardRun(run, c, base, b) /\ RollforwardBlock(c, base, b) = run[Len(Vtx[b])]
<1> DEFINE n == Len(Vtx[b])
           F == [x \in Caches \X (1..n) |-> RollforwardTx(x[1], base, Vtx[b][x[2]], Height[b])]
           iter == CHOOSE h : RollforwardSolves(h, c, base, b, n)
<1>0. n \in Nat /\ DOMAIN Vtx[b] = 1..n /\ Height[b] \in Coins /\ \A i \in 1..n : Vtx[b][i] \in Txs
  BY CoinsAssumption, CoinHeights
<1>1. ASSUME NEW d \in Caches, NEW i \in 1..n
      PROVE  RollforwardTx(d, base, Vtx[b][i], Height[b]) \in Caches
  BY <1>0, StepsClosed
<1>2. F \in [Caches \X (1..n) -> Caches]
  BY <1>1
<1>3. \A d \in Caches : \A i \in 1..n : F[<<d, i>>] = RollforwardTx(d, base, Vtx[b][i], Height[b])
  OBVIOUS
<1> HIDE DEF F
<1>4. RollforwardSolves(iter, c, base, b, n)
  <2>1. PICK h \in [SUBSET (1..n) -> Caches] : FoldOf(h, F, c, n)
    <3> HIDE DEF n
    <3> QED
      BY <1>0, <1>2, FoldSolution
  <2>2. ASSUME NEW s \in SUBSET (1..n), s # {}
        PROVE  h[s] = RollforwardTx(h[s \ {Max(s)}], base, Vtx[b][Max(s)], Height[b])
    <3>1. Max(s) \in 1..n /\ h[s] = F[<<h[s \ {Max(s)}], Max(s)>>]
      BY <2>1, <2>2 DEF FoldOf
    <3>2. h[s \ {Max(s)}] \in Caches
      BY <2>1
    <3> HIDE DEF n
    <3> QED
      BY <1>3, <3>1, <3>2
  <2>3. h[{}] = c /\ h = [s \in SUBSET (1..n) |-> h[s]]
    BY <2>1 DEF FoldOf
  <2> HIDE DEF n
  <2>4. RollforwardSolves(h, c, base, b, n)
    BY <2>2, <2>3 DEF RollforwardSolves
  <2> QED
    BY <2>4
<1>5. RollforwardBlock(c, base, b) = iter[1..n]
  BY <1>0 DEF RollforwardBlock, FoldLeft, MapThenFoldSet, RollforwardSolves
<1> HIDE DEF iter, n
<1>6. FoldIn(iter, Caches, F, c, n)
  <2>1. \A s \in SUBSET (1..n) :
           s # {} => iter[s] = RollforwardTx(iter[s \ {Max(s)}], base, Vtx[b][Max(s)], Height[b])
    BY <1>4 DEF RollforwardSolves
  <2>2. iter[{}] = c
    BY <1>4 DEF RollforwardSolves
  <2> QED
    BY <1>0, <1>2, <1>3, <2>1, <2>2 DEF FoldIn
<1>7. PICK run : RunIn(run, iter, Caches, F, c, n)
  BY <1>6, FoldRun
<1>8. /\ run \in [0..n -> Caches] /\ run[0] = c /\ run[n] = iter[1..n]
      /\ \A i \in 1..n : run[i - 1] \in Caches /\ run[i] = F[<<run[i - 1], i>>]
  BY <1>7 DEF RunIn
<1>9. RollforwardRun(run, c, base, b)
  BY <1>3, <1>8 DEF RollforwardRun, n
<1> QED
  BY <1>5, <1>8, <1>9 DEF n

(* ... and of DisconnectBlock. *)
DisconnectSolves(h, c, base, b, n) ==
    h = [s \in SUBSET (1..n) |->
           IF s = {} THEN c ELSE Undone(h[s \ {Max(s)}], base, b, Backwards(b)[Max(s)])]
DisconnectRun(run, c, base, b) ==
    /\ run[0] = c
    /\ \A i \in 1..Len(Vtx[b]) : run[i] = Undone(run[i - 1], base, b, Backwards(b)[i])

(* DisconnectBlock undoes one transaction after the other. *)
LEMMA DisconnectRuns ==
    ASSUME NEW c \in Caches, NEW base \in CoinMaps, NEW b \in Blocks \ {Genesis}
    PROVE  \E run \in [0..Len(Vtx[b]) -> Caches] :
              DisconnectRun(run, c, base, b) /\ DisconnectBlock(c, base, b) = run[Len(Vtx[b])]
<1> DEFINE n == Len(Vtx[b])
           F == [x \in Caches \X (1..n) |-> Undone(x[1], base, b, Backwards(b)[x[2]])]
           iter == CHOOSE h : DisconnectSolves(h, c, base, b, n)
<1>0. n \in Nat /\ DOMAIN Backwards(b) = 1..n /\ \A i \in 1..n : Backwards(b)[i] \in 1..n
  BY BackwardsIs
<1>1. ASSUME NEW d \in Caches, NEW i \in 1..n
      PROVE  Undone(d, base, b, Backwards(b)[i]) \in Caches
  <2>1. PICK run : BlockRun(run, b)
    BY BlockRuns
  <2>2. CoinsBefore(b, Backwards(b)[i]) \in CoinMaps /\ Vtx[b][Backwards(b)[i]] \in Txs
    BY <1>0, <2>1 DEF BlockRun
  <2> QED
    BY <2>2, StepsClosed DEF Undone
<1>2. F \in [Caches \X (1..n) -> Caches]
  BY <1>1
<1>3. \A d \in Caches : \A i \in 1..n : F[<<d, i>>] = Undone(d, base, b, Backwards(b)[i])
  OBVIOUS
<1> HIDE DEF F
<1>4. DisconnectSolves(iter, c, base, b, n)
  <2>1. PICK h \in [SUBSET (1..n) -> Caches] : FoldOf(h, F, c, n)
    <3> HIDE DEF n
    <3> QED
      BY <1>0, <1>2, FoldSolution
  <2>2. ASSUME NEW s \in SUBSET (1..n), s # {}
        PROVE  h[s] = Undone(h[s \ {Max(s)}], base, b, Backwards(b)[Max(s)])
    <3>1. Max(s) \in 1..n /\ h[s] = F[<<h[s \ {Max(s)}], Max(s)>>]
      BY <2>1, <2>2 DEF FoldOf
    <3>2. h[s \ {Max(s)}] \in Caches
      BY <2>1
    <3> HIDE DEF n
    <3> QED
      BY <1>3, <3>1, <3>2
  <2>3. h[{}] = c /\ h = [s \in SUBSET (1..n) |-> h[s]]
    BY <2>1 DEF FoldOf
  <2> HIDE DEF n
  <2>4. DisconnectSolves(h, c, base, b, n)
    BY <2>2, <2>3 DEF DisconnectSolves
  <2> QED
    BY <2>4
<1>5. DisconnectBlock(c, base, b) = iter[1..n]
  <2>1. DisconnectBlock(c, base, b)
          = FoldLeft(LAMBDA d, i : DisconnectTx(d, base, Vtx[b][i], CoinsBefore(b, i)), c, Backwards(b))
    BY DEF DisconnectBlock, Backwards
  <2> QED
    BY <1>0, <2>1 DEF FoldLeft, MapThenFoldSet, DisconnectSolves, Undone
<1> HIDE DEF iter, n
<1>6. FoldIn(iter, Caches, F, c, n)
  <2>1. \A s \in SUBSET (1..n) :
           s # {} => iter[s] = Undone(iter[s \ {Max(s)}], base, b, Backwards(b)[Max(s)])
    BY <1>4 DEF DisconnectSolves
  <2>2. iter[{}] = c
    BY <1>4 DEF DisconnectSolves
  <2> QED
    BY <1>0, <1>2, <1>3, <2>1, <2>2 DEF FoldIn
<1>7. PICK run : RunIn(run, iter, Caches, F, c, n)
  BY <1>6, FoldRun
<1>8. /\ run \in [0..n -> Caches] /\ run[0] = c /\ run[n] = iter[1..n]
      /\ \A i \in 1..n : run[i - 1] \in Caches /\ run[i] = F[<<run[i - 1], i>>]
  BY <1>7 DEF RunIn
<1>9. DisconnectRun(run, c, base, b)
  BY <1>3, <1>8 DEF DisconnectRun, n
<1> QED
  BY <1>5, <1>8, <1>9 DEF n

-----------------------------------------------------------------------------
(* A cache over base with true flags that shows of every coin what x or y  *)
(* has.  A cache that shows x exactly is Between x and x.                  *)
Between(c, base, x, y) ==
    /\ c \in [Outpoints -> Entries \cup {none}]
    /\ \A o \in Outpoints : /\ Sound(c[o], base[o])
                            /\ GetCoin(c[o], base[o]) \in {x[o], y[o]}

(* A valid transaction over coins, in a block of this height. *)
ValidTx(coins, tx, nHeight) ==
    /\ coins \in CoinMaps /\ tx \in Txs /\ nHeight \in Coins \ {Spent}
    /\ \A o \in tx.spends : coins[o] # Spent
    /\ \A o \in tx.creates : coins[o] = Spent

(* A cache of sound entries. *)
LEMMA SoundCache ==
    ASSUME NEW base, NEW x, NEW y, NEW c, c = [o \in Outpoints |-> c[o]],
           \A o \in Outpoints : Sound(c[o], base[o]) /\ GetCoin(c[o], base[o]) \in {x[o], y[o]}
    PROVE  Between(c, base, x, y)
<1>1. \A o \in Outpoints : c[o] \in Entries \cup {none}
  BY DEF Sound
<1>2. c \in [Outpoints -> Entries \cup {none}]
  BY <1>1
<1> QED
  BY <1>2 DEF Between

(* UpdateCoins on a cache that shows exactly the coins before. *)
LEMMA ConnectStep ==
    ASSUME NEW base \in CoinMaps, NEW d, NEW coins, NEW tx, NEW nHeight,
           ValidTx(coins, tx, nHeight), Between(d, base, coins, coins)
    PROVE  Between(UpdateCoins(d, base, tx, nHeight), base,
                   Applied(coins, tx, nHeight), Applied(coins, tx, nHeight))
<1> DEFINE c == UpdateCoins(d, base, tx, nHeight)
           x == Applied(coins, tx, nHeight)
<1>1. c = [o \in Outpoints |-> c[o]]
  BY DEF UpdateCoins
<1>2. ASSUME NEW o \in Outpoints PROVE Sound(c[o], base[o]) /\ GetCoin(c[o], base[o]) = x[o]
  <2>1. /\ base[o] \in Coins /\ Sound(d[o], base[o]) /\ GetCoin(d[o], base[o]) = coins[o]
        /\ tx.coinbase \in BOOLEAN /\ nHeight \in Coins \ {Spent}
        /\ o \in tx.spends => coins[o] # Spent
        /\ o \in tx.creates => coins[o] = Spent
    BY DEF ValidTx, Between, CoinMaps, Txs
  <2>2. CASE o \in tx.spends
    <3>1. c[o] = SpendCoin(d[o], base[o]) /\ x[o] = Spent
      BY <2>1, <2>2 DEF UpdateCoins, Applied
    <3> QED
      BY <2>1, <3>1, SpendSound
  <2>3. CASE o \notin tx.spends /\ o \in tx.creates
    <3>1. c[o] = AddCoin(d[o], nHeight, tx.coinbase) /\ x[o] = nHeight
      BY <2>3 DEF UpdateCoins, Applied
    <3>2. PICK f \in BOOLEAN : f = tx.coinbase
      BY <2>1
    <3>3. /\ Sound(AddCoin(d[o], nHeight, f), base[o])
          /\ GetCoin(AddCoin(d[o], nHeight, f), base[o]) = nHeight
      BY <2>1, <2>3, AddSound
    <3> QED
      BY <3>1, <3>2, <3>3
  <2>4. CASE o \notin tx.spends /\ o \notin tx.creates
    <3>1. c[o] = d[o] /\ x[o] = coins[o]
      BY <2>4 DEF UpdateCoins, Applied
    <3> QED
      BY <2>1, <3>1
  <2> QED
    BY <2>2, <2>3, <2>4
<1> HIDE DEF c, x
<1>3. Between(c, base, x, x)
  BY <1>1, <1>2, SoundCache
<1> QED
  BY <1>3 DEF c, x

(* A transaction rolled forward, on coins that may have its effects. *)
LEMMA RollforwardStep ==
    ASSUME NEW base \in CoinMaps, NEW d, NEW coins, NEW tx, NEW nHeight, NEW y,
           ValidTx(coins, tx, nHeight), Between(d, base, coins, y)
    PROVE  Between(RollforwardTx(d, base, tx, nHeight), base, Applied(coins, tx, nHeight), y)
<1> DEFINE c == RollforwardTx(d, base, tx, nHeight)
           x == Applied(coins, tx, nHeight)
<1>1. c = [o \in Outpoints |-> c[o]]
  BY DEF RollforwardTx
<1>2. ASSUME NEW o \in Outpoints
      PROVE  Sound(c[o], base[o]) /\ GetCoin(c[o], base[o]) \in {x[o], y[o]}
  <2>1. /\ base[o] \in Coins /\ Sound(d[o], base[o])
        /\ GetCoin(d[o], base[o]) \in {coins[o], y[o]} /\ nHeight \in Coins \ {Spent}
        /\ o \in tx.spends => coins[o] # Spent
        /\ o \in tx.creates => coins[o] = Spent
    BY DEF ValidTx, Between, CoinMaps
  <2>2. CASE o \in tx.spends
    <3>1. c[o] = SpendCoin(d[o], base[o]) /\ x[o] = Spent
      BY <2>1, <2>2 DEF RollforwardTx, Applied
    <3> QED
      BY <2>1, <3>1, SpendSound
  <2>3. CASE o \notin tx.spends /\ o \in tx.creates
    <3>1. c[o] = AddChecked(d[o], base[o], nHeight) /\ x[o] = nHeight
      BY <2>3 DEF RollforwardTx, Applied
    <3> QED
      BY <2>1, <3>1, AddCheckedSound
  <2>4. CASE o \notin tx.spends /\ o \notin tx.creates
    <3>1. c[o] = d[o] /\ x[o] = coins[o]
      BY <2>4 DEF RollforwardTx, Applied
    <3> QED
      BY <2>1, <3>1
  <2> QED
    BY <2>2, <2>3, <2>4
<1> HIDE DEF c, x
<1>3. Between(c, base, x, y)
  BY <1>1, <1>2, SoundCache
<1> QED
  BY <1>3 DEF c, x

(* A transaction undone, on coins that may not have its effects. *)
LEMMA DisconnectStep ==
    ASSUME NEW base \in CoinMaps, NEW d, NEW coins, NEW tx, NEW nHeight, NEW y,
           ValidTx(coins, tx, nHeight), Between(d, base, Applied(coins, tx, nHeight), y)
    PROVE  Between(DisconnectTx(d, base, tx, coins), base, coins, y)
<1> DEFINE c == DisconnectTx(d, base, tx, coins)
           x == Applied(coins, tx, nHeight)
<1>1. c = [o \in Outpoints |-> c[o]]
  BY DEF DisconnectTx
<1>2. ASSUME NEW o \in Outpoints
      PROVE  Sound(c[o], base[o]) /\ GetCoin(c[o], base[o]) \in {coins[o], y[o]}
  <2>1. /\ base[o] \in Coins /\ Sound(d[o], base[o]) /\ coins[o] \in Coins
        /\ GetCoin(d[o], base[o]) \in {x[o], y[o]}
        /\ o \in tx.spends => coins[o] # Spent
        /\ o \in tx.creates => coins[o] = Spent
    BY DEF ValidTx, Between, CoinMaps
  <2>2. CASE o \in tx.creates
    <3>1. c[o] = SpendCoin(d[o], base[o]) /\ coins[o] = Spent
      BY <2>1, <2>2 DEF DisconnectTx
    <3> QED
      BY <2>1, <3>1, SpendSound
  <2>3. CASE o \notin tx.creates /\ o \in tx.spends
    <3>1. c[o] = AddChecked(d[o], base[o], coins[o])
      BY <2>3 DEF DisconnectTx
    <3> QED
      BY <2>1, <2>3, <3>1, AddCheckedSound
  <2>4. CASE o \notin tx.creates /\ o \notin tx.spends
    <3>1. c[o] = d[o] /\ x[o] = coins[o]
      BY <2>4 DEF DisconnectTx, Applied
    <3> QED
      BY <2>1, <3>1
  <2> QED
    BY <2>2, <2>3, <2>4
<1> HIDE DEF c, x
<1>3. Between(c, base, coins, y)
  BY <1>1, <1>2, SoundCache
<1> QED
  BY <1>3 DEF c

(* The transactions of a block are valid where they are. *)
LEMMA BlockTxValid ==
    ASSUME NEW b \in Blocks \ {Genesis}, NEW u, BlockRun(u, b), NEW i \in 1..Len(Vtx[b])
    PROVE  /\ ValidTx(u[i - 1], Vtx[b][i], Height[b])
           /\ u[i] = Applied(u[i - 1], Vtx[b][i], Height[b])
           /\ CoinsBefore(b, i) = u[i - 1]
BY CoinHeights DEF BlockRun, ValidTx

(* What is between two sets of coins is a cache. *)
LEMMA BetweenIsCache ==
    ASSUME NEW c, NEW base, NEW x, NEW y, Between(c, base, x, y)
    PROVE  c \in Caches
<1>1. Entries \cup {none} \subseteq Slots
  BY CoinHeights DEF Entries, Slots
<1> QED
  BY <1>1 DEF Between, Caches

(* The empty cache shows the base. *)
LEMMA EmptyBetween ==
    ASSUME NEW base, NEW x, NEW y, \A o \in Outpoints : base[o] \in {x[o], y[o]}
    PROVE  Between(NoEntries, base, x, y)
<1>1. NoEntries = [o \in Outpoints |-> NoEntries[o]] /\ \A o \in Outpoints : NoEntries[o] = none
  BY DEF NoEntries
<1> QED
  BY <1>1, NoneSound, SoundCache

(* ConnectBlock, on the coins after the parent. *)
LEMMA ConnectedBlock ==
    ASSUME NEW b \in Blocks \ {Genesis}
    PROVE  Between(ConnectBlock(NoEntries, Utxo[Parent[b]], b), Utxo[Parent[b]], Utxo[b], Utxo[b])
<1> DEFINE base == Utxo[Parent[b]]
           n == Len(Vtx[b])
<1>0. n \in Nat /\ base \in CoinMaps
  BY CoinsAssumption, Utxos DEF Hashes
<1>1. PICK u : BlockRun(u, b)
  BY BlockRuns
<1>2. Between(NoEntries, base, base, base)
  BY EmptyBetween
<1>3. NoEntries \in Caches
  BY <1>2, BetweenIsCache
<1> HIDE DEF base
<1>4. PICK r : ConnectRun(r, NoEntries, base, b) /\ ConnectBlock(NoEntries, base, b) = r[n]
  BY <1>0, <1>3, ConnectRuns
<1> DEFINE T == {i \in Nat : i <= n => Between(r[i], base, u[i], u[i])}
<1>5. 0 \in T
  <2>1. r[0] = NoEntries /\ u[0] = base
    BY <1>1, <1>4 DEF ConnectRun, BlockRun, base
  <2> QED
    BY <1>2, <2>1
<1>6. ASSUME NEW i \in Nat \ {0}, i - 1 \in T PROVE i \in T
  <2> SUFFICES ASSUME i <= n PROVE Between(r[i], base, u[i], u[i])
    OBVIOUS
  <2>1. i \in 1..n /\ Between(r[i - 1], base, u[i - 1], u[i - 1])
    BY <1>0, <1>6
  <2>2. /\ ValidTx(u[i - 1], Vtx[b][i], Height[b])
        /\ u[i] = Applied(u[i - 1], Vtx[b][i], Height[b])
    BY <1>1, <2>1, BlockTxValid
  <2>3. r[i] = UpdateCoins(r[i - 1], base, Vtx[b][i], Height[b])
    BY <1>4, <2>1 DEF ConnectRun
  <2> QED
    BY <1>0, <2>1, <2>2, <2>3, ConnectStep
<1> HIDE DEF T
<1>7. n \in T
  BY <1>0, <1>5, <1>6, InductiveSet
<1>8. Between(r[n], base, u[n], u[n])
  BY <1>0, <1>7 DEF T
<1>9. u[n] = Utxo[b]
  BY <1>1 DEF BlockRun
<1> QED
  BY <1>4, <1>8, <1>9 DEF base

(* RollforwardBlock, on coins some of which are y already. *)
LEMMA RolledBlock ==
    ASSUME NEW b \in Blocks \ {Genesis}, NEW base \in CoinMaps, NEW c, NEW y,
           Between(c, base, Utxo[Parent[b]], y)
    PROVE  Between(RollforwardBlock(c, base, b), base, Utxo[b], y)
<1> DEFINE n == Len(Vtx[b])
<1>0. n \in Nat /\ c \in Caches
  BY CoinsAssumption, BetweenIsCache
<1>1. PICK u : BlockRun(u, b)
  BY BlockRuns
<1>2. PICK r : RollforwardRun(r, c, base, b) /\ RollforwardBlock(c, base, b) = r[n]
  BY <1>0, RollforwardRuns
<1> DEFINE T == {i \in Nat : i <= n => Between(r[i], base, u[i], y)}
<1>3. 0 \in T
  <2>1. r[0] = c /\ u[0] = Utxo[Parent[b]]
    BY <1>1, <1>2 DEF RollforwardRun, BlockRun
  <2> QED
    BY <2>1
<1>4. ASSUME NEW i \in Nat \ {0}, i - 1 \in T PROVE i \in T
  <2> SUFFICES ASSUME i <= n PROVE Between(r[i], base, u[i], y)
    OBVIOUS
  <2>1. i \in 1..n /\ Between(r[i - 1], base, u[i - 1], y)
    BY <1>0, <1>4
  <2>2. /\ ValidTx(u[i - 1], Vtx[b][i], Height[b])
        /\ u[i] = Applied(u[i - 1], Vtx[b][i], Height[b])
    BY <1>1, <2>1, BlockTxValid
  <2>3. r[i] = RollforwardTx(r[i - 1], base, Vtx[b][i], Height[b])
    BY <1>2, <2>1 DEF RollforwardRun
  <2> QED
    BY <2>1, <2>2, <2>3, RollforwardStep
<1> HIDE DEF T
<1>5. n \in T
  BY <1>0, <1>3, <1>4, InductiveSet
<1>6. Between(r[n], base, u[n], y)
  BY <1>0, <1>5 DEF T
<1>7. u[n] = Utxo[b]
  BY <1>1 DEF BlockRun
<1> QED
  BY <1>2, <1>6, <1>7

(* DisconnectBlock, on coins some of which are y already. *)
LEMMA DisconnectedBlock ==
    ASSUME NEW b \in Blocks \ {Genesis}, NEW base \in CoinMaps, NEW c, NEW y,
           Between(c, base, Utxo[b], y)
    PROVE  Between(DisconnectBlock(c, base, b), base, Utxo[Parent[b]], y)
<1> DEFINE n == Len(Vtx[b])
<1>0. n \in Nat /\ c \in Caches
  BY CoinsAssumption, BetweenIsCache
<1>1. PICK u : BlockRun(u, b)
  BY BlockRuns
<1>2. PICK r : DisconnectRun(r, c, base, b) /\ DisconnectBlock(c, base, b) = r[n]
  BY <1>0, DisconnectRuns
<1> DEFINE T == {i \in Nat : i <= n => Between(r[i], base, u[n - i], y)}
<1>3. 0 \in T
  <2>1. r[0] = c /\ u[n] = Utxo[b] /\ n - 0 = n
    BY <1>0, <1>1, <1>2 DEF DisconnectRun, BlockRun
  <2> HIDE DEF n
  <2> QED
    BY <2>1
<1>4. ASSUME NEW i \in Nat \ {0}, i - 1 \in T PROVE i \in T
  <2> SUFFICES ASSUME i <= n PROVE Between(r[i], base, u[n - i], y)
    OBVIOUS
  <2> DEFINE j == n + 1 - i
  <2>1. i \in 1..n /\ j \in 1..n /\ n - (i - 1) = j /\ n - i = j - 1
    BY <1>0
  <2>2. Between(r[i - 1], base, u[j], y)
    BY <1>4, <2>1
  <2>3. Backwards(b)[i] = j
    BY <2>1, BackwardsIs
  <2> HIDE DEF j
  <2>4. /\ ValidTx(u[j - 1], Vtx[b][j], Height[b])
        /\ u[j] = Applied(u[j - 1], Vtx[b][j], Height[b])
        /\ CoinsBefore(b, j) = u[j - 1]
    BY <1>1, <2>1, BlockTxValid
  <2>5. r[i] = DisconnectTx(r[i - 1], base, Vtx[b][j], u[j - 1])
    BY <1>2, <2>1, <2>3, <2>4 DEF DisconnectRun, Undone
  <2>6. Between(r[i], base, u[j - 1], y)
    BY <2>2, <2>4, <2>5, DisconnectStep
  <2> QED
    BY <2>1, <2>6
<1> HIDE DEF T
<1>5. n \in T
  BY <1>0, <1>3, <1>4, InductiveSet
<1>6. Between(r[n], base, u[0], y)
  <2>1. n - n = 0 /\ n <= n
    BY <1>0
  <2> QED
    BY <1>5, <2>1 DEF T
<1>7. u[0] = Utxo[Parent[b]]
  BY <1>1 DEF BlockRun
<1> QED
  BY <1>2, <1>6, <1>7

(* The cache at each block of the way back of ReplayBlocks ... *)
BackSolves(h, c, base, branch, n) ==
    h = [s \in SUBSET (1..n) |->
           IF s = {} THEN c ELSE DisconnectBlock(h[s \ {Max(s)}], base, branch[Max(s)])]
BackRun(run, c, base, branch) ==
    /\ run[0] = c
    /\ \A i \in 1..Len(branch) : run[i] = DisconnectBlock(run[i - 1], base, branch[i])

(* RolledBack disconnects one block after the other. *)
LEMMA BackRuns ==
    ASSUME NEW c \in Caches, c = NoEntries, NEW base \in CoinMaps,
           NEW branch \in Seq(Blocks \ {Genesis})
    PROVE  \E run \in [0..Len(branch) -> Caches] :
              BackRun(run, c, base, branch) /\ RolledBack(base, branch) = run[Len(branch)]
<1> DEFINE n == Len(branch)
           F == [x \in Caches \X (1..n) |-> DisconnectBlock(x[1], base, branch[x[2]])]
           iter == CHOOSE h : BackSolves(h, c, base, branch, n)
<1>0. n \in Nat /\ DOMAIN branch = 1..n /\ \A i \in 1..n : branch[i] \in Blocks \ {Genesis}
  OBVIOUS
<1>1. ASSUME NEW d \in Caches, NEW i \in 1..n
      PROVE  DisconnectBlock(d, base, branch[i]) \in Caches
  <2>1. branch[i] \in Blocks \ {Genesis} /\ Len(Vtx[branch[i]]) \in 0..Len(Vtx[branch[i]])
    BY <1>0, CoinsAssumption
  <2>2. PICK run \in [0..Len(Vtx[branch[i]]) -> Caches] :
           DisconnectBlock(d, base, branch[i]) = run[Len(Vtx[branch[i]])]
    BY <2>1, DisconnectRuns
  <2> QED
    BY <2>1, <2>2
<1>2. F \in [Caches \X (1..n) -> Caches]
  BY <1>1
<1>3. \A d \in Caches : \A i \in 1..n : F[<<d, i>>] = DisconnectBlock(d, base, branch[i])
  OBVIOUS
<1> HIDE DEF F
<1>4. BackSolves(iter, c, base, branch, n)
  <2>1. PICK h \in [SUBSET (1..n) -> Caches] : FoldOf(h, F, c, n)
    <3> HIDE DEF n
    <3> QED
      BY <1>0, <1>2, FoldSolution
  <2>2. ASSUME NEW s \in SUBSET (1..n), s # {}
        PROVE  h[s] = DisconnectBlock(h[s \ {Max(s)}], base, branch[Max(s)])
    <3>1. Max(s) \in 1..n /\ h[s] = F[<<h[s \ {Max(s)}], Max(s)>>]
      BY <2>1, <2>2 DEF FoldOf
    <3>2. h[s \ {Max(s)}] \in Caches
      BY <2>1
    <3> HIDE DEF n
    <3> QED
      BY <1>3, <3>1, <3>2
  <2>3. h[{}] = c /\ h = [s \in SUBSET (1..n) |-> h[s]]
    BY <2>1 DEF FoldOf
  <2> HIDE DEF n
  <2>4. BackSolves(h, c, base, branch, n)
    BY <2>2, <2>3 DEF BackSolves
  <2> QED
    BY <2>4
<1>5. RolledBack(base, branch) = iter[1..n]
  BY <1>0 DEF RolledBack, FoldLeft, MapThenFoldSet, BackSolves
<1> HIDE DEF iter, n
<1>6. FoldIn(iter, Caches, F, c, n)
  <2>1. \A s \in SUBSET (1..n) :
           s # {} => iter[s] = DisconnectBlock(iter[s \ {Max(s)}], base, branch[Max(s)])
    BY <1>4 DEF BackSolves
  <2>2. iter[{}] = c
    BY <1>4 DEF BackSolves
  <2> QED
    BY <1>0, <1>2, <1>3, <2>1, <2>2 DEF FoldIn
<1>7. PICK run : RunIn(run, iter, Caches, F, c, n)
  BY <1>6, FoldRun
<1>8. /\ run \in [0..n -> Caches] /\ run[0] = c /\ run[n] = iter[1..n]
      /\ \A i \in 1..n : run[i - 1] \in Caches /\ run[i] = F[<<run[i - 1], i>>]
  BY <1>7 DEF RunIn
<1>9. BackRun(run, c, base, branch)
  BY <1>3, <1>8 DEF BackRun, n
<1> QED
  BY <1>5, <1>8, <1>9 DEF n

(* ... and of the way forward. *)
ForwardSolves(h, c, base, branch, n) ==
    h = [s \in SUBSET (1..n) |->
           IF s = {} THEN c ELSE RollforwardBlock(h[s \ {Max(s)}], base, branch[Max(s)])]
ForwardRun(run, c, base, branch) ==
    /\ run[0] = c
    /\ \A i \in 1..Len(branch) : run[i] = RollforwardBlock(run[i - 1], base, branch[i])

(* RolledForward rolls one block after the other forward. *)
LEMMA ForwardRuns ==
    ASSUME NEW c \in Caches, NEW base \in CoinMaps, NEW branch \in Seq(Blocks \ {Genesis})
    PROVE  \E run \in [0..Len(branch) -> Caches] :
              ForwardRun(run, c, base, branch) /\ RolledForward(c, base, branch) = run[Len(branch)]
<1> DEFINE n == Len(branch)
           F == [x \in Caches \X (1..n) |-> RollforwardBlock(x[1], base, branch[x[2]])]
           iter == CHOOSE h : ForwardSolves(h, c, base, branch, n)
<1>0. n \in Nat /\ DOMAIN branch = 1..n /\ \A i \in 1..n : branch[i] \in Blocks \ {Genesis}
  OBVIOUS
<1>1. ASSUME NEW d \in Caches, NEW i \in 1..n
      PROVE  RollforwardBlock(d, base, branch[i]) \in Caches
  <2>1. branch[i] \in Blocks \ {Genesis} /\ Len(Vtx[branch[i]]) \in 0..Len(Vtx[branch[i]])
    BY <1>0, CoinsAssumption
  <2>2. PICK run \in [0..Len(Vtx[branch[i]]) -> Caches] :
           RollforwardBlock(d, base, branch[i]) = run[Len(Vtx[branch[i]])]
    BY <2>1, RollforwardRuns
  <2> QED
    BY <2>1, <2>2
<1>2. F \in [Caches \X (1..n) -> Caches]
  BY <1>1
<1>3. \A d \in Caches : \A i \in 1..n : F[<<d, i>>] = RollforwardBlock(d, base, branch[i])
  OBVIOUS
<1> HIDE DEF F
<1>4. ForwardSolves(iter, c, base, branch, n)
  <2>1. PICK h \in [SUBSET (1..n) -> Caches] : FoldOf(h, F, c, n)
    <3> HIDE DEF n
    <3> QED
      BY <1>0, <1>2, FoldSolution
  <2>2. ASSUME NEW s \in SUBSET (1..n), s # {}
        PROVE  h[s] = RollforwardBlock(h[s \ {Max(s)}], base, branch[Max(s)])
    <3>1. Max(s) \in 1..n /\ h[s] = F[<<h[s \ {Max(s)}], Max(s)>>]
      BY <2>1, <2>2 DEF FoldOf
    <3>2. h[s \ {Max(s)}] \in Caches
      BY <2>1
    <3> HIDE DEF n
    <3> QED
      BY <1>3, <3>1, <3>2
  <2>3. h[{}] = c /\ h = [s \in SUBSET (1..n) |-> h[s]]
    BY <2>1 DEF FoldOf
  <2> HIDE DEF n
  <2>4. ForwardSolves(h, c, base, branch, n)
    BY <2>2, <2>3 DEF ForwardSolves
  <2> QED
    BY <2>4
<1>5. RolledForward(c, base, branch) = iter[1..n]
  BY <1>0 DEF RolledForward, FoldLeft, MapThenFoldSet, ForwardSolves
<1> HIDE DEF iter, n
<1>6. FoldIn(iter, Caches, F, c, n)
  <2>1. \A s \in SUBSET (1..n) :
           s # {} => iter[s] = RollforwardBlock(iter[s \ {Max(s)}], base, branch[Max(s)])
    BY <1>4 DEF ForwardSolves
  <2>2. iter[{}] = c
    BY <1>4 DEF ForwardSolves
  <2> QED
    BY <1>0, <1>2, <1>3, <2>1, <2>2 DEF FoldIn
<1>7. PICK run : RunIn(run, iter, Caches, F, c, n)
  BY <1>6, FoldRun
<1>8. /\ run \in [0..n -> Caches] /\ run[0] = c /\ run[n] = iter[1..n]
      /\ \A i \in 1..n : run[i - 1] \in Caches /\ run[i] = F[<<run[i - 1], i>>]
  BY <1>7 DEF RunIn
<1>9. ForwardRun(run, c, base, branch)
  BY <1>3, <1>8 DEF ForwardRun, n
<1> QED
  BY <1>5, <1>8, <1>9 DEF n

(* The branch above a height, in both directions. *)
LEMMA BranchBlocks ==
    ASSUME NEW b \in Blocks, NEW k \in 0..Height[b]
    PROVE  /\ Height[b] - k \in Nat
           /\ Downward(b, k) \in Seq(Blocks \ {Genesis}) /\ Len(Downward(b, k)) = Height[b] - k
           /\ Upward(b, k) \in Seq(Blocks \ {Genesis}) /\ Len(Upward(b, k)) = Height[b] - k
           /\ \A i \in 1..(Height[b] - k) :
                 /\ Downward(b, k)[i] = GetAncestor(b, Height[b] + 1 - i)
                 /\ Parent[Downward(b, k)[i]] = GetAncestor(b, Height[b] - i)
                 /\ Upward(b, k)[i] = GetAncestor(b, k + i)
                 /\ Parent[Upward(b, k)[i]] = GetAncestor(b, k + i - 1)
<1> DEFINE H == Height[b]
           n == H - k
<1>0. H \in Nat /\ k \in Nat /\ n \in Nat /\ k \in 0..H
  BY Heights DEF Hashes
<1>1. ASSUME NEW h \in 0..H, h # 0
      PROVE  GetAncestor(b, h) \in Blocks \ {Genesis} /\ Parent[GetAncestor(b, h)] = GetAncestor(b, h - 1)
  BY <1>1, AncestorAt
<1> HIDE DEF H
<1>2. ASSUME NEW i \in 1..n
      PROVE  /\ H + 1 - i \in 0..H /\ H + 1 - i # 0 /\ (H + 1 - i) - 1 = H - i
             /\ k + i \in 0..H /\ k + i # 0
  BY <1>0
<1>3. \A i \in 1..n : /\ GetAncestor(b, H + 1 - i) \in Blocks \ {Genesis}
                      /\ Parent[GetAncestor(b, H + 1 - i)] = GetAncestor(b, H - i)
  BY <1>1, <1>2
<1>4. \A i \in 1..n : /\ GetAncestor(b, k + i) \in Blocks \ {Genesis}
                      /\ Parent[GetAncestor(b, k + i)] = GetAncestor(b, k + i - 1)
  BY <1>1, <1>2
<1> HIDE DEF n
<1>5. /\ Downward(b, k) = [i \in 1..n |-> GetAncestor(b, H + 1 - i)]
      /\ Upward(b, k) = [i \in 1..n |-> GetAncestor(b, k + i)]
  BY DEF Downward, Upward, H, n
<1>6. Downward(b, k) \in [1..n -> Blocks \ {Genesis}] /\ Upward(b, k) \in [1..n -> Blocks \ {Genesis}]
  BY <1>3, <1>4, <1>5
<1>7. \A s \in [1..n -> Blocks \ {Genesis}] : s \in Seq(Blocks \ {Genesis}) /\ Len(s) = n
  BY <1>0
<1> QED
  BY <1>0, <1>3, <1>4, <1>5, <1>6, <1>7 DEF H, n

(* Back from b to the block at height k, on coins some of which are y. *)
LEMMA BackBetween ==
    ASSUME NEW b \in Blocks, NEW k \in 0..Height[b], NEW base \in CoinMaps, NEW y,
           \A o \in Outpoints : base[o] \in {Utxo[b][o], y[o]}
    PROVE  Between(RolledBack(base, Downward(b, k)), base, Utxo[GetAncestor(b, k)], y)
<1> DEFINE H == Height[b]
           n == H - k
           branch == Downward(b, k)
<1>0. H \in Nat /\ k \in Nat /\ n \in Nat /\ k \in 0..H
  BY Heights DEF Hashes
<1>1. /\ branch \in Seq(Blocks \ {Genesis}) /\ Len(branch) = n
      /\ \A i \in 1..n : /\ branch[i] = GetAncestor(b, H + 1 - i)
                         /\ Parent[branch[i]] = GetAncestor(b, H - i)
  BY BranchBlocks
<1>2. GetAncestor(b, H) = b
  <2>1. b \in Ancestors[b] /\ H \in 0..H
    BY <1>0, Branches DEF BranchTo
  <2> QED
    BY <2>1, AncestorAt
<1> HIDE DEF branch
<1>3. Between(NoEntries, base, Utxo[b], y) /\ NoEntries \in Caches
  BY EmptyBetween, BetweenIsCache
<1>4. PICK r : BackRun(r, NoEntries, base, branch) /\ RolledBack(base, branch) = r[n]
  BY <1>1, <1>3, BackRuns
<1> DEFINE T == {i \in Nat : i <= n => Between(r[i], base, Utxo[GetAncestor(b, H - i)], y)}
<1> HIDE DEF H
<1>5. 0 \in T
  <2>1. r[0] = NoEntries /\ H - 0 = H
    BY <1>0, <1>4 DEF BackRun
  <2> QED
    BY <1>2, <1>3, <2>1
<1>6. ASSUME NEW i \in Nat \ {0}, i - 1 \in T PROVE i \in T
  <2> SUFFICES ASSUME i <= n PROVE Between(r[i], base, Utxo[GetAncestor(b, H - i)], y)
    OBVIOUS
  <2>1. i \in 1..n /\ H - (i - 1) = H + 1 - i /\ i - 1 <= n
    BY <1>0
  <2>2. /\ branch[i] \in Blocks \ {Genesis} /\ branch[i] = GetAncestor(b, H + 1 - i)
        /\ Parent[branch[i]] = GetAncestor(b, H - i)
    BY <1>1, <2>1
  <2>3. Between(r[i - 1], base, Utxo[branch[i]], y)
    BY <1>6, <2>1, <2>2
  <2>4. r[i] = DisconnectBlock(r[i - 1], base, branch[i])
    BY <1>1, <1>4, <2>1 DEF BackRun
  <2> QED
    BY <2>2, <2>3, <2>4, DisconnectedBlock
<1>7. n \in T
  <2> HIDE DEF T
  <2> QED
    BY <1>0, <1>5, <1>6, InductiveSet
<1>8. H - n = k /\ n <= n
  BY <1>0
<1> HIDE DEF n
<1>9. Between(r[n], base, Utxo[GetAncestor(b, k)], y)
  BY <1>7, <1>8
<1> QED
  BY <1>4, <1>9 DEF branch

(* Forward from the block at height k to b. *)
LEMMA ForwardBetween ==
    ASSUME NEW b \in Blocks, NEW k \in 0..Height[b], NEW base \in CoinMaps, NEW c, NEW y,
           Between(c, base, Utxo[GetAncestor(b, k)], y)
    PROVE  Between(RolledForward(c, base, Upward(b, k)), base, Utxo[b], y)
<1> DEFINE H == Height[b]
           n == H - k
           branch == Upward(b, k)
<1>0. H \in Nat /\ k \in Nat /\ n \in Nat /\ k \in 0..H
  BY Heights DEF Hashes
<1>1. /\ branch \in Seq(Blocks \ {Genesis}) /\ Len(branch) = n
      /\ \A i \in 1..n : /\ branch[i] = GetAncestor(b, k + i)
                         /\ Parent[branch[i]] = GetAncestor(b, k + i - 1)
  BY BranchBlocks
<1>2. GetAncestor(b, H) = b
  <2>1. b \in Ancestors[b] /\ H \in 0..H
    BY <1>0, Branches DEF BranchTo
  <2> QED
    BY <2>1, AncestorAt
<1> HIDE DEF branch
<1>3. c \in Caches
  BY BetweenIsCache
<1>4. PICK r : ForwardRun(r, c, base, branch) /\ RolledForward(c, base, branch) = r[n]
  BY <1>1, <1>3, ForwardRuns
<1> DEFINE T == {i \in Nat : i <= n => Between(r[i], base, Utxo[GetAncestor(b, k + i)], y)}
<1> HIDE DEF H
<1>5. 0 \in T
  <2>1. r[0] = c /\ k + 0 = k
    BY <1>0, <1>4 DEF ForwardRun
  <2> QED
    BY <2>1
<1>6. ASSUME NEW i \in Nat \ {0}, i - 1 \in T PROVE i \in T
  <2> SUFFICES ASSUME i <= n PROVE Between(r[i], base, Utxo[GetAncestor(b, k + i)], y)
    OBVIOUS
  <2>1. i \in 1..n /\ k + (i - 1) = k + i - 1 /\ i - 1 <= n
    BY <1>0
  <2>2. /\ branch[i] \in Blocks \ {Genesis} /\ branch[i] = GetAncestor(b, k + i)
        /\ Parent[branch[i]] = GetAncestor(b, k + i - 1)
    BY <1>1, <2>1
  <2>3. Between(r[i - 1], base, Utxo[Parent[branch[i]]], y)
    BY <1>6, <2>1, <2>2
  <2>4. r[i] = RollforwardBlock(r[i - 1], base, branch[i])
    BY <1>1, <1>4, <2>1 DEF ForwardRun
  <2> QED
    BY <2>2, <2>3, <2>4, RolledBlock
<1>7. n \in T
  <2> HIDE DEF T
  <2> QED
    BY <1>0, <1>5, <1>6, InductiveSet
<1>8. k + n = H /\ n <= n
  BY <1>0
<1> HIDE DEF n
<1>9. Between(r[n], base, Utxo[b], y)
  BY <1>2, <1>7, <1>8
<1> QED
  BY <1>4, <1>9 DEF branch

(* ReplayBlocks on a database in transition from one block to another,     *)
(* each coin of which is as after one of the two: it shows the coins after *)
(* the new one, whatever the branches are.                                 *)
LEMMA ReplayedCoins ==
    ASSUME NEW new \in Blocks, NEW old \in Hashes, NEW coins \in CoinMaps,
           \A o \in Outpoints : coins[o] \in {Utxo[old][o], Utxo[new][o]}
    PROVE  Between(Replayed(coins, new, old), coins, Utxo[new], Utxo[new])
<1> DEFINE k == IF old = Null THEN 0 ELSE Height[LastCommonAncestor(old, new)]
           back == RolledBack(coins, Downward(old, k))
<1>1. Replayed(coins, new, old) = RolledForward(back, coins, Upward(new, k))
  BY DEF Replayed
<1>2. k \in 0..Height[new] /\ Between(back, coins, Utxo[GetAncestor(new, k)], Utxo[new])
  <2>1. CASE old = Null
    <3>1. k = 0 /\ Height[old] - 0 = 0
      BY <2>1, Heights
    <3>2. Height[new] \in Nat /\ 0 \in 0..Height[new]
      BY Heights DEF Hashes
    <3>3. Genesis \in Ancestors[new] /\ Height[Genesis] = 0
      BY Branches, Heights DEF BranchTo
    <3>4. GetAncestor(new, 0) = Genesis
      BY <3>2, <3>3, AncestorAt
    <3>5. Utxo[GetAncestor(new, 0)] = Utxo[old]
      BY <2>1, <3>4, Utxos
    <3>6. Between(NoEntries, coins, Utxo[old], Utxo[new]) /\ NoEntries \in Caches
      BY EmptyBetween, BetweenIsCache
    <3> DEFINE branch == Downward(old, k)
    <3>7. branch \in Seq(Blocks \ {Genesis}) /\ Len(branch) = 0
      <4>1. branch = [i \in 1..0 |-> GetAncestor(old, Height[old] + 1 - i)]
        BY <3>1 DEF Downward
      <4>2. branch = <<>>
        BY <4>1
      <4> HIDE DEF branch
      <4> QED
        BY <4>2
    <3> HIDE DEF branch
    <3>8. PICK r : BackRun(r, NoEntries, coins, branch) /\ RolledBack(coins, branch) = r[0]
      BY <3>6, <3>7, BackRuns
    <3>9. back = NoEntries
      BY <3>8 DEF BackRun, branch
    <3> QED
      BY <3>1, <3>2, <3>5, <3>6, <3>9
  <2>2. CASE old # Null
    <3>1. old \in Blocks /\ k = Height[LastCommonAncestor(old, new)]
      BY <2>2 DEF Hashes
    <3> HIDE DEF k
    <3>2. k \in 0..Height[old] /\ k \in 0..Height[new] /\ GetAncestor(old, k) = GetAncestor(new, k)
      BY <3>1, Forks
    <3>3. Between(back, coins, Utxo[GetAncestor(old, k)], Utxo[new])
      BY <3>1, <3>2, BackBetween
    <3> QED
      BY <3>2, <3>3
  <2> QED
    BY <2>1, <2>2
<1> HIDE DEF back, k
<1> QED
  BY <1>1, <1>2, ForwardBetween

-----------------------------------------------------------------------------
(* While the node is up, its cache shows the coins of its tip, and what is *)
(* clean in it is what the database has: also between two batches.  Only   *)
(* what a failed Sync took for written is as the database has it, or clean *)
(* without having been written.                                            *)
Up == {"running", "files", "coins", "replay", "aborting"}
Shows(e, base, coin) == GetCoin(e, base) = coin /\ (e # none /\ ~e.dirty => e.coin = base)
ShowsTip ==
    pc \in Up =>
        \A o \in Outpoints \ forgotten : Shows(cacheCoins[o], db.coins[o], Utxo[hashBlock][o])
ForgottenClean == pc \in Up => forgotten \cap Dirty = {}

(* FRESH can be relied on, unless some of the coins have been written. *)
FreshTrue ==
    pc \in Up /\ db.heads = <<>> =>
        \A o \in Outpoints : cacheCoins[o] # none /\ cacheCoins[o].fresh => db.coins[o] = Spent

(* A database that is being moved from one tip to another has each coin    *)
(* from one of the two.                                                    *)
ImageOK(image) ==
    IF image.heads = <<>> THEN image.coins = Utxo[image.best]
    ELSE /\ image.best = Null
         /\ \A o \in Outpoints : image.coins[o] \in {Utxo[image.heads[2]][o], Utxo[image.heads[1]][o]}

(* No block is connected until it has been moved to the one it names. *)
OneTarget == db.heads # <<>> => pc # "running" /\ (pc \in Up => hashBlock = db.heads[1])

StoreOK ==
    /\ cacheCoins \in [Outpoints -> Entries \cup {none}]
    /\ db \in Databases /\ stable \in Databases

CoinsInv ==
    StoreOK /\ ShowsTip /\ ForgottenClean /\ FreshTrue /\ ImageOK(db) /\ ImageOK(stable) /\ OneTarget

(* What is in a database. *)
LEMMA ImageParts ==
    ASSUME NEW image \in Databases
    PROVE  /\ image.coins \in CoinMaps /\ image.best \in Hashes /\ image.heads \in Markers
           /\ \A o \in Outpoints : image.coins[o] \in Coins
           /\ image.heads # <<>> => image.heads[1] \in Blocks /\ image.heads[2] \in Hashes
<1>1. image.coins \in CoinMaps /\ image.best \in Hashes /\ image.heads \in Markers
  BY DEF Databases, CoinMaps, Hashes, Markers
<1>2. \A o \in Outpoints : image.coins[o] \in Coins
  BY <1>1 DEF CoinMaps
<1>3. image.heads # <<>> => image.heads[1] \in Blocks /\ image.heads[2] \in Hashes
  BY <1>1 DEF Markers
<1> QED
  BY <1>1, <1>2, <1>3

(* The coins of a tip. *)
LEMMA UtxoCoins == \A b \in Hashes : \A o \in Outpoints : Utxo[b][o] \in Coins
BY Utxos DEF CoinMaps

(* While no batch has been written, the cache is a sound one. *)
LEMMA SoundUp ==
    ASSUME CoinsInv, pc \in Up, forgotten = {}, db.heads = <<>>
    PROVE  Between(cacheCoins, db.coins, Utxo[hashBlock], Utxo[hashBlock])
<1>1. ASSUME NEW o \in Outpoints
      PROVE  /\ Sound(cacheCoins[o], db.coins[o])
             /\ GetCoin(cacheCoins[o], db.coins[o]) = Utxo[hashBlock][o]
  <2>1. cacheCoins[o] \in Entries \cup {none}
    BY DEF CoinsInv, StoreOK
  <2>2. Shows(cacheCoins[o], db.coins[o], Utxo[hashBlock][o])
    BY DEF CoinsInv, ShowsTip
  <2>3. cacheCoins[o] # none /\ cacheCoins[o].fresh => db.coins[o] = Spent
    BY DEF CoinsInv, FreshTrue
  <2> QED
    BY <2>1, <2>2, <2>3 DEF Sound, Shows
<1> QED
  BY <1>1 DEF Between, CoinsInv, StoreOK

(* A sound cache shows what it is for. *)
LEMMA SoundShows ==
    ASSUME NEW c, NEW base, NEW x, Between(c, base, x, x)
    PROVE  /\ c \in [Outpoints -> Entries \cup {none}]
           /\ \A o \in Outpoints : Shows(c[o], base[o], x[o])
           /\ \A o \in Outpoints : c[o] # none /\ c[o].fresh => base[o] = Spent
<1>1. ASSUME NEW o \in Outpoints
      PROVE  Shows(c[o], base[o], x[o]) /\ (c[o] # none /\ c[o].fresh => base[o] = Spent)
  <2>1. Sound(c[o], base[o]) /\ GetCoin(c[o], base[o]) = x[o]
    BY DEF Between
  <2> QED
    BY <2>1 DEF Sound, Shows
<1> QED
  BY <1>1 DEF Between

(* A step that leaves the database alone and a sound cache behind. *)
LEMMA SoundStep ==
    ASSUME CoinsInv, UNCHANGED <<db, stable>>, forgotten' = {},
           Between(cacheCoins', db.coins, Utxo[hashBlock'], Utxo[hashBlock']),
           db.heads # <<>> => pc' # "running" /\ hashBlock' = db.heads[1]
    PROVE  CoinsInv'
<1>1. /\ cacheCoins' \in [Outpoints -> Entries \cup {none}]
      /\ \A o \in Outpoints : Shows(cacheCoins'[o], db.coins[o], Utxo[hashBlock'][o])
      /\ \A o \in Outpoints : cacheCoins'[o] # none /\ cacheCoins'[o].fresh => db.coins[o] = Spent
  BY SoundShows
<1>2. StoreOK'
  BY <1>1 DEF CoinsInv, StoreOK
<1>3. ShowsTip' /\ ForgottenClean' /\ FreshTrue'
  BY <1>1 DEF ShowsTip, ForgottenClean, FreshTrue
<1>4. ImageOK(db)' /\ ImageOK(stable)'
  BY DEF CoinsInv, ImageOK
<1>5. OneTarget'
  BY DEF OneTarget
<1> QED
  BY <1>2, <1>3, <1>4, <1>5 DEF CoinsInv

(* A step that touches neither the coins nor the tip. *)
LEMMA SameCoins ==
    ASSUME CoinsInv, UNCHANGED <<cacheCoins, hashBlock, db, stable, forgotten>>,
           pc' \in Up => pc \in Up, db.heads # <<>> => pc' # "running"
    PROVE  CoinsInv'
<1>1. StoreOK'
  BY DEF CoinsInv, StoreOK
<1>2. ShowsTip' /\ ForgottenClean'
  BY DEF CoinsInv, ShowsTip, ForgottenClean, Dirty
<1>3. FreshTrue'
  BY DEF CoinsInv, FreshTrue
<1>4. ImageOK(db)' /\ ImageOK(stable)'
  BY DEF CoinsInv, ImageOK
<1>5. OneTarget'
  BY DEF CoinsInv, OneTarget
<1> QED
  BY <1>1, <1>2, <1>3, <1>4, <1>5 DEF CoinsInv

(* The node starts with no coins. *)
LEMMA InitCoins == Init => CoinsInv
<1> SUFFICES ASSUME Init PROVE CoinsInv
  OBVIOUS
<1>1. /\ cacheCoins = NoEntries /\ hashBlock = Null /\ pc = "running" /\ forgotten = {}
      /\ db = [coins |-> Empty, best |-> Null, heads |-> <<>>] /\ stable = db
  BY DEF Init
<1>2. db \in Databases
  BY <1>1, CoinHeights DEF Databases, CoinMaps
<1>3. Between(NoEntries, db.coins, Utxo[Null], Utxo[Null])
  <2>1. \A o \in Outpoints : db.coins[o] \in {Utxo[Null][o], Utxo[Null][o]}
    BY <1>1, Utxos
  <2> QED
    BY <2>1, EmptyBetween
<1>4. /\ cacheCoins \in [Outpoints -> Entries \cup {none}]
      /\ \A o \in Outpoints : Shows(cacheCoins[o], db.coins[o], Utxo[hashBlock][o])
      /\ \A o \in Outpoints : cacheCoins[o] # none /\ cacheCoins[o].fresh => db.coins[o] = Spent
  BY <1>1, <1>3, SoundShows
<1>5. StoreOK
  BY <1>1, <1>2, <1>4 DEF StoreOK
<1>6. ShowsTip /\ ForgottenClean /\ FreshTrue
  BY <1>1, <1>4 DEF ShowsTip, ForgottenClean, FreshTrue
<1>7. ImageOK(db) /\ ImageOK(stable)
  BY <1>1, Utxos DEF ImageOK
<1>8. OneTarget
  BY <1>1 DEF OneTarget
<1> QED
  BY <1>5, <1>6, <1>7, <1>8 DEF CoinsInv

(* A view over the cache that is flushed into it. *)
LEMMA FlushedSound ==
    ASSUME NEW base \in CoinMaps, NEW x \in CoinMaps, NEW c, Between(c, base, x, x),
           NEW y, NEW view, Between(view, x, y, y)
    PROVE  Between(FlushedInto(c, view), base, y, y)
<1>1. ASSUME NEW o \in Outpoints
      PROVE  /\ Sound(BatchWrite(c[o], view[o]), base[o])
             /\ GetCoin(BatchWrite(c[o], view[o]), base[o]) = y[o]
  <2>1. base[o] \in Coins /\ x[o] \in Coins
    BY DEF CoinMaps
  <2>2. Sound(c[o], base[o]) /\ GetCoin(c[o], base[o]) = x[o]
    BY DEF Between
  <2>3. Sound(view[o], x[o]) /\ GetCoin(view[o], x[o]) = y[o]
    BY DEF Between
  <2> QED
    BY <2>1, <2>2, <2>3, BatchSound
<1>2. \A o \in Outpoints : FlushedInto(c, view)[o] = BatchWrite(c[o], view[o])
  BY DEF FlushedInto
<1>3. FlushedInto(c, view) = [o \in Outpoints |-> FlushedInto(c, view)[o]]
  BY DEF FlushedInto
<1> QED
  BY <1>1, <1>2, <1>3, SoundCache

(* What the lookups of a block leave of the cache, and what it shows. *)
LEMMA LookedSound ==
    ASSUME RecoverInv, CoinsInv, pc = "running", NEW b
    PROVE  /\ forgotten = {}
           /\ db.heads = <<>> /\ db.coins \in CoinMaps /\ Utxo[hashBlock] \in CoinMaps
           /\ View = Utxo[hashBlock]
           /\ Between(cacheCoins, db.coins, Utxo[hashBlock], Utxo[hashBlock])
           /\ Between(Looked(b), db.coins, Utxo[hashBlock], Utxo[hashBlock])
<1>1. db.heads = <<>> /\ forgotten = {}
  BY DEF CoinsInv, OneTarget, RecoverInv, ControlOK, LostOK
<1>2. db.coins \in CoinMaps /\ \A o \in Outpoints : db.coins[o] \in Coins
  BY ImageParts DEF CoinsInv, StoreOK
<1>3. Utxo[hashBlock] \in CoinMaps
  BY Utxos DEF RecoverInv, ControlOK
<1>4. Between(cacheCoins, db.coins, Utxo[hashBlock], Utxo[hashBlock])
  BY <1>1, SoundUp DEF Up
<1>5. \A o \in Outpoints : /\ Sound(cacheCoins[o], db.coins[o])
                           /\ GetCoin(cacheCoins[o], db.coins[o]) = Utxo[hashBlock][o]
  BY <1>4 DEF Between
<1>6. View = Utxo[hashBlock]
  <2>1. Utxo[hashBlock] = [o \in Outpoints |-> Utxo[hashBlock][o]]
    BY <1>3 DEF CoinMaps
  <2> QED
    BY <1>5, <2>1 DEF View
<1>7. ASSUME NEW o \in Outpoints
      PROVE  /\ Sound(Looked(b)[o], db.coins[o])
             /\ GetCoin(Looked(b)[o], db.coins[o]) = Utxo[hashBlock][o]
  <2>1. Looked(b)[o] = FetchCoin(cacheCoins[o], db.coins[o]) \/ Looked(b)[o] = cacheCoins[o]
    BY DEF Looked
  <2> QED
    BY <1>2, <1>5, <2>1, FetchSound
<1>8. Looked(b) = [o \in Outpoints |-> Looked(b)[o]]
  BY DEF Looked
<1>9. Between(Looked(b), db.coins, Utxo[hashBlock], Utxo[hashBlock])
  BY <1>7, <1>8, SoundCache
<1> QED
  BY <1>1, <1>2, <1>3, <1>4, <1>6, <1>9

(* The first block has no transactions: connecting it changes no coin. *)
LEMMA ConnectedGenesis ==
    ASSUME NEW base \in CoinMaps
    PROVE  ConnectBlock(NoEntries, base, Genesis) = NoEntries
<1>1. NoEntries \in Caches
  BY DEF NoEntries, Caches, Slots
<1>2. Genesis \in Blocks /\ Len(Vtx[Genesis]) = 0
  BY CoinsAssumption
<1>3. PICK run \in [0..Len(Vtx[Genesis]) -> Caches] :
         /\ ConnectRun(run, NoEntries, base, Genesis)
         /\ ConnectBlock(NoEntries, base, Genesis) = run[Len(Vtx[Genesis])]
  BY <1>1, <1>2, ConnectRuns
<1> QED
  BY <1>2, <1>3 DEF ConnectRun

(* A block that is connected to the tip moves the coins to that block. *)
LEMMA ConnectCoins ==
    ASSUME RecoverInv, CoinsInv, NEW b \in Blocks, ConnectTip(b) PROVE CoinsInv'
<1>1. /\ pc = "running" /\ Parent[b] = hashBlock /\ hashBlock' = b
      /\ cacheCoins' = FlushedInto(Looked(b), ConnectBlock(NoEntries, View, b))
      /\ UNCHANGED <<pc, db, stable, forgotten>>
  BY DEF ConnectTip, lost
<1>2. /\ forgotten = {} /\ db.heads = <<>> /\ db.coins \in CoinMaps /\ Utxo[hashBlock] \in CoinMaps
      /\ View = Utxo[hashBlock]
      /\ Between(Looked(b), db.coins, Utxo[hashBlock], Utxo[hashBlock])
  BY <1>1, LookedSound
<1>3. Between(ConnectBlock(NoEntries, Utxo[hashBlock], b), Utxo[hashBlock], Utxo[b], Utxo[b])
  <2>1. CASE b # Genesis
    BY <1>1, <2>1, ConnectedBlock
  <2>2. CASE b = Genesis
    <3>1. hashBlock = Null /\ Utxo[hashBlock] = Utxo[b]
      BY <1>1, <2>2, Utxos, CoinsAssumption
    <3>2. ConnectBlock(NoEntries, Utxo[hashBlock], b) = NoEntries
      BY <1>2, <2>2, ConnectedGenesis
    <3>3. \A o \in Outpoints : Utxo[hashBlock][o] \in {Utxo[b][o], Utxo[b][o]}
      BY <3>1
    <3> QED
      BY <3>2, <3>3, EmptyBetween
  <2> QED
    BY <2>1, <2>2
<1>4. Between(cacheCoins', db.coins, Utxo[hashBlock'], Utxo[hashBlock'])
  BY <1>1, <1>2, <1>3, FlushedSound
<1> QED
  BY <1>1, <1>2, <1>4, SoundStep

(* A tip that is disconnected moves the coins back to its parent. *)
LEMMA DisconnectCoins == ASSUME RecoverInv, CoinsInv, DisconnectTip PROVE CoinsInv'
<1>1. /\ pc = "running" /\ hashBlock \in Blocks \ {Genesis} /\ hashBlock' = Parent[hashBlock]
      /\ cacheCoins' = FlushedInto(Looked(hashBlock), DisconnectBlock(NoEntries, View, hashBlock))
      /\ UNCHANGED <<pc, db, stable, forgotten>>
  BY DEF DisconnectTip, RecoverInv, ControlOK, Hashes, lost
<1>2. /\ forgotten = {} /\ db.heads = <<>> /\ db.coins \in CoinMaps /\ Utxo[hashBlock] \in CoinMaps
      /\ View = Utxo[hashBlock]
      /\ Between(Looked(hashBlock), db.coins, Utxo[hashBlock], Utxo[hashBlock])
  BY <1>1, LookedSound
<1>3. Between(NoEntries, Utxo[hashBlock], Utxo[hashBlock], Utxo[Parent[hashBlock]])
  BY EmptyBetween
<1>4. Between(DisconnectBlock(NoEntries, Utxo[hashBlock], hashBlock), Utxo[hashBlock],
              Utxo[Parent[hashBlock]], Utxo[Parent[hashBlock]])
  BY <1>1, <1>2, <1>3, DisconnectedBlock
<1>5. Between(cacheCoins', db.coins, Utxo[hashBlock'], Utxo[hashBlock'])
  BY <1>1, <1>2, <1>4, FlushedSound
<1> QED
  BY <1>1, <1>2, <1>5, SoundStep

(* The mempool's lookups change no coin. *)
LEMMA LookUpCoins ==
    ASSUME RecoverInv, CoinsInv, NEW o \in Outpoints, LookUp(o) \/ UncacheCoin(o) PROVE CoinsInv'
<1>1. pc = "running" /\ UNCHANGED <<pc, hashBlock, db, stable, forgotten>>
  BY DEF LookUp, UncacheCoin, lost
<1>2. PICK e \in {FetchCoin(cacheCoins[o], db.coins[o]), Uncache(cacheCoins[o])} :
         cacheCoins' = [cacheCoins EXCEPT ![o] = e]
  BY DEF LookUp, UncacheCoin
<1>3. /\ forgotten = {} /\ db.heads = <<>> /\ db.coins \in CoinMaps
      /\ Between(cacheCoins, db.coins, Utxo[hashBlock], Utxo[hashBlock])
  BY <1>1, LookedSound
<1>4. \A p \in Outpoints : /\ db.coins[p] \in Coins /\ Sound(cacheCoins[p], db.coins[p])
                           /\ GetCoin(cacheCoins[p], db.coins[p]) = Utxo[hashBlock][p]
  BY <1>3 DEF Between, CoinMaps
<1>5. Sound(e, db.coins[o]) /\ GetCoin(e, db.coins[o]) = Utxo[hashBlock][o]
  BY <1>2, <1>4, FetchSound, UncacheSound
<1>6. cacheCoins = [p \in Outpoints |-> cacheCoins[p]]
  BY DEF CoinsInv, StoreOK
<1>7. /\ cacheCoins' = [p \in Outpoints |-> cacheCoins'[p]]
      /\ \A p \in Outpoints : cacheCoins'[p] = IF p = o THEN e ELSE cacheCoins[p]
  BY <1>2, <1>6
<1>8. Between(cacheCoins', db.coins, Utxo[hashBlock], Utxo[hashBlock])
  BY <1>4, <1>5, <1>7, SoundCache
<1> QED
  BY <1>1, <1>3, <1>8, SoundStep

(* A dirty entry that has been put into a batch, kept as it is or cleaned. *)
LEMMA HandedEntry ==
    ASSUME NEW e \in Entries, e.dirty, NEW base, NEW coin \in Coins, Shows(e, base, coin)
    PROVE  /\ e.coin = coin /\ Shows(e, coin, coin)
           /\ NextAndMaybeErase(e) # none =>
                 ~NextAndMaybeErase(e).dirty /\ ~NextAndMaybeErase(e).fresh
           /\ Sound(NextAndMaybeErase(e), coin) /\ Shows(NextAndMaybeErase(e), coin, coin)
<1>1. e # none /\ e.coin = coin
  BY EntryIsNot DEF Shows, GetCoin
<1>2. Shows(e, coin, coin)
  BY <1>1 DEF Shows, GetCoin
<1>3. CASE coin = Spent
  <2>1. NextAndMaybeErase(e) = none
    BY <1>1, <1>3 DEF NextAndMaybeErase
  <2> QED
    BY <1>1, <1>2, <2>1, NoneSound DEF Shows
<1>4. CASE coin # Spent
  <2>1. NextAndMaybeErase(e) = Entry(coin, FALSE, FALSE)
    BY <1>1, <1>4 DEF NextAndMaybeErase
  <2>2. Sound(Entry(coin, FALSE, FALSE), coin) /\ GetCoin(Entry(coin, FALSE, FALSE), coin) = coin
    BY <1>4, EntrySound
  <2>3. /\ Entry(coin, FALSE, FALSE).coin = coin
        /\ ~Entry(coin, FALSE, FALSE).dirty /\ ~Entry(coin, FALSE, FALSE).fresh
    BY DEF Entry
  <2> QED
    BY <1>1, <1>2, <2>1, <2>2, <2>3 DEF Shows
<1> QED
  BY <1>3, <1>4

(* An entry of the cache in a flush. *)
LEMMA FlushedEntry ==
    ASSUME CoinsInv, pc \in {"coins", "replay"}, NEW o \in Outpoints
    PROVE  /\ cacheCoins[o] \in Entries \cup {none}
           /\ o \notin forgotten => Shows(cacheCoins[o], db.coins[o], Utxo[hashBlock][o])
           /\ o \in Dirty => /\ cacheCoins[o] \in Entries /\ cacheCoins[o].dirty
                             /\ o \notin forgotten
           /\ o \notin Dirty \cup forgotten => /\ db.coins[o] = Utxo[hashBlock][o]
                                             /\ Sound(cacheCoins[o], db.coins[o])
<1>1. cacheCoins[o] \in Entries \cup {none}
  BY DEF CoinsInv, StoreOK
<1>2. o \notin forgotten => Shows(cacheCoins[o], db.coins[o], Utxo[hashBlock][o])
  BY DEF CoinsInv, ShowsTip, Up
<1>3. o \in Dirty => cacheCoins[o] \in Entries /\ cacheCoins[o].dirty /\ o \notin forgotten
  BY <1>1 DEF Dirty, CoinsInv, ForgottenClean, Up
<1>4. ASSUME o \notin Dirty \cup forgotten
      PROVE  db.coins[o] = Utxo[hashBlock][o] /\ Sound(cacheCoins[o], db.coins[o])
  <2>1. CASE cacheCoins[o] = none
    BY <1>2, <1>4, <2>1, NoneSound DEF Shows
  <2>2. CASE cacheCoins[o] # none
    <3>1. ~cacheCoins[o].dirty
      BY <1>4, <2>2 DEF Dirty
    <3>2. cacheCoins[o] \in Entries /\ cacheCoins[o].dirty \in BOOLEAN /\ cacheCoins[o].fresh \in BOOLEAN
      BY <1>1, <2>2 DEF Entries
    <3>3. ~cacheCoins[o].fresh
      BY <3>1, <3>2 DEF Entries
    <3> QED
      BY <1>2, <1>4, <2>2, <3>1, <3>2, <3>3 DEF Shows, Sound, GetCoin
  <2> QED
    BY <2>1, <2>2
<1> QED
  BY <1>1, <1>2, <1>3, <1>4

(* What a batch writes, and what it leaves of the cache. *)
LEMMA WrittenCoins ==
    ASSUME RecoverInv, CoinsInv, pc \in {"coins", "replay"}, NEW batch \in SUBSET Dirty
    PROVE  /\ CoinsWith(batch) \in CoinMaps
           /\ Handed(batch) \in [Outpoints -> Entries \cup {none}]
           /\ \A o \in Outpoints :
                 /\ CoinsWith(batch)[o] = IF o \in batch THEN Utxo[hashBlock][o] ELSE db.coins[o]
                 /\ o \notin forgotten =>
                       Shows(Handed(batch)[o], CoinsWith(batch)[o], Utxo[hashBlock][o])
                 /\ o \notin batch => Handed(batch)[o] = cacheCoins[o]
                 /\ o \in batch => o \notin forgotten
<1>1. /\ \A o \in Outpoints : Utxo[hashBlock][o] \in Coins
      /\ \A o \in Outpoints : db.coins[o] \in Coins
  BY UtxoCoins, ImageParts DEF RecoverInv, ControlOK, CoinsInv, StoreOK
<1>2. ASSUME NEW o \in Outpoints
      PROVE  /\ CoinsWith(batch)[o] = IF o \in batch THEN Utxo[hashBlock][o] ELSE db.coins[o]
             /\ Handed(batch)[o] \in Entries \cup {none}
             /\ o \notin forgotten =>
                   Shows(Handed(batch)[o], CoinsWith(batch)[o], Utxo[hashBlock][o])
             /\ o \notin batch => Handed(batch)[o] = cacheCoins[o]
             /\ o \in batch => o \notin forgotten
  <2>1. /\ cacheCoins[o] \in Entries \cup {none}
        /\ o \notin forgotten => Shows(cacheCoins[o], db.coins[o], Utxo[hashBlock][o])
        /\ o \in Dirty => /\ cacheCoins[o] \in Entries /\ cacheCoins[o].dirty
                          /\ o \notin forgotten
    BY FlushedEntry
  <2>2. CASE o \in batch
    <3>1. /\ cacheCoins[o].coin = Utxo[hashBlock][o]
          /\ Shows(cacheCoins[o], Utxo[hashBlock][o], Utxo[hashBlock][o])
          /\ Sound(NextAndMaybeErase(cacheCoins[o]), Utxo[hashBlock][o])
          /\ Shows(NextAndMaybeErase(cacheCoins[o]), Utxo[hashBlock][o], Utxo[hashBlock][o])
      BY <1>1, <2>1, <2>2, HandedEntry
    <3>2. CoinsWith(batch)[o] = Utxo[hashBlock][o]
      BY <2>2, <3>1 DEF CoinsWith
    <3>3. Handed(batch)[o] \in {cacheCoins[o], NextAndMaybeErase(cacheCoins[o])}
      BY <2>2 DEF Handed
    <3>4. NextAndMaybeErase(cacheCoins[o]) \in Entries \cup {none}
      BY <3>1 DEF Sound
    <3> QED
      BY <2>1, <2>2, <3>1, <3>2, <3>3, <3>4
  <2>3. CASE o \notin batch
    <3>1. CoinsWith(batch)[o] = db.coins[o] /\ Handed(batch)[o] = cacheCoins[o]
      BY <2>3 DEF CoinsWith, Handed
    <3> QED
      BY <2>1, <2>3, <3>1
  <2> QED
    BY <2>2, <2>3
<1>3. CoinsWith(batch) \in CoinMaps
  <2>1. CoinsWith(batch) = [o \in Outpoints |-> CoinsWith(batch)[o]]
    BY DEF CoinsWith
  <2>2. \A o \in Outpoints : CoinsWith(batch)[o] \in Coins
    BY <1>1, <1>2
  <2> QED
    BY <2>1, <2>2 DEF CoinMaps
<1>4. Handed(batch) \in [Outpoints -> Entries \cup {none}]
  <2>1. cacheCoins = [o \in Outpoints |-> cacheCoins[o]]
    BY DEF CoinsInv, StoreOK
  <2>2. Handed(batch) = [o \in Outpoints |-> Handed(batch)[o]]
    BY <2>1 DEF Handed
  <2> QED
    BY <1>2, <2>2
<1> QED
  BY <1>2, <1>3, <1>4

(* A batch that is not the last: each coin is from one of the two tips. *)
LEMMA PartialCoins ==
    ASSUME RecoverInv, CoinsInv, NEW batch \in SUBSET Dirty, WritePartialBatch(batch) PROVE CoinsInv'
<1>1. /\ pc \in {"coins", "replay"} /\ HeadsAgree
      /\ db' = [coins |-> CoinsWith(batch), best |-> Null, heads |-> <<hashBlock, OldTip>>]
      /\ stable' \in {stable, db'} /\ cacheCoins' = Handed(batch)
      /\ UNCHANGED <<pc, hashBlock, forgotten>>
  BY DEF WritePartialBatch
<1>2. hashBlock \in Blocks /\ OldTip \in Hashes
  BY <1>1, BatchBlocks DEF RecoverInv
<1>3. /\ CoinsWith(batch) \in CoinMaps
      /\ Handed(batch) \in [Outpoints -> Entries \cup {none}]
      /\ \A o \in Outpoints :
            /\ CoinsWith(batch)[o] = IF o \in batch THEN Utxo[hashBlock][o] ELSE db.coins[o]
            /\ o \notin forgotten =>
                  Shows(Handed(batch)[o], CoinsWith(batch)[o], Utxo[hashBlock][o])
            /\ o \notin batch => Handed(batch)[o] = cacheCoins[o]
            /\ o \in batch => o \notin forgotten
  BY <1>1, WrittenCoins
<1>4. \A o \in Outpoints : db.coins[o] \in {Utxo[OldTip][o], Utxo[hashBlock][o]}
  <2>1. CASE db.heads = <<>>
    BY <2>1 DEF OldTip, CoinsInv, ImageOK
  <2>2. CASE db.heads # <<>>
    <3>1. OldTip = db.heads[2] /\ hashBlock = db.heads[1]
      BY <1>1, <2>2 DEF OldTip, HeadsAgree, CoinsInv, ImageOK
    <3> QED
      BY <2>2, <3>1 DEF CoinsInv, ImageOK
  <2> QED
    BY <2>1, <2>2
<1>5. /\ db'.coins = CoinsWith(batch) /\ db'.best = Null
      /\ db'.heads = <<hashBlock, OldTip>> /\ db'.heads # <<>>
      /\ db'.heads[1] = hashBlock /\ db'.heads[2] = OldTip
  BY <1>1
<1>6. ImageOK(db')
  <2>1. \A o \in Outpoints : db'.coins[o] \in {Utxo[OldTip][o], Utxo[hashBlock][o]}
    BY <1>3, <1>4, <1>5
  <2> QED
    BY <1>5, <2>1 DEF ImageOK
<1>7. db' \in Databases
  BY <1>1, <1>2, <1>3 DEF Databases, CoinMaps, Hashes
<1>8. StoreOK'
  BY <1>1, <1>3, <1>7 DEF CoinsInv, StoreOK
<1>9. ShowsTip' /\ ForgottenClean'
  <2>1. ShowsTip'
    BY <1>1, <1>3, <1>5 DEF ShowsTip
  <2>2. ASSUME NEW o \in forgotten, o \in Dirty' PROVE FALSE
    <3>1. o \in Outpoints /\ o \notin batch
      BY <1>3, <2>2 DEF Dirty
    <3>2. cacheCoins'[o] = cacheCoins[o]
      BY <1>1, <1>3, <3>1
    <3>3. o \in Dirty
      BY <2>2, <3>2 DEF Dirty
    <3> QED
      BY <1>1, <2>2, <3>3 DEF CoinsInv, ForgottenClean, Up
  <2> QED
    BY <1>1, <2>1, <2>2 DEF ForgottenClean
<1>10. FreshTrue' /\ OneTarget'
  BY <1>1, <1>5 DEF FreshTrue, OneTarget
<1>11. ImageOK(db)' /\ ImageOK(stable)'
  <2>1. ImageOK(stable')
    BY <1>1, <1>6 DEF CoinsInv
  <2> QED
    BY <1>6, <2>1 DEF ImageOK
<1> QED
  BY <1>8, <1>9, <1>10, <1>11 DEF CoinsInv

(* The last batch: the database has the coins of the tip. *)
LEMMA FinalCoins == ASSUME RecoverInv, CoinsInv, ~damaged', WriteFinalBatch PROVE CoinsInv'
<1>1. /\ pc \in {"coins", "replay"}
      /\ db' = [coins |-> CoinsWith(Dirty), best |-> hashBlock, heads |-> <<>>]
      /\ stable' \in {stable, db'} /\ UNCHANGED hashBlock /\ forgotten = {} /\ forgotten' = {}
      /\ \/ cacheCoins' = Handed(Dirty) /\ mode = "sync" /\ pc = "coins"
         \/ cacheCoins' = NoEntries
  BY DEF WriteFinalBatch, RecoverInv, ControlOK, LostOK
<1>2. hashBlock \in Hashes /\ Utxo[hashBlock] \in CoinMaps
  BY Utxos DEF RecoverInv, ControlOK
<1>3. /\ CoinsWith(Dirty) \in CoinMaps
      /\ \A o \in Outpoints : CoinsWith(Dirty)[o] = IF o \in Dirty THEN Utxo[hashBlock][o] ELSE db.coins[o]
  BY <1>1, WrittenCoins
<1>4. CoinsWith(Dirty) = Utxo[hashBlock]
  <2>1. \A o \in Outpoints : CoinsWith(Dirty)[o] = Utxo[hashBlock][o]
    BY <1>1, <1>3, FlushedEntry
  <2> QED
    BY <1>2, <1>3, <2>1 DEF CoinMaps
<1>5. db'.coins = Utxo[hashBlock] /\ db'.best = hashBlock /\ db'.heads = <<>>
  BY <1>1, <1>4
<1>6. Between(cacheCoins', db'.coins, Utxo[hashBlock], Utxo[hashBlock])
  <2>1. CASE cacheCoins' = NoEntries
    <3>1. \A o \in Outpoints : Utxo[hashBlock][o] \in {Utxo[hashBlock][o], Utxo[hashBlock][o]}
      OBVIOUS
    <3> QED
      BY <1>5, <2>1, <3>1, EmptyBetween
  <2>2. CASE cacheCoins' = Handed(Dirty) /\ mode = "sync" /\ pc = "coins"
    <3>1. ASSUME NEW o \in Outpoints
          PROVE  /\ Sound(Handed(Dirty)[o], Utxo[hashBlock][o])
                 /\ GetCoin(Handed(Dirty)[o], Utxo[hashBlock][o]) = Utxo[hashBlock][o]
      <4>1. /\ Shows(cacheCoins[o], db.coins[o], Utxo[hashBlock][o])
            /\ o \in Dirty => cacheCoins[o] \in Entries /\ cacheCoins[o].dirty
            /\ o \notin Dirty => /\ db.coins[o] = Utxo[hashBlock][o]
                                 /\ Sound(cacheCoins[o], db.coins[o])
        BY <1>1, FlushedEntry
      <4>2. Handed(Dirty)[o] = IF o \in Dirty THEN NextAndMaybeErase(cacheCoins[o]) ELSE cacheCoins[o]
        BY <2>2 DEF Handed
      <4>3. CASE o \in Dirty
        <5>1. Utxo[hashBlock][o] \in Coins
          BY <1>2, UtxoCoins
        <5> QED
          BY <4>1, <4>2, <4>3, <5>1, HandedEntry DEF Shows
      <4>4. CASE o \notin Dirty
        BY <4>1, <4>2, <4>4 DEF Shows
      <4> QED
        BY <4>3, <4>4
    <3>2. Handed(Dirty) = [o \in Outpoints |-> Handed(Dirty)[o]]
      BY <2>2 DEF Handed
    <3>3. Between(Handed(Dirty), Utxo[hashBlock], Utxo[hashBlock], Utxo[hashBlock])
      BY <3>1, <3>2, SoundCache
    <3> QED
      BY <1>5, <2>2, <3>3
  <2> QED
    BY <1>1, <2>1, <2>2
<1>7. db' \in Databases
  BY <1>1, <1>2, <1>3 DEF Databases, CoinMaps, Hashes
<1>8. /\ cacheCoins' \in [Outpoints -> Entries \cup {none}]
      /\ \A o \in Outpoints : Shows(cacheCoins'[o], db'.coins[o], Utxo[hashBlock][o])
      /\ \A o \in Outpoints : cacheCoins'[o] # none /\ cacheCoins'[o].fresh => db'.coins[o] = Spent
  BY <1>6, SoundShows
<1>9. StoreOK'
  BY <1>1, <1>7, <1>8 DEF CoinsInv, StoreOK
<1>10. ShowsTip' /\ ForgottenClean' /\ FreshTrue'
  BY <1>1, <1>8 DEF ShowsTip, ForgottenClean, FreshTrue
<1>11. ImageOK(db') /\ OneTarget'
  BY <1>5 DEF ImageOK, OneTarget
<1>12. ImageOK(db)' /\ ImageOK(stable)'
  <2>1. ImageOK(stable')
    BY <1>1, <1>11 DEF CoinsInv
  <2> QED
    BY <1>11, <2>1 DEF ImageOK
<1> QED
  BY <1>9, <1>10, <1>11, <1>12 DEF CoinsInv

(* A failed write: if the cache is kept, what it was to write is forgotten; *)
(* otherwise nothing has changed.                                           *)
LEMMA FailsCoins ==
    ASSUME RecoverInv, CoinsInv, NEW batch \in SUBSET Dirty, WriteFails(batch) PROVE CoinsInv'
<1>1. /\ pc = "coins" /\ cacheCoins' = Handed(batch) /\ pc' = "aborting"
      /\ forgotten' = IF mode = "sync" THEN forgotten \cup batch ELSE forgotten
      /\ UNCHANGED <<hashBlock, db, stable>>
  BY DEF WriteFails
<1>2. CASE mode # "sync"
  <2>1. UNCHANGED <<cacheCoins, forgotten>>
    BY <1>1, <1>2 DEF Handed
  <2> QED
    BY <1>1, <2>1, SameCoins DEF Up
<1>3. CASE mode = "sync"
  <2>1. /\ Handed(batch) \in [Outpoints -> Entries \cup {none}]
        /\ \A o \in Outpoints : o \notin batch => Handed(batch)[o] = cacheCoins[o]
    BY <1>1, WrittenCoins
  <2>2. ASSUME NEW o \in batch
        PROVE  /\ o \in Outpoints
               /\ cacheCoins'[o] # none => ~cacheCoins'[o].dirty /\ ~cacheCoins'[o].fresh
    <3>1. o \in Outpoints /\ o \in Dirty
      BY DEF Dirty
    <3>2. /\ cacheCoins[o] \in Entries /\ cacheCoins[o].dirty
          /\ Shows(cacheCoins[o], db.coins[o], Utxo[hashBlock][o])
      BY <1>1, <3>1, FlushedEntry
    <3>3. Utxo[hashBlock][o] \in Coins
      BY <3>1, UtxoCoins DEF RecoverInv, ControlOK
    <3>4. cacheCoins'[o] = NextAndMaybeErase(cacheCoins[o])
      BY <1>1, <1>3, <3>1 DEF Handed
    <3>5. NextAndMaybeErase(cacheCoins[o]) # none =>
             ~NextAndMaybeErase(cacheCoins[o]).dirty /\ ~NextAndMaybeErase(cacheCoins[o]).fresh
      BY <3>2, <3>3, HandedEntry
    <3> QED
      BY <3>1, <3>4, <3>5
  <2>3. StoreOK'
    BY <1>1, <2>1 DEF CoinsInv, StoreOK
  <2>4. ShowsTip'
    BY <1>1, <1>3, <2>1 DEF CoinsInv, ShowsTip, Up
  <2>5. ForgottenClean'
    <3>1. ASSUME NEW o \in forgotten', o \in Dirty' PROVE FALSE
      <4>1. o \in Outpoints /\ cacheCoins'[o] # none /\ cacheCoins'[o].dirty
        BY <3>1 DEF Dirty
      <4>2. o \notin batch /\ o \in forgotten
        BY <1>1, <1>3, <2>2, <3>1, <4>1
      <4>3. o \in Dirty
        BY <1>1, <2>1, <4>1, <4>2 DEF Dirty
      <4> QED
        BY <1>1, <4>2, <4>3 DEF CoinsInv, ForgottenClean, Up
    <3> QED
      BY <3>1 DEF ForgottenClean
  <2>6. FreshTrue'
    <3>1. ASSUME NEW o \in Outpoints, cacheCoins'[o] # none, cacheCoins'[o].fresh, db.heads = <<>>
          PROVE  db.coins[o] = Spent
      <4>1. cacheCoins'[o] = cacheCoins[o]
        BY <1>1, <2>1, <2>2, <3>1
      <4> QED
        BY <1>1, <3>1, <4>1 DEF CoinsInv, FreshTrue, Up
    <3> QED
      BY <1>1, <3>1 DEF FreshTrue
  <2>7. ImageOK(db)' /\ ImageOK(stable)'
    BY <1>1 DEF CoinsInv, ImageOK
  <2>8. OneTarget'
    BY <1>1 DEF CoinsInv, OneTarget, Up
  <2> QED
    BY <2>3, <2>4, <2>5, <2>6, <2>7, <2>8 DEF CoinsInv
<1> QED
  BY <1>2, <1>3

(* A flush that has nothing to write ends where it began only if nothing   *)
(* has been connected yet.                                                 *)
LEMMA IndexCoins == ASSUME RecoverInv, CoinsInv, WriteBlockIndexDB PROVE CoinsInv'
<1>1. /\ pc = "files" /\ UNCHANGED <<cacheCoins, hashBlock, db, stable, forgotten>>
      /\ pc' = "running" => hashBlock = Null
  BY DEF WriteBlockIndexDB
<1>2. db.heads # <<>> => hashBlock \in Blocks
  BY <1>1, ImageParts DEF CoinsInv, StoreOK, OneTarget, Up
<1>3. db.heads # <<>> => pc' # "running"
  BY <1>1, <1>2, CoinsAssumption
<1> QED
  BY <1>1, <1>3, SameCoins DEF Up

(* A crash loses the cache; the database comes back as some batch left it. *)
LEMMA CrashCoins == ASSUME CoinsInv, Crash PROVE CoinsInv'
<1>1. pc' = "down" /\ db' = stable /\ stable' = stable /\ cacheCoins' = NoEntries
  BY DEF Crash
<1>2. StoreOK'
  BY <1>1 DEF CoinsInv, StoreOK, NoEntries
<1>3. ImageOK(db)' /\ ImageOK(stable)'
  BY <1>1 DEF CoinsInv, ImageOK
<1>4. ShowsTip' /\ ForgottenClean' /\ FreshTrue' /\ OneTarget'
  BY <1>1 DEF ShowsTip, ForgottenClean, FreshTrue, OneTarget, Up
<1> QED
  BY <1>2, <1>3, <1>4 DEF CoinsInv

(* A restart: the cache of the replay shows the tip that the database was  *)
(* being moved to, whichever of its coins had got there.                   *)
LEMMA RestartCoins == ASSUME CoinsInv, Restart PROVE CoinsInv'
<1>1. UNCHANGED <<db, stable>> /\ forgotten' = {}
  BY DEF Restart
<1>2. db \in Databases
  BY DEF CoinsInv, StoreOK
<1>3. CASE db.heads # <<>>
  <2>1. /\ hashBlock' = db.heads[1] /\ pc' # "running"
        /\ cacheCoins' = Replayed(db.coins, db.heads[1], db.heads[2])
    BY <1>3 DEF Restart
  <2>2. /\ db.coins \in CoinMaps /\ db.heads[1] \in Blocks /\ db.heads[2] \in Hashes
        /\ \A o \in Outpoints : db.coins[o] \in {Utxo[db.heads[2]][o], Utxo[db.heads[1]][o]}
    BY <1>2, <1>3, ImageParts DEF CoinsInv, ImageOK
  <2>3. Between(cacheCoins', db.coins, Utxo[hashBlock'], Utxo[hashBlock'])
    BY <2>1, <2>2, ReplayedCoins
  <2> QED
    BY <1>1, <2>1, <2>3, SoundStep
<1>4. CASE db.heads = <<>>
  <2>1. hashBlock' = db.best /\ cacheCoins' = NoEntries
    BY <1>4 DEF Restart
  <2>2. \A o \in Outpoints : db.coins[o] \in {Utxo[db.best][o], Utxo[db.best][o]}
    BY <1>4 DEF CoinsInv, ImageOK
  <2>3. Between(cacheCoins', db.coins, Utxo[hashBlock'], Utxo[hashBlock'])
    BY <2>1, <2>2, EmptyBetween
  <2> QED
    BY <1>1, <1>4, <2>3, SoundStep
<1> QED
  BY <1>3, <1>4

(* Every step keeps the coins right, unless it damages the database. *)
LEMMA StepCoins == RecoverInv /\ CoinsInv /\ ~damaged' /\ [Next]_vars => CoinsInv'
<1> SUFFICES ASSUME RecoverInv, CoinsInv, ~damaged', [Next]_vars PROVE CoinsInv'
  OBVIOUS
<1>1. ASSUME NEW b \in Blocks, AcceptBlock(b) PROVE CoinsInv'
  <2>1. UNCHANGED <<pc, cacheCoins, hashBlock, db, stable, forgotten>> /\ pc = "running"
    BY <1>1 DEF AcceptBlock, lost
  <2> QED
    BY <2>1, SameCoins DEF CoinsInv, OneTarget
<1>2. ASSUME NEW b \in Blocks, ConnectTip(b) PROVE CoinsInv'
  BY <1>2, ConnectCoins
<1>3. CASE DisconnectTip
  BY <1>3, DisconnectCoins
<1>4. ASSUME NEW o \in Outpoints, LookUp(o) \/ UncacheCoin(o) PROVE CoinsInv'
  BY <1>4, LookUpCoins
<1>5. ASSUME NEW m \in {"flush", "sync", "stop"}, NEW synced \in BOOLEAN, FlushBlockFiles(m, synced)
      PROVE  CoinsInv'
  <2>1. /\ UNCHANGED <<cacheCoins, hashBlock, db, stable, forgotten>>
        /\ pc \in {"running", "aborting"} /\ pc' = "files"
    BY <1>5 DEF FlushBlockFiles
  <2> QED
    BY <2>1, SameCoins DEF Up
<1>6. CASE WriteBlockIndexDB
  BY <1>6, IndexCoins
<1>7. ASSUME NEW batch \in SUBSET Dirty, WritePartialBatch(batch) \/ WriteFails(batch) PROVE CoinsInv'
  BY <1>7, PartialCoins, FailsCoins
<1>8. CASE WriteFinalBatch
  BY <1>8, FinalCoins
<1>9. CASE Crash
  BY <1>9, CrashCoins
<1>10. CASE Restart
  BY <1>10, RestartCoins
<1>11. CASE UNCHANGED vars
  <2>1. UNCHANGED <<pc, cacheCoins, hashBlock, db, stable, forgotten>>
    BY <1>11 DEF vars, lost
  <2> QED
    BY <2>1, SameCoins DEF CoinsInv, OneTarget
<1>12. CASE WriteBlockIndexFails
  <2>1. /\ UNCHANGED <<cacheCoins, hashBlock, db, stable, forgotten>>
        /\ pc = "files" /\ pc' = "aborting"
    BY <1>12 DEF WriteBlockIndexFails
  <2> QED
    BY <2>1, SameCoins DEF Up
<1> QED
  BY <1>1, <1>2, <1>3, <1>4, <1>5, <1>6, <1>7, <1>8, <1>9, <1>10, <1>11, <1>12 DEF Next

(* Nothing is claimed of the coins once a write has relied on a failed one. *)
FlushInv == ControlOK /\ (~damaged => RecoverInv /\ CoinsInv)

(* The inductive invariant of the coins: the cache shows the tip, but for  *)
(* what a failed Sync took for written, and both what the database has and *)
(* what a crash would leave of it are the coins of one tip or a mixture of *)
(* two that it names, until a write has relied on one that failed.         *)
THEOREM CoinsInvariant == Spec => []FlushInv
<1>1. Init => FlushInv
  BY InitControl, InitRecover, InitCoins DEF FlushInv
<1>2. FlushInv /\ [Next]_vars => FlushInv'
  BY StepControl, StepRecover, StepCoins DEF FlushInv
<1> QED
  BY <1>1, <1>2, PTL DEF Spec

(* Every entry of the cache keeps to the flags that SanityCheck allows,    *)
(* until a write has relied on one that failed.                            *)
THEOREM FlushType == Spec => []TypeOK
<1>1. FlushInv => TypeOK
  BY DEF FlushInv, ControlOK, LostOK, CoinsInv, StoreOK, TypeOK, Hashes
<1> QED
  BY <1>1, CoinsInvariant, PTL

(* What the node takes for unspent is what its chain leaves unspent,       *)
(* through any reorganisations, flushes, evictions, failed writes and      *)
(* crashes (ConnectTip and DisconnectTip, LookUp and UncacheCoin, the      *)
(* batches and the replay): but for the coins that a failed Sync took for  *)
(* written, and until a write has relied on one that failed.               *)
THEOREM FlushCacheIsTip == Spec => []CacheIsTip
<1>1. FlushInv => CacheIsTip
  <2> SUFFICES ASSUME CoinsInv, pc \in {"running", "files", "coins"}, NEW o \in Outpoints \ forgotten
               PROVE  View[o] = Utxo[hashBlock][o]
    BY DEF FlushInv, CacheIsTip
  <2>1. GetCoin(cacheCoins[o], db.coins[o]) = Utxo[hashBlock][o]
    BY DEF CoinsInv, ShowsTip, Shows, Up
  <2> QED
    BY <2>1 DEF View
<1> QED
  BY <1>1, CoinsInvariant, PTL

(* A database that names a best block has exactly the unspent outputs of   *)
(* that block's chain, and so has what a crash would leave of it, in the   *)
(* flush of a replay and after failed writes too, until the flush of       *)
(* Shutdown has marked one without the coins of a Sync that failed.        *)
THEOREM FlushMarkedConsistent == Spec => []MarkedConsistent
<1>1. FlushInv => MarkedConsistent
  BY DEF FlushInv, CoinsInv, ImageOK, MarkedConsistent, Consistent
<1> QED
  BY <1>1, CoinsInvariant, PTL

(* FRESH is only set where the database has no coin, and what is not DIRTY *)
(* is as in the database, so that nothing a flush leaves out is lost: but  *)
(* for the coins that a failed Sync took for written, and until a write    *)
(* has relied on one that failed.                                          *)
THEOREM FlushFlagsTrue == Spec => []FlagsTrue
<1>1. FlushInv => FlagsTrue
  BY DEF FlushInv, CoinsInv, ShowsTip, Shows, FreshTrue, FlagsTrue, Up
<1> QED
  BY <1>1, CoinsInvariant, PTL
=============================================================================
