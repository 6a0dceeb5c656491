------------------------ MODULE QuantumMempool_proofs ------------------------
(***************************************************************************)
(* Proofs about QuantumMempool, for any transactions, networks and number  *)
(* of blocks.                                                              *)
(*                                                                         *)
(* BlocksValid needs the invariant of the cache (CacheSound): an entry was *)
(* made for a transaction and flags that passed.  MempoolMinable needs     *)
(* more: that a transaction accepted before the activation also passes     *)
(* after it (PoolActive), which StandardIsActive of QuantumScript_proofs   *)
(* gives for every script, and that no block undoes the activation         *)
(* (DeploymentInv).                                                        *)
(***************************************************************************)
EXTENDS QuantumMempool, QuantumScript_proofs

(* Every entry of the script cache answers for scripts that do pass. *)
CacheSound == \A tx \in Txs, flags \in Flags :
                 <<tx, flags>> \in script_cache => ScriptsPass(tx, flags)

MempoolInv == TypeOK /\ CacheSound /\ BlocksValid

(* The flags of a block are a member of Flags. *)
LEMMA BlockFlagsType == \A active \in BOOLEAN : GetBlockScriptFlags(active) \in Flags
BY DEF GetBlockScriptFlags, Flags

(* The tip is a block. *)
LEMMA TipType == TypeOK => /\ Tip \in Blocks /\ Tip = chain[Len(chain)]
                           /\ Len(chain) \in Nat \ {0}
BY DEF TypeOK, Tip, Last

(* With a sound cache, a check that passes means scripts that pass. *)
LEMMA CheckIsSound ==
    ASSUME CacheSound, NEW tx \in Txs, NEW flags \in Flags, CheckInputScripts(tx, flags)
    PROVE  ScriptsPass(tx, flags)
BY DEF CacheSound, CheckInputScripts, Cached

(* What a check that passed adds to the cache keeps it sound. *)
LEMMA StoreIsSound ==
    ASSUME TypeOK, CacheSound, NEW txs \in SUBSET Txs, NEW flags \in Flags,
           \A tx \in txs : CheckInputScripts(tx, flags),
           script_cache' \subseteq script_cache \cup Store(txs, flags)
    PROVE  script_cache' \in SUBSET (Txs \X Flags) /\ CacheSound'
<1>1. Store(txs, flags) \in SUBSET (Txs \X Flags)
  BY DEF Store, CacheEntry
<1>2. script_cache' \in SUBSET (Txs \X Flags)
  BY <1>1 DEF TypeOK
<1>3. ASSUME NEW tx \in Txs, NEW f \in Flags, <<tx, f>> \in script_cache'
      PROVE  ScriptsPass(tx, f)
  <2>1. CASE <<tx, f>> \in script_cache
    BY <2>1 DEF CacheSound
  <2>2. CASE <<tx, f>> \in Store(txs, flags)
    <3>1. tx \in txs /\ f = flags
      BY <2>2 DEF Store, CacheEntry
    <3> QED
      BY <3>1, CheckIsSound
  <2> QED
    BY <1>3, <2>1, <2>2
<1>4. \A tx \in Txs, f \in Flags : ScriptsPass(tx, f)' = ScriptsPass(tx, f)
  BY DEF ScriptsPass
<1> QED
  BY <1>2, <1>3 DEF CacheSound, ScriptsPass

(* A chain that keeps its blocks keeps their transactions valid. *)
LEMMA SameChain == ASSUME BlocksValid, UNCHANGED chain PROVE BlocksValid'
BY DEF BlocksValid, ScriptsPass

(* AcceptToMemoryPool and the resurrection of a disconnected block accept  *)
(* into the pool and the cache.                                            *)
LEMMA AcceptInv ==
    ASSUME TypeOK, CacheSound, NEW txs \in SUBSET Txs, NEW tip \in Blocks, AcceptOn(txs, tip)
    PROVE  /\ pool' \in SUBSET Txs /\ bug' \in BOOLEAN
           /\ script_cache' \in SUBSET (Txs \X Flags) /\ CacheSound'
<1> DEFINE flags == GetBlockScriptFlags(tip.active)
<1>1. Accepted(txs, tip) \in SUBSET txs
  BY DEF Accepted, Candidates
<1>2. pool' \in SUBSET Txs /\ bug' \in BOOLEAN
  BY <1>1 DEF AcceptOn, TypeOK
<1>3. flags \in Flags
  BY BlockFlagsType DEF Blocks
<1>4. \A tx \in Accepted(txs, tip) : CheckInputScripts(tx, flags)
  BY DEF Accepted, ConsensusScriptChecks
<1>5. script_cache' = script_cache \cup Store(Accepted(txs, tip), flags)
  BY DEF AcceptOn
<1> HIDE DEF flags
<1> QED
  BY <1>1, <1>2, <1>3, <1>4, <1>5, StoreIsSound

(* Initially nothing is cached and the first block is empty. *)
LEMMA InitMempoolInv == Init => MempoolInv
<1> SUFFICES ASSUME Init PROVE MempoolInv
  OBVIOUS
<1>0. PICK active \in DeploymentAfter(FALSE) : \E next \in DeploymentAfter(active) :
         chain = <<[active |-> active, next_active |-> next, txs |-> {}]>>
  BY DEF Init
<1>1. PICK next \in DeploymentAfter(active) :
         chain = <<[active |-> active, next_active |-> next, txs |-> {}]>>
  BY <1>0
<1>2. active \in BOOLEAN /\ next \in BOOLEAN
  BY DEF DeploymentAfter
<1>3. [active |-> active, next_active |-> next, txs |-> {}] \in Blocks
  BY <1>2 DEF Blocks
<1>4. TypeOK
  <2> DEFINE block == [active |-> active, next_active |-> next, txs |-> {}]
  <2>1. block \in Blocks /\ chain = <<block>>
    BY <1>1, <1>3
  <2> HIDE DEF block
  <2>2. chain \in Seq(Blocks) /\ chain # <<>>
    BY <2>1
  <2>3. require_standard \in BOOLEAN
    BY DEF Init
  <2> QED
    BY <2>2, <2>3 DEF Init, TypeOK
<1>5. CacheSound
  BY DEF Init, CacheSound
<1>6. BlocksValid
  BY <1>1 DEF BlocksValid
<1> QED
  BY <1>4, <1>5, <1>6 DEF MempoolInv

(* A connected block has passed the checks under its own flags. *)
LEMMA ConnectInv ==
    ASSUME MempoolInv, NEW txs \in SUBSET Txs, ConnectTip(txs)
    PROVE  MempoolInv'
<1> DEFINE flags == GetBlockScriptFlags(Tip.next_active)
<1>1. TypeOK /\ CacheSound /\ BlocksValid
  BY DEF MempoolInv
<1>2. Tip \in Blocks /\ Tip.next_active \in BOOLEAN /\ flags \in Flags
  BY <1>1, TipType, BlockFlagsType DEF Blocks
<1>3. PICK next \in DeploymentAfter(Tip.next_active) :
         chain' = Append(chain, [active |-> Tip.next_active, next_active |-> next,
                                 txs |-> txs])
  BY DEF ConnectTip
<1> DEFINE block == [active |-> Tip.next_active, next_active |-> next, txs |-> txs]
<1>4. block \in Blocks
  BY <1>2 DEF Blocks, DeploymentAfter
<1>5. chain' \in Seq(Blocks) /\ chain' # <<>>
  BY <1>1, <1>3, <1>4 DEF TypeOK
<1>6. \A tx \in txs : CheckInputScripts(tx, flags)
  BY DEF ConnectTip
<1>7. script_cache' \in SUBSET (Txs \X Flags) /\ CacheSound'
  <2>1. script_cache' \subseteq script_cache \cup Store(txs, flags)
    BY DEF ConnectTip
  <2> HIDE DEF flags
  <2> QED
    BY <1>1, <1>2, <1>6, <2>1, StoreIsSound
<1>8. TypeOK'
  BY <1>1, <1>5, <1>7 DEF TypeOK, ConnectTip, RemovedForBlock
<1>9. BlocksValid'
  <2>1. SUFFICES ASSUME NEW i \in DOMAIN chain', NEW tx \in chain'[i].txs
                 PROVE  ScriptsPass(tx, GetBlockScriptFlags(chain'[i].active))
    BY DEF BlocksValid, ScriptsPass
  <2>2. CASE i = Len(chain) + 1
    <3>1. chain'[i] = block
      BY <1>1, <1>3, <2>2 DEF TypeOK
    <3>2. tx \in txs /\ chain'[i].active = Tip.next_active
      BY <3>1
    <3> HIDE DEF block
    <3>3. ScriptsPass(tx, flags)
      BY <1>1, <1>2, <1>6, <3>2, CheckIsSound
    <3> QED
      BY <3>2, <3>3
  <2>3. CASE i # Len(chain) + 1
    <3>1. i \in DOMAIN chain /\ chain'[i] = chain[i]
      BY <1>1, <1>3, <2>3 DEF TypeOK
    <3> QED
      BY <1>1, <3>1 DEF BlocksValid
  <2> QED
    BY <2>2, <2>3
<1> QED
  BY <1>7, <1>8, <1>9 DEF MempoolInv

(* The front of a sequence, and its new last element. *)
LEMMA FrontOfSeq ==
    ASSUME NEW S, NEW s \in Seq(S), Len(s) > 1
    PROVE  LET n == Len(s) - 1
           IN  /\ n \in Nat \ {0} /\ n \in DOMAIN s /\ s[n] \in S
               /\ SubSeq(s, 1, n) \in Seq(S) /\ DOMAIN SubSeq(s, 1, n) = 1..n
               /\ SubSeq(s, 1, n) # <<>>
               /\ \A i \in 1..n : i \in DOMAIN s /\ SubSeq(s, 1, n)[i] = s[i]
<1> DEFINE n == Len(s) - 1
<1>0. Len(s) \in Nat /\ DOMAIN s = 1..Len(s)
  BY LenProperties
<1>1. n \in Nat \ {0} /\ n <= Len(s)
  <2>1. \A k \in Nat : k > 1 => k - 1 \in Nat \ {0} /\ k - 1 <= k
    OBVIOUS
  <2> QED
    BY <1>0, <2>1
<1>2. n \in DOMAIN s /\ \A i \in 1..n : i \in DOMAIN s
  BY <1>0, <1>1
<1>3. s[n] \in S /\ \A i \in 1..n : s[i] \in S
  BY <1>2
<1>4. SubSeq(s, 1, n) = [i \in 1..n |-> s[i]]
  BY <1>1, SubSeqProperties
<1>5. SubSeq(s, 1, n) \in Seq(S) /\ Len(SubSeq(s, 1, n)) = n
  BY <1>1, SubSeqProperties
<1>6. SubSeq(s, 1, n) # <<>>
  BY <1>1, <1>5
<1>7. DOMAIN SubSeq(s, 1, n) = 1..n
  BY <1>4
<1> QED
  BY <1>1, <1>2, <1>3, <1>4, <1>5, <1>6, <1>7

(* A disconnected block leaves the blocks below it as they were. *)
LEMMA InvalidateInv == ASSUME MempoolInv, InvalidateBlock PROVE MempoolInv'
<1>1. TypeOK /\ CacheSound /\ BlocksValid
  BY DEF MempoolInv
<1> DEFINE n == Len(chain) - 1
<1>2. Tip \in Blocks
  BY <1>1, TipType
<1>3. chain' = SubSeq(chain, 1, n)
  BY DEF InvalidateBlock, Front
<1>4. chain \in Seq(Blocks) /\ Len(chain) > 1
  BY <1>1 DEF TypeOK, InvalidateBlock
<1>5. /\ chain' \in Seq(Blocks) /\ chain' # <<>> /\ DOMAIN chain' = 1..n
      /\ \A i \in 1..n : i \in DOMAIN chain /\ chain'[i] = chain[i]
  BY <1>3, <1>4, FrontOfSeq
<1>6. chain[n] \in Blocks
  BY <1>4, FrontOfSeq
<1>7. /\ pool' \in SUBSET Txs /\ bug' \in BOOLEAN
      /\ script_cache' \in SUBSET (Txs \X Flags) /\ CacheSound'
  <2>1. Tip.txs \ pool \in SUBSET Txs
    BY <1>2 DEF Blocks
  <2>2. AcceptOn(Tip.txs \ pool, chain[n])
    BY DEF InvalidateBlock
  <2> QED
    BY <1>1, <1>6, <2>1, <2>2, AcceptInv
<1>8. TypeOK'
  BY <1>1, <1>5, <1>7 DEF TypeOK, InvalidateBlock
<1>9. BlocksValid'
  BY <1>1, <1>5 DEF BlocksValid, ScriptsPass
<1> QED
  BY <1>7, <1>8, <1>9 DEF MempoolInv

(* Every step keeps MempoolInv. *)
LEMMA StepMempoolInv == MempoolInv /\ [Next]_vars => MempoolInv'
<1> SUFFICES ASSUME MempoolInv, [Next]_vars PROVE MempoolInv'
  OBVIOUS
<1>0. TypeOK /\ CacheSound /\ BlocksValid
  BY DEF MempoolInv
<1>1. ASSUME NEW tx \in Txs, AcceptToMemoryPool(tx) PROVE MempoolInv'
  <2>1. Tip \in Blocks /\ {tx} \in SUBSET Txs
    BY <1>0, TipType
  <2>2. /\ pool' \in SUBSET Txs /\ bug' \in BOOLEAN
        /\ script_cache' \in SUBSET (Txs \X Flags) /\ CacheSound'
    BY <1>0, <1>1, <2>1, AcceptInv DEF AcceptToMemoryPool
  <2> QED
    BY <1>0, <1>1, <2>2, SameChain DEF MempoolInv, TypeOK, AcceptToMemoryPool
<1>2. ASSUME NEW txs \in SUBSET Txs, ConnectTip(txs) PROVE MempoolInv'
  BY <1>2, ConnectInv
<1>3. ASSUME NEW txs \in SUBSET pool, CreateNewBlock(txs) PROVE MempoolInv'
  <2> DEFINE flags == GetBlockScriptFlags(Tip.next_active)
  <2>1. flags \in Flags
    BY <1>0, TipType, BlockFlagsType DEF Blocks
  <2>2. txs \in SUBSET Txs
    BY <1>0 DEF TypeOK
  <2>3. /\ \A tx \in txs : CheckInputScripts(tx, flags)
        /\ script_cache' \subseteq script_cache \cup Store(txs, flags)
    BY <1>3 DEF CreateNewBlock
  <2> HIDE DEF flags
  <2>4. script_cache' \in SUBSET (Txs \X Flags) /\ CacheSound'
    BY <1>0, <2>1, <2>2, <2>3, StoreIsSound
  <2> QED
    BY <1>0, <1>3, <2>4, SameChain DEF MempoolInv, TypeOK, CreateNewBlock
<1>4. CASE InvalidateBlock
  BY <1>4, InvalidateInv
<1>5. CASE UNCHANGED vars
  BY <1>0, <1>5 DEF vars, MempoolInv, TypeOK, CacheSound, BlocksValid, ScriptsPass
<1> QED
  BY <1>1, <1>2, <1>3, <1>4, <1>5 DEF Next

(* MempoolInv is an invariant. *)
THEOREM MempoolInvariant == Spec => []MempoolInv
BY InitMempoolInv, StepMempoolInv, PTL DEF Spec

(* The variables of the memory pool and the chain keep their types. *)
THEOREM MempoolTypeCorrect == Spec => []TypeOK
<1>1. MempoolInv => TypeOK
  BY DEF MempoolInv
<1> QED
  BY MempoolInvariant, <1>1, PTL

(* Whatever the script cache answered, every transaction of the chain      *)
(* passes the scripts under the flags of its own block.                    *)
THEOREM MempoolBlocksValid == Spec => []BlocksValid
<1>1. MempoolInv => BlocksValid
  BY DEF MempoolInv
<1> QED
  BY MempoolInvariant, <1>1, PTL

-----------------------------------------------------------------------------
(* The deployment never goes from active to inactive along the chain, and  *)
(* it is never active on the main network.                                 *)
DeploymentInv ==
    \A i \in DOMAIN chain : /\ chain[i].active => chain[i].next_active
                            /\ network = "main" => ~chain[i].next_active

(* Every transaction of the pool passes under the flags of an active       *)
(* block, whatever the tip was when it was accepted.                       *)
PoolActive == \A tx \in pool : ScriptsPass(tx, GetBlockScriptFlags(TRUE))

PoolInv == MempoolInv /\ DeploymentInv /\ PoolActive /\ MempoolMinable /\ ConfirmedOnce

(* What is accepted passes under the flags of the tip it was accepted on   *)
(* and under those of an active block.                                     *)
LEMMA AcceptedPass ==
    ASSUME TypeOK, CacheSound, NEW txs \in SUBSET Txs, NEW tip \in Blocks,
           NEW tx \in Accepted(txs, tip)
    PROVE  /\ tx \in txs
           /\ ScriptsPass(tx, GetBlockScriptFlags(tip.active))
           /\ ScriptsPass(tx, GetBlockScriptFlags(TRUE))
<1>1. tx \in txs /\ tx \in Txs
  BY DEF Accepted, Candidates
<1>2. ScriptsPass(tx, GetBlockScriptFlags(tip.active))
  <2>1. CheckInputScripts(tx, GetBlockScriptFlags(tip.active))
    BY DEF Accepted, ConsensusScriptChecks
  <2>2. GetBlockScriptFlags(tip.active) \in Flags
    BY BlockFlagsType DEF Blocks
  <2> QED
    BY <1>1, <2>1, <2>2, CheckIsSound
<1>3. ScriptsPass(tx, GetBlockScriptFlags(TRUE))
  <2>1. CheckInputScripts(tx, STANDARD_SCRIPT_VERIFY_FLAGS)
    BY DEF Accepted, Candidates, PolicyScriptChecks
  <2>2. STANDARD_SCRIPT_VERIFY_FLAGS \in Flags
    BY DEF STANDARD_SCRIPT_VERIFY_FLAGS, Flags
  <2>3. ScriptsPass(tx, STANDARD_SCRIPT_VERIFY_FLAGS)
    BY <1>1, <2>1, <2>2, CheckIsSound
  <2>4. tx.script \in Seq(Ops)
    BY <1>1, MempoolAssumption
  <2> QED
    BY <2>3, <2>4, StandardIsActive DEF ScriptsPass
<1> QED
  BY <1>1, <1>2, <1>3

(* Scripts that pass under the flags of a block and under those of an      *)
(* active one also pass in a block that is as active, or more.             *)
LEMMA PassesLater ==
    ASSUME NEW tx, NEW a \in BOOLEAN, NEW b \in BOOLEAN, a => b,
           ScriptsPass(tx, GetBlockScriptFlags(a)), ScriptsPass(tx, GetBlockScriptFlags(TRUE))
    PROVE  ScriptsPass(tx, GetBlockScriptFlags(b))
<1>1. CASE b
  <2>1. b = TRUE
    BY <1>1
  <2> QED
    BY <2>1
<1>2. CASE ~b
  <2>1. a = b
    BY <1>2
  <2> QED
    BY <2>1
<1> QED
  BY <1>1, <1>2

(* AcceptOn adds transactions that can be mined after the given block. *)
LEMMA AcceptPool ==
    ASSUME TypeOK, CacheSound, PoolActive, NEW txs \in SUBSET Txs, NEW tip \in Blocks,
           tip.active => tip.next_active, AcceptOn(txs, tip)
    PROVE  /\ PoolActive'
           /\ pool \subseteq pool' /\ pool' \subseteq pool \cup txs
           /\ \A tx \in pool' \ pool : ScriptsPass(tx, GetBlockScriptFlags(tip.next_active))
<1>1. pool' = pool \cup Accepted(txs, tip)
  BY DEF AcceptOn
<1>2. ASSUME NEW tx \in Accepted(txs, tip)
      PROVE  /\ tx \in txs
             /\ ScriptsPass(tx, GetBlockScriptFlags(TRUE))
             /\ ScriptsPass(tx, GetBlockScriptFlags(tip.next_active))
  <2>1. tip.active \in BOOLEAN /\ tip.next_active \in BOOLEAN
    BY DEF Blocks
  <2>2. /\ tx \in txs
        /\ ScriptsPass(tx, GetBlockScriptFlags(tip.active))
        /\ ScriptsPass(tx, GetBlockScriptFlags(TRUE))
    BY AcceptedPass
  <2> QED
    BY <2>1, <2>2, PassesLater
<1>3. \A tx \in pool' : ScriptsPass(tx, GetBlockScriptFlags(TRUE))
  BY <1>1, <1>2 DEF PoolActive
<1>4. PoolActive'
  BY <1>3 DEF PoolActive, ScriptsPass
<1> QED
  BY <1>1, <1>2, <1>4

(* ConfirmedOnce, block by block. *)
LEMMA ConfirmedByBlock ==
    ConfirmedOnce <=> /\ \A i \in DOMAIN chain : \A tx \in pool : tx \notin chain[i].txs
                      /\ \A i, j \in DOMAIN chain :
                            (\E tx \in chain[i].txs : tx \in chain[j].txs) => i = j
BY DEF ConfirmedOnce, Confirmed

(* The first block is empty, and so is the pool. *)
LEMMA InitPoolInv == Init => PoolInv
<1> SUFFICES ASSUME Init PROVE PoolInv
  OBVIOUS
<1>1. PICK active \in DeploymentAfter(FALSE) : \E next \in DeploymentAfter(active) :
         chain = <<[active |-> active, next_active |-> next, txs |-> {}]>>
  BY DEF Init
<1>2. PICK next \in DeploymentAfter(active) :
         chain = <<[active |-> active, next_active |-> next, txs |-> {}]>>
  BY <1>1
<1>3. /\ active => next
      /\ network = "main" => ~next
  <2>1. CASE network = "main"
    BY <2>1 DEF DeploymentAfter
  <2>2. CASE network # "main"
    BY <2>2 DEF DeploymentAfter
  <2> QED
    BY <2>1, <2>2
<1>4. DeploymentInv
  BY <1>2, <1>3 DEF DeploymentInv
<1>5. PoolActive /\ MempoolMinable
  BY DEF Init, PoolActive, MempoolMinable
<1>6. ConfirmedOnce
  BY <1>2 DEF ConfirmedOnce, Confirmed, Init
<1> QED
  BY <1>4, <1>5, <1>6, InitMempoolInv DEF PoolInv

(* A new transaction is not in the chain. *)
LEMMA AcceptPoolInv ==
    ASSUME PoolInv, NEW tx \in Txs, AcceptToMemoryPool(tx)
    PROVE  DeploymentInv' /\ PoolActive' /\ MempoolMinable' /\ ConfirmedOnce'
<1>1. TypeOK /\ CacheSound /\ DeploymentInv /\ PoolActive /\ MempoolMinable /\ ConfirmedOnce
  BY DEF PoolInv, MempoolInv
<1>2. Tip \in Blocks /\ Tip = chain[Len(chain)] /\ Len(chain) \in DOMAIN chain
  BY <1>1, TipType DEF TypeOK
<1>3. /\ {tx} \in SUBSET Txs /\ AcceptOn({tx}, Tip) /\ tx \notin Confirmed
      /\ UNCHANGED <<network, chain, deactivated>>
  BY DEF AcceptToMemoryPool
<1>4. Tip.active => Tip.next_active
  BY <1>1, <1>2 DEF DeploymentInv
<1>5. /\ PoolActive'
      /\ pool \subseteq pool' /\ pool' \subseteq pool \cup {tx}
      /\ \A t \in pool' \ pool : ScriptsPass(t, GetBlockScriptFlags(Tip.next_active))
  BY <1>1, <1>2, <1>3, <1>4, AcceptPool
<1>6. DeploymentInv'
  BY <1>1, <1>3 DEF DeploymentInv
<1>7. MempoolMinable'
  <2>1. Tip' = Tip
    BY <1>3 DEF Tip
  <2>2. ~deactivated => \A t \in pool' : ScriptsPass(t, GetBlockScriptFlags(Tip.next_active))
    BY <1>1, <1>5 DEF MempoolMinable
  <2> QED
    BY <1>3, <2>1, <2>2 DEF MempoolMinable, ScriptsPass
<1>8. ConfirmedOnce'
  BY <1>1, <1>3, <1>5 DEF ConfirmedOnce, Confirmed
<1> QED
  BY <1>5, <1>6, <1>7, <1>8

(* A connected block holds transactions that were not in the chain, and    *)
(* the pool gives them up; it does not undo the activation.                *)
LEMMA ConnectPoolInv ==
    ASSUME PoolInv, NEW txs \in SUBSET Txs, ConnectTip(txs)
    PROVE  DeploymentInv' /\ PoolActive' /\ MempoolMinable' /\ ConfirmedOnce'
<1>1. TypeOK /\ CacheSound /\ DeploymentInv /\ PoolActive /\ MempoolMinable /\ ConfirmedOnce
  BY DEF PoolInv, MempoolInv
<1>2. /\ Tip \in Blocks /\ Tip = chain[Len(chain)] /\ Len(chain) \in DOMAIN chain
      /\ Len(chain) \in Nat
  BY <1>1, TipType DEF TypeOK
<1>3. /\ pool' = pool \ txs /\ txs \cap Confirmed = {}
      /\ UNCHANGED <<network, deactivated>>
  BY DEF ConnectTip, RemovedForBlock
<1>4. PICK next \in DeploymentAfter(Tip.next_active) :
         chain' = Append(chain, [active |-> Tip.next_active, next_active |-> next,
                                 txs |-> txs])
  BY DEF ConnectTip
<1> DEFINE block == [active |-> Tip.next_active, next_active |-> next, txs |-> txs]
<1>5. /\ Tip.next_active => next
      /\ network = "main" => ~next
      /\ next \in BOOLEAN
  <2>1. CASE network = "main"
    <3>1. ~Tip.next_active
      BY <1>1, <1>2, <2>1 DEF DeploymentInv
    <3> QED
      BY <2>1, <3>1 DEF DeploymentAfter
  <2>2. CASE network # "main"
    BY <2>2 DEF DeploymentAfter
  <2> QED
    BY <2>1, <2>2
<1>6. /\ block.active = Tip.next_active /\ block.next_active = next /\ block.txs = txs
      /\ chain' = Append(chain, block)
  BY <1>4
<1> HIDE DEF block
<1>7. /\ DOMAIN chain' = DOMAIN chain \cup {Len(chain) + 1}
      /\ Len(chain) + 1 \notin DOMAIN chain
      /\ chain'[Len(chain) + 1] = block
      /\ \A i \in DOMAIN chain : chain'[i] = chain[i]
      /\ Len(chain') = Len(chain) + 1
  BY <1>1, <1>6 DEF TypeOK
<1>8. DeploymentInv'
  BY <1>1, <1>3, <1>5, <1>6, <1>7 DEF DeploymentInv
<1>9. PoolActive'
  BY <1>1, <1>3 DEF PoolActive, ScriptsPass
<1>10. MempoolMinable'
  <2>1. Tip' = block
    BY <1>7 DEF Tip, Last
  <2>2. ASSUME NEW t \in pool', ~deactivated
        PROVE  ScriptsPass(t, GetBlockScriptFlags(next))
    <3>1. ScriptsPass(t, GetBlockScriptFlags(TRUE))
      BY <1>1, <1>3, <2>2 DEF PoolActive
    <3>2. ScriptsPass(t, GetBlockScriptFlags(Tip.next_active))
      BY <1>1, <1>3, <2>2 DEF MempoolMinable
    <3>3. Tip.next_active \in BOOLEAN
      BY <1>2 DEF Blocks
    <3> QED
      BY <1>5, <3>1, <3>2, <3>3, PassesLater
  <2>3. Tip'.next_active = next
    BY <1>6, <2>1
  <2> QED
    BY <1>3, <2>2, <2>3 DEF MempoolMinable, ScriptsPass
<1>11. ConfirmedOnce'
  <2>1. /\ \A i \in DOMAIN chain : \A tx \in pool : tx \notin chain[i].txs
        /\ \A i, j \in DOMAIN chain : (\E tx \in chain[i].txs : tx \in chain[j].txs) => i = j
    BY <1>1, ConfirmedByBlock
  <2>2. \A i \in DOMAIN chain : \A tx \in txs : tx \notin chain[i].txs
    BY <1>3 DEF Confirmed
  <2>3. ASSUME NEW i \in DOMAIN chain', NEW tx \in pool' PROVE tx \notin chain'[i].txs
    BY <1>3, <1>6, <1>7, <2>1
  <2>4. ASSUME NEW i \in DOMAIN chain', NEW j \in DOMAIN chain',
               NEW tx \in chain'[i].txs, tx \in chain'[j].txs
        PROVE  i = j
    BY <1>6, <1>7, <2>1, <2>2, <2>4
  <2> QED
    BY <2>3, <2>4 DEF ConfirmedOnce, Confirmed
<1> QED
  BY <1>8, <1>9, <1>10, <1>11

(* A disconnected block gives its own transactions back, which are in no   *)
(* block below it; they are checked against the flags of the new tip.      *)
LEMMA InvalidatePoolInv ==
    ASSUME PoolInv, InvalidateBlock
    PROVE  DeploymentInv' /\ PoolActive' /\ MempoolMinable' /\ ConfirmedOnce'
<1>1. TypeOK /\ CacheSound /\ DeploymentInv /\ PoolActive /\ MempoolMinable /\ ConfirmedOnce
  BY DEF PoolInv, MempoolInv
<1> DEFINE n == Len(chain) - 1
<1>2. /\ Tip \in Blocks /\ Tip = chain[Len(chain)] /\ Len(chain) \in DOMAIN chain
      /\ Len(chain) \in Nat /\ chain \in Seq(Blocks) /\ Len(chain) > 1
  BY <1>1, TipType DEF TypeOK, InvalidateBlock
<1>3. chain' = SubSeq(chain, 1, n)
  BY DEF InvalidateBlock, Front
<1>4. /\ chain' \in Seq(Blocks) /\ DOMAIN chain' = 1..n
      /\ \A i \in 1..n : i \in DOMAIN chain /\ chain'[i] = chain[i]
      /\ chain[n] \in Blocks /\ n \in DOMAIN chain /\ n \in 1..n
  BY <1>2, <1>3, FrontOfSeq
<1>5. Tip' = chain[n]
  <2>1. Len(chain') = n
    BY <1>2, <1>4
  <2> QED
    BY <1>4, <2>1 DEF Tip, Last
<1>6. chain[n].active => chain[n].next_active
  BY <1>1, <1>4 DEF DeploymentInv
<1>7. /\ PoolActive'
      /\ pool \subseteq pool' /\ pool' \subseteq pool \cup (Tip.txs \ pool)
      /\ \A t \in pool' \ pool : ScriptsPass(t, GetBlockScriptFlags(chain[n].next_active))
  <2>1. Tip.txs \ pool \in SUBSET Txs
    BY <1>2 DEF Blocks
  <2>2. AcceptOn(Tip.txs \ pool, chain[n])
    BY DEF InvalidateBlock
  <2> QED
    BY <1>1, <1>4, <1>6, <2>1, <2>2, AcceptPool
<1>8. DeploymentInv'
  BY <1>1, <1>4 DEF DeploymentInv, InvalidateBlock
<1>9. MempoolMinable'
  <2>1. ASSUME ~deactivated', NEW t \in pool'
        PROVE  ScriptsPass(t, GetBlockScriptFlags(chain[n].next_active))
    <3>1. ~deactivated /\ Tip.next_active = chain[n].next_active
      BY <2>1 DEF InvalidateBlock
    <3>2. CASE t \in pool
      BY <1>1, <3>1, <3>2 DEF MempoolMinable
    <3> QED
      BY <1>7, <3>2
  <2> QED
    BY <1>5, <2>1 DEF MempoolMinable, ScriptsPass
<1>10. ConfirmedOnce'
  <2>1. /\ \A i \in DOMAIN chain : \A tx \in pool : tx \notin chain[i].txs
        /\ \A i, j \in DOMAIN chain : (\E tx \in chain[i].txs : tx \in chain[j].txs) => i = j
    BY <1>1, ConfirmedByBlock
  <2>2. ASSUME NEW i \in DOMAIN chain', NEW tx \in pool' PROVE tx \notin chain'[i].txs
    <3>1. i \in DOMAIN chain /\ chain'[i] = chain[i] /\ i # Len(chain)
      BY <1>2, <1>4
    <3>2. CASE tx \in pool
      BY <2>1, <3>1, <3>2
    <3>3. CASE tx \in Tip.txs
      BY <1>2, <2>1, <3>1, <3>3
    <3> QED
      BY <1>7, <3>2, <3>3
  <2>3. ASSUME NEW i \in DOMAIN chain', NEW j \in DOMAIN chain',
               NEW tx \in chain'[i].txs, tx \in chain'[j].txs
        PROVE  i = j
    BY <1>4, <2>1, <2>3
  <2> QED
    BY <2>2, <2>3 DEF ConfirmedOnce, Confirmed
<1> QED
  BY <1>7, <1>8, <1>9, <1>10

(* Every step keeps PoolInv. *)
LEMMA StepPoolInv == PoolInv /\ [Next]_vars => PoolInv'
<1> SUFFICES ASSUME PoolInv, [Next]_vars
             PROVE  DeploymentInv' /\ PoolActive' /\ MempoolMinable' /\ ConfirmedOnce'
  BY StepMempoolInv DEF PoolInv
<1>1. ASSUME NEW tx \in Txs, AcceptToMemoryPool(tx)
      PROVE  DeploymentInv' /\ PoolActive' /\ MempoolMinable' /\ ConfirmedOnce'
  BY <1>1, AcceptPoolInv
<1>2. ASSUME NEW txs \in SUBSET Txs, ConnectTip(txs)
      PROVE  DeploymentInv' /\ PoolActive' /\ MempoolMinable' /\ ConfirmedOnce'
  BY <1>2, ConnectPoolInv
<1>3. CASE InvalidateBlock
  BY <1>3, InvalidatePoolInv
<1>4. ASSUME UNCHANGED <<network, chain, pool, deactivated>>
      PROVE  DeploymentInv' /\ PoolActive' /\ MempoolMinable' /\ ConfirmedOnce'
  BY <1>4 DEF PoolInv, DeploymentInv, PoolActive, MempoolMinable, ConfirmedOnce, Confirmed,
              Tip, ScriptsPass
<1>5. ASSUME NEW txs \in SUBSET pool, CreateNewBlock(txs)
      PROVE  UNCHANGED <<network, chain, pool, deactivated>>
  BY <1>5 DEF CreateNewBlock
<1> QED
  BY <1>1, <1>2, <1>3, <1>4, <1>5 DEF Next, vars

(* PoolInv is an invariant. *)
THEOREM PoolInvariant == Spec => []PoolInv
BY InitPoolInv, StepPoolInv, PTL DEF Spec

(* As long as no activation was undone, the next block may hold any        *)
(* transaction of the pool: CreateNewBlock does not fail on the scripts of *)
(* a transaction accepted before the activation.                           *)
THEOREM MempoolMinability == Spec => []MempoolMinable
<1>1. PoolInv => MempoolMinable
  BY DEF PoolInv
<1> QED
  BY PoolInvariant, <1>1, PTL

(* Over any sequence of blocks connected and disconnected, no transaction  *)
(* is in two blocks, or in a block and in the pool.                        *)
THEOREM MempoolConfirmedOnce == Spec => []ConfirmedOnce
<1>1. PoolInv => ConfirmedOnce
  BY DEF PoolInv
<1> QED
  BY PoolInvariant, <1>1, PTL
=============================================================================
