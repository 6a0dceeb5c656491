# Verification of QSBitcoin

QSBitcoin is a fork of Bitcoin Core that adds ML-DSA-65 and SLH-DSA-192f
signatures: two script opcodes, a deployment that switches them on, relay
policy, and wallet support. These TLA+ modules model that code and the parts of
the node that carry it: the deployment's state, the parallel script checks, the
download of transactions, and the set of unspent outputs with its way to the
disk. TLC checks them on small instances, and TLAPS proves the safety properties
of the wallet, of signing, of the script rules, of the pool, of the deployment's
state, of the script checks and of the request tracker, and that a stopped node
can start again as long as it has not built on a write that failed, for every
instance. Paths below are relative to the repository root; the table `map` of
`PROJECT.json` gives the source lines of every definition.

## 1. The system

| Component | State | Operations | Interacts with |
|---|---|---|---|
| Address creation (`wallet/wallet.cpp`, `quantum_wallet_setup.cpp`) | `m_spk_managers`, `m_cached_spks`, address book | `GetNewQuantumDestination`, `SetupQuantumDescriptor` | calls the SPKMs and the database; called by `getnewaddress` |
| `DescriptorScriptPubKeyMan` (SPKM, `scriptpubkeyman.cpp`) | quantum keys, tracked scripts with their index, witness scripts, the descriptor's range | `AddQuantumKey`, `AddScriptPubKey`, `AddWitnessScript`, `MarkUnusedAddresses`, `TopUp`, `Encrypt`, `SignTransaction` | `TopUpCallback` into the wallet; one record per change in the database |
| Wallet database (`walletdb.cpp`, `sqlite.cpp`) | descriptor, key, script, witness script, name and master key records | single writes, each a commit; load | rebuilds the wallet and the SPKMs |
| Signing (`CWallet::SignTransaction`, `script/sign.cpp`) | the witnesses of the transaction, `input_errors` | every SPKM in turn | `GetSigningProvider`, `PopulateQuantumSigningProvider` |
| Script rules (`script/interpreter.cpp`) | a stack | pushes, `OP_CHECKSIG_EX`, `OP_CHECKSIGVERIFY_EX` | flags from policy or from the block |
| Relay policy (`policy/policy.cpp`, `quantum_policy.cpp`) | none | `IsWitnessStandard`, `CheckQuantumSignaturePolicy` | called by `PreChecks` |
| Mempool and chain (`validation.cpp`, `node/miner.cpp`) | pool, active chain, script-execution cache | accept, connect, mine, invalidate | script rules under the flags of tip, block or policy |
| Deployment (`versionbits.cpp`, `kernel/chainparams.cpp`) | two caches of threshold states per period end | `GetStateFor`, `GetStateSinceHeightFor`, `GetStateStatisticsFor`, `ComputeBlockVersion`, `CheckUnknownActivations` | `GetBlockScriptFlags`, the miner, RPC, warnings |
| Script checks (`checkqueue.h`) | queue, result, three counters, two condition variables | `Add`, `Complete`, `Loop`, the destructor | `ConnectBlock` is the master; workers run `CScriptCheck` |
| Request tracker (`txrequest.cpp`) | announcements in five states | `ReceivedInv`, `GetRequestable`, `RequestedTx`, `ReceivedResponse`, `DisconnectedPeer`, `ForgetTxHash` | `TxDownloadManagerImpl` |
| Transaction download (`node/txdownloadman_impl.cpp`) | the tracker, peers, what is known | `AddTxAnnouncement`, `GetRequestsToSend`, `ReceivedTx`, `ReceivedNotFound`, block and mempool events | message processing, mempool |
| Coins and their storage (`coins.cpp`, `txdb.cpp`, `validation.cpp`) | cache entries with flags, coins database, block index, block files | connect, disconnect, flush, sync, replay at start | `Chainstate`, LevelDB |
| Keys and schemes (`crypto/quantum_*.cpp`, `oqs_wrapper.cpp`, `*_scheme.cpp`) | key material | generate, sign, verify, encode | liboqs |

What is hard here:

* **Crashes and failed writes.** One address is up to five commits, and each of
  them may fail or be the last before the process stops. Some failures end the
  call, some are logged only, one moves the caller's key away and sends the call
  down another path.
* **Two copies of one relation.** `m_cached_spks` and the maps of the SPKMs are
  kept in step by callbacks and rebuilt by each load; the wallet consults the
  first.
* **Two kinds of index in one map.** Addresses take negative indices from a
  counter that all wallets of the process share, and the descriptor's own script
  has index 0.
* **Order.** SPKMs come from a set of pointers, so the descriptor a key joins and
  the order of signers vary. A signer undoes its work when the first input it
  changed did not grow.
* **Flags that change.** The pool checks against the standard flags and the tip's
  flags, a block against its own, and cached results come from any of these.
* **Threads.** Script checks run on workers that share a queue, a result and
  counters with the master, and sleep on two condition variables; a worker
  outlives the block whose checks it ran.
* **Caches filled in any order.** Validation, miner, RPC and warnings ask for the
  deployment's state on any branch, and every question fills a cache that the
  next one trusts.
* **Peers.** They announce what they do not deliver, answer late or not at all,
  and leave; and the clock can go back.
* **The disk.** A flush is many unsynced batches over three stores. A crash loses
  any number of the last ones, a replay meets coins that have some of a block's
  effects already, and the replay can crash too.
* **Sizes.** Signatures and keys pass through limits that depend on the flags.

What makes each component correct: a key and a script have one owner; caches
agree with what they cache; an address given to the user can be found and signed
for, and still can after a restart; a signature that verifies is
not lost; only the owner's signature spends an address; every block is valid
under its own flags; the pool can be mined; the deployment's state depends on the
branch alone; a block's verdict is that of its own checks, and it comes; a
transaction that an honest peer has is fetched; the coins are those of the chain,
in memory and after any crash.

## 2. Modules

| Module | Models | Uses |
|---|---|---|
| `QuantumWallet` | address creation, SPKM, database, encryption, load and crash | `AddressLedger` (refined) |
| `AddressLedger` | abstract: addresses are given out for durable keys, and nothing is lost | |
| `TxSigning` | `CWallet::SignTransaction` over the SPKMs | assumes `OneOwner` of `QuantumWallet` |
| `QuantumScript` | interpreter and policy rules, as operators | |
| `QuantumScriptCheck` | builds every spend up to a size, states the rules' properties | `QuantumScript` |
| `QuantumMempool` | pool, cache and chain around activation | `QuantumScript` |
| `VersionBits` | the deployment's state and its caches over a growing tree of headers | |
| `CheckQueue` | master and workers of the script checks | |
| `TxRequestTracker` | the tracker's data structure, as operators on the announcements of one transaction | |
| `TxRequest` | the tracker under any calls | `TxRequestTracker`; `TxRequestRules` (refined) |
| `TxRequestRules` | abstract: three states, and who may be asked | |
| `TxDownload` | the download manager, with honest and other peers | `TxRequestTracker` |
| `CoinsView` | one entry of `CCoinsViewCache`, as operators | |
| `CoinsFlush` | chain state in memory and on disk, flush, crash, replay | `CoinsView` |
| `MC...` | symmetry sets and constant values for TLC | |
| `..._proofs` | the theorems on the module of that name (section 4) | its module; `QuantumScript_proofs` is about `QuantumScriptCheck` too and used by `QuantumMempool_proofs`; `TxRequest_proofs` is about `TxDownload` too |

### QuantumWallet

The variables carry the names of the members they model; `db_...` are the
records of the file, `pc`, `key`, `has_key`, `qkey`, `quantum_spkm_used` the
progress and locals of the call. `cs_wallet` is held for the whole call, so other wallet
operations need `pc = "idle"`; the model cuts the call at each database write,
which is where a crash can be told from a completed step. Each writing action
has a branch in which the write fails, with what the code does then.

| Action | Code |
|---|---|
| `GetNewQuantumDestination` | key generation at the head of the call |
| `AddToExisting`, `NoneExisting` | the search for an SPKM with quantum keys |
| `SetupQuantumDescriptor`, `SetupFails`, `SetupAddQuantumKey` | a new descriptor and its key, or its exceptions |
| `AddScriptPubKey`, `AddWitnessScript`, `ReturnDestination` | scripts, label, verification, answer |
| `Receive` | `MarkUnusedAddresses` and `TopUp`, with failing begin and commit |
| `EncryptWallet`, `Lock`, `Unlock` | encryption; "stuck" is the wallet whose transaction could not begin |
| `UnloadWallet`, `LoadWallet`, `Crash` | everything in memory goes, the file stays |
| `OtherWallet` | another wallet takes an index of the static counter |

`generated`, `handed`, `session`, `lost` and `dirty` are history variables.
Abstractions: a key is a model value; the id of a descriptor is the key it is built
from; quantum descriptors are not ranged, so a range is empty or {0}; classical
keys and SPKMs are left out, and so is the payload of records.

### TxSigning

One action per SPKM tried, in any order. The witness of an input is empty, only
the script, a stale signature (made for another version of the transaction), or
a valid one. The starting witnesses, known coins, known amounts and keys are
chosen in `Init`, and so are the inputs that have no output of their index
(`unmatched`): with SIGHASH_SINGLE these are not signed, and with another type of
hash that set is empty. A witness over an unknown amount is an error even if it
is complete.

### QuantumScript, QuantumScriptCheck

A stack element is a kind and a key, with the size its bytes have in the code;
a script is a sequence of pushes and the two quantum opcodes. A signature
verifies for the key it was made with: cryptography is assumed.
`QuantumScriptCheck` has no counterpart in the code: it enumerates spends
(specification `Spends`).

### QuantumMempool

Each action is a function that holds `cs_main`. A transaction is its one quantum
input. `DeploymentAfter` stands for the version bits: never active on the main
network, always on the test networks, and decided by the blocks and then for
good on a chain with `-vbparams`: what the pool and the blocks see of the state
that `VersionBits` models in full. Cache entries may be dropped only where the
code asks for it; eviction for space would only make lookups fail, which leads to
the same checks. All blocks have their scripts checked: those under `-assumevalid`
(`validation.cpp:2480` to `2509`), which the code takes to be valid, are left out.

### VersionBits

`index` is the block index, `cache` and `warn_cache` are `m_caches` and
`m_warning_caches`. A query is an action for what it leaves in the caches, and its
answer an operator of the state, so the invariants say what it would answer
now. `Walked` and `StateOf` are the two loops of `GetStateFor`. `Query` stands for
`IsActiveAfter`, `ComputeBlockVersion` and `GBTStatus`, which only ask for the
state after one block. `RuleState` is the reference: the rule of BIP 9 stated on
the period ends of a branch, with no walking and no cache. A block is its
signal and its median time past; one version bit stands for all.

### CheckQueue

A critical section under `m_mutex` is one action, and `pc` says where a thread
is outside it. `LoopHead` is the part of the section that every pass of `Loop`
comes to (return, wait, exit, or take a batch); `LoopStart`, `LoopAgain` and
`Relock` differ in what comes before: entering, the clean-up of a finished
batch, the return from `wait`. A check's result stays with a thread that could
not swap it in, as in the code. `Add` and its notification are two actions,
since the lock is released in between. Waking up spuriously is possible at all
times. The master is a sequence of control objects, then the destructor.

### TxRequestTracker, TxRequest, TxRequestRules, TxDownload

The multi-index is a function from transaction and peer to an announcement:
the neighbours that the code looks at in the sorted index are found by what they
are. The states are the code's five. The order of replies is kept as a
sequence per peer. `TxRequestRules` is written from the comments of `txrequest.h`:
three states, no selection kept, and `GetRequestable` defined by who may be
asked; `Rules` maps the three kinds of candidate to one. The specification of the
tracker alone is `TrackerSpec`.

`SetTimePoint` goes over the announcements in the order of their times, and the
index says nothing of those whose times are equal; so it has a set of outcomes,
one for each such order (`EarliestFirst`, `LatestFirst`), and `AtTime` chooses one
per transaction. The proofs show that the choice is not seen outside.

In `TxDownload` times are relative to the present, so the clock needs no bound.
A peer outside `Honest` announces and answers what it likes; `getdata` holds
the requests on the way. `BlockConnected` and `BlockDisconnected` are the events
that make a transaction known and unknown again without any peer.
`BroadcastTransaction` puts one into the pool by another way than the network
(the node's own, or one of a disconnected block): it is known then, and the tracker
is not told.

### CoinsView, CoinsFlush

`CoinsView` has one operator per method, on one entry and on what the base has
for that outpoint. A coin is its height. In `CoinsFlush` a block is applied to
a temporary view over `CoinsTip` and that view is flushed into it, as
`ConnectTip` and `DisconnectTip` do. `FlushStateToDisk` is cut where the disk can
tell: `FlushBlockFiles`, `WriteBlockIndexDB`, `WritePartialBatch`, `WriteFinalBatch`.
Each of them can fail, with what the code does then: an unsynced file is warned
about and the flush goes on; the entries of `dirty_index` are off the list before
they are written (`WriteBlockIndexFails`); the coins a `Sync` has put into a batch
are clean before it is written (`WriteFails`). After the last two the node shuts
down, and the shutdown flushes once more.

Four history variables say what failed writes left behind: `unsynced`, `unindexed`
and `forgotten` (what is taken for synced or written and is not), and `damaged`, which
becomes true when a write is made that relies on such a thing: index entries
after a failed sync, coins of a chain with an entry that is not on the disk, or a
last batch without the forgotten coins. What is true of the disk until then is
the subject of the invariants. That the code does get there is shown by the run
`LastBatchConsistent` (section 3).

`stable` is what a crash would leave of the database: it may lag behind `db` by
any number of batches. `Restart` loads the index, and either takes the best block
or replays between the two heads, up to the flush of the replay, which then is
written batch by batch as well. `Replayed` goes the way of `ReplayBlocks`: back
from the old tip to the height of `LastCommonAncestor`, then forward along
`GetAncestor`. `Utxo` is the reference: the outputs that a chain leaves unspent,
by definition. Blocks are valid (`ValidBlocks`): a transaction spends what is there
(`CheckTxInputs`) and creates what is not (BIP 30; the two coinbases of 2010 that
repeated earlier ones are left out). TLC evaluates the assumption on the run's
blocks.

## 3. Runs

| Run | Bounds | Shows |
|---|---|---|
| `QuantumWallet` | 3 keys (2 ML-DSA), 1 crash, 2 failed writes, 2 shared indices; 850 thousand states | `OneOwner`, `CacheCoherent`, `HandedOutUsable`, `HandedOutDurable`, `RestartTransparent`, `RangeMatchesExpansion`, `ImplementsLedger` |
| `TxSigning` | 3 inputs, 2 SPKMs, every starting witness; 2.2 million states | `ValidStaysValid`, `Outcome` |
| `QuantumScript` | 2 witness elements, 4 operations, 3 keys; 2 million spends | `AddressSpending`, `TwoKeySpending`, `StandardImpliesActive` |
| `QuantumMempool` | 4 transactions, 4 blocks, 3 networks | `BlocksValid`, `MempoolMinable`, `ConfirmedOnce` |
| `VersionBits` | 10 headers on two branches, periods of 2, 3 deployments; 24 thousand states | `StateByRule`, `InfoIsRight`, `WarningByRule` |
| `CheckQueue` | 2 workers, 2 blocks, transactions of 4 and 1 checks, batches of 2; 120 thousand states | `CompleteIsRight`, `CountersCount`, `NoLostWakeup`, `CompleteReturns`, `WorkersExit` |
| `TxRequest` | 3 peers (1 preferred), 2 transactions, 3 times; 33 thousand states | `SanityCheck`, `ImplementsRules` |
| `TxDownload` | 1 honest and 1 other peer, 3 transactions, limits 2 and 1; 96 thousand states | `NothingStale`, `HonestAnnouncementFetched`, `AnnouncementsEnd` |
| `CoinsFlush` | 5 blocks on two branches, 3 outpoints, any number of failed writes and crashes, up to the first damage; 4 million states | `CacheIsTip`, `MarkedConsistent`, `FlagsTrue`, `Recoverable` |

Each run but `QuantumScript` also checks the module's type invariant. Why the bounds
are enough:

* A request uses at most two keys (the first and the one generated after a failed
  insert), so three keys allow such a request and another one next to it. Two
  failed writes reach every failure branch and one branch after another; unloading and
  loading is not bounded.
* With three inputs, an input can change before, at and after the one the
  progress check looks at; with two SPKMs, one can undo next to the other's
  result.
* Four operations are what the two-key script has; two elements are its
  witness.
* The transactions are the ones that the rules tell apart: valid only after
  activation, valid only before, too large before, and always valid. Four blocks
  give an activation with a block on either side and one more to disconnect.
* With periods of two blocks, eight blocks on a branch are four periods: defined,
  started, locked in and active, or failed, with one more to wait for the
  minimal height. The fork leaves in the middle, at the end of a period, so the
  branches share cached states and then differ. Signals and times vary where the
  rules look at them.
* Two workers are needed for one to finish while the other holds a batch or
  an error of its own; two blocks, for something to be left over; four checks in
  batches of at most two, for several batches; one check, for `notify_one`.
* Three peers give a selected announcement, one to be selected next, and one that
  is waiting or done; three times allow a clock that goes back between two
  announcements. The second transaction is there for the order of replies.
* The other peer can announce more than its limit, be overloaded, be asked first
  as it is preferred, let requests expire, leave and come back.
* The branches of `MCCoinsFlush` have one transaction in both, at different heights,
  so that a coin is created again over one not yet written; an output created
  and spent in one block; and a spend of an earlier block's output. Crashes,
  failed writes, flushes and reorganisations are not bounded. The constraint
  `Undamaged` stops where a write has relied on a failed one: after it the
  invariants claim nothing.

Deadlock is checked in every run but `TxSigning` and `QuantumScript`: a signing call
ends, and an enumeration of spends is finite. It says something in the wallet, the
mempool and the check queue runs; in the others some action is always possible.

**Fairness.** In `CheckQueue` each thread's `Loop` and the notifications are weakly fair: the lock
is held briefly and in no order that starves a thread, a thread that waits on a
condition variable is not ready until notified, and a script check ends. Adding
checks, calling `Complete`, spurious wakeups and shutdown have none.

In `TxDownload` the clock goes on; an honest peer answers each request; and
`SendMessages` serves every peer again and again (the loop of the message handler
thread). The last is weak fairness of `GetRequestsToSend`, with "the call would
change something" spelled out. Nothing is assumed of the other peers, of
announcements or of blocks. `AnnouncementsEnd` rests on the same: a COMPLETED
announcement goes with the last other one of its transaction, whose time comes, and
one of a known transaction goes when its peer would be asked.

### Runs that refute a statement

Each checks one statement of a comment or a document that the code does not
keep (`findings` of `PROJECT.json` has the quotations).

| Run | The code |
|---|---|
| `HandedOutSignable` | the signing provider takes SLH-DSA public keys to be over 30000 bytes; they have 48, so the key is never provided |
| `LastBatchConsistent` | `Sync` marks the entries of a batch clean before the batch is written; when that fails, the flush of the shutdown has only the rest, and marks the database consistent |
| `PolicyImpliesConsensus` | the standard flags have the quantum flag before activation too, and it admits more |

Further disagreements that the models show, without a run of their own:
`SPKM::Encrypt` does not touch quantum keys although `Spec.md:226` speaks of
encrypted data; a failed script write is only logged, so an address can be handed
out that a restart forgets (`lost` in the properties above; `README.md:149`); a key
joins a descriptor of either scheme (comment at `wallet.cpp:2511`); the flag is not
a soft fork in the sense of `interpreter.h:42`, because it admits larger
elements; `CountQuantumSignatures` does not see what the signer makes
(`Spec.md:169`); and a pool transaction is not checked again when an activation is
undone (`validation.cpp:342`), which is why `MempoolMinable` excludes that case.

Three more, each with the place in the model where it is seen:

* `scriptpubkeyman.h:148`: "Returns whether all inputs were signed". A signer that
  replaces a stale signature leaves the stack as long as it was, so its work is
  put back and `true` is returned all the same (`scriptpubkeyman.cpp:1519` to `1527`).
  `TrueOutcome` says that this is the only case.
* `txdownloadman_impl.cpp:287`: `ForgetTxHash` "should already be called whenever a
  transaction becomes AlreadyHaveTx()". It is not for one that enters the pool by
  `BroadcastTransaction` (`node/transaction.cpp:83`) or from a disconnected block, so
  the second branch of `GetRequestsToSend` is needed. `AnnouncementsEnd` shows that it
  is enough.
* `blockstorage.cpp:482` to `495`: the index entries are taken off their list before
  they are written. When that write fails (`validation.cpp:2913`), the flush of the
  shutdown has no entries left, succeeds, and writes coins whose best block the
  index on disk does not have; the next start fails. In the model this is
  `WriteBlockIndexFails`, a "stop" flush, and `damaged`; `Recoverable` holds up to there.

Also met while modelling:

* The filter of a fast rescan is made "with scripts from all ScriptPubKeyMans"
  (`wallet/wallet.cpp:315`), but asks for indices from 0 (`wallet.cpp:359`), and
  quantum addresses have negative ones.
* `IsWitnessStandard` recognises scripts that begin with a one-byte scheme id
  (`policy.cpp:325`), and not those of the wallet's addresses,
  `<pubkey> OP_CHECKSIG_EX` (`Spec.md:107`).
* "First make sure all block and undo data is flushed to disk" (`validation.cpp:2901`)
  syncs the current block file; undo data written to an earlier file is not
  synced by it. The model has one file. A failed sync is only warned about
  (`validation.cpp:2904`) and the index and the coins are still written; in the
  model this is damage once an entry is written, as nothing is known then of the
  files.

## 4. Proofs

The theorems hold for every value of the constants that meets the named
assumptions of the modules. Every inductive invariant was checked by TLC on the
instance of its run before it was proved.

| Module | Theorems (and the property of a run) |
|---|---|
| `QuantumWallet_proofs` | `WalletTypeCorrect` (`TypeOK`), `WalletWriteAhead` (`HandedOutDurable`), `WalletImplementsLedger` (`ImplementsLedger`), `WalletOneOwner` (`OneOwner`), `WalletCacheCoherent` (`CacheCoherent`), `WalletRange` (`RangeMatchesExpansion`), `WalletHandedOutUsable` (`HandedOutUsable`), `WalletRestartTransparent` (`RestartTransparent`) |
| `TxSigning_proofs` | `SigningTypeCorrect` (`TypeOK`), `SigningKeepsValid` (`ValidStaysValid`), `SigningOutcome` (`Outcome`) |
| `QuantumScript_proofs` | `SpendAddress` (`AddressSpending`), `SpendTwoKeys` (`TwoKeySpending`), `SpendStandardImpliesActive` (`StandardImpliesActive`) |
| `QuantumMempool_proofs` | `MempoolTypeCorrect` (`TypeOK`), `MempoolBlocksValid` (`BlocksValid`), `MempoolMinability` (`MempoolMinable`), `MempoolConfirmedOnce` (`ConfirmedOnce`) |
| `VersionBits_proofs` | `VBTypeCorrect` (`TypeOK`), `VBStateByRule` (`StateByRule`), `VBInfoIsRight` (`InfoIsRight`), `VBWarningByRule` (`WarningByRule`) |
| `CheckQueue_proofs` | `QueueTypeCorrect` (`TypeOK`), `QueueCounts` (`CountersCount`), `QueueCompleteIsRight` (`CompleteIsRight`), `QueueLosesNoWakeup` (`NoLostWakeup`) |
| `CoinsFlush_proofs` | `FlushRecoverable` (`Recoverable`), `FlushType` (`TypeOK`), `FlushCacheIsTip` (`CacheIsTip`), `FlushMarkedConsistent` (`MarkedConsistent`), `FlushFlagsTrue` (`FlagsTrue`) |
| `TxRequest_proofs` | `TrackerType` (`TrackerTypeOK`), `TrackerSanity` (`SanityCheck`), `TrackerImplementsRules` (`ImplementsRules`), `DownloadType` (`TypeOK`), `DownloadNothingStale` (`NothingStale`) |

**Wallet.** Neither type correctness nor durability is inductive. `WalletInv`
adds: every cached script is tracked with an index by its SPKM (`CachedTracked`:
without it, receiving would read "no index"); keys that are held or recorded have
been generated (`FreshInv`: so a new key is in no SPKM and no record yet); every
SPKM in memory has its descriptor record (`FileInv`); and at each `pc`, which
records of the current key are already in the file unless a write failed
(`CallInv`). The refinement then needs that durable keys stay durable in each
step, and that a key enters `handed \ lost` only when durable.

`MemoryInv` is about memory against the file. `OneOwner` speaks of memory only,
and a restart rebuilds memory from the file, so the relation that is unique must
be over both: `Owns(d, k)` says that an SPKM has anything to do with a key, in
memory or in a record, and `OwnInv` that at most one does. `SyncKeys`, `SyncScripts`
and `SyncWallet` say record by record where the two may differ (`dirty`, `lost`,
or a write still to come at this `pc`), which gives `RestartTransparent`;
`RangeInv` keeps the negative indices of addresses apart from the range;
`SessionInv` carries `HandedOutUsable` through the steps of the call.

**Signing.** The invariant says what a witness can be while SPKMs remain: no stale
signature if there was none, and for each input that may be signed already what
the SPKMs tried so far can give, while the others are as they were. The key lemma is that without stale signatures an input only
changes to a longer witness, so the first change is progress and nothing is
undone. With stale ones, an attempt that made everything verify is undone only if
the first input it changed had a stale signature (`StepTrue`).

**Script rules.** A script is evaluated by a fold, which the library defines by
recursion over sets. `EvalRun` unfolds it into a run of states, one per operation,
and `SizeRun` does the same for `ScriptSize`. The induction is written out: the set
of lengths for which the claim holds contains 0 and with n also n + 1
(`InductiveSet`, from the least element of its complement). From there on an
address's script is two steps from the witness, a two-key script four; and
`StandardIsActive` compares two runs of any length: an operation that the standard
flags let pass does the same under the flags of an active block.

**Mempool.** `MempoolInv` adds `CacheSound` to types and valid blocks: every cache
entry is for a transaction that passes under the entry's flags. A block then is
valid whether the cache or the interpreter answered. `PoolInv` adds that the
deployment never goes back along the chain (`DeploymentInv`) and that all of the
pool passes under the flags of an active block (`PoolActive`), which is
`StandardIsActive` at the time of acceptance. `MempoolMinable` alone is not
inductive: it says nothing, before the activation, of the flags after it.

**Deployment.** `VBInv`: the index is closed under parents, times do not fall along
a branch (`IndexInv`), and each cached state is what the rule says at an end of a
period (`SoundCache`), for the warning cache with the signals that the deployment
*by the rule* does not explain (`Unexplained`). The argument:

1. The tree. `Heights`, `Branches` and the loops of `GetStateFor` are recursive
   functions; `Recursion` proves that such a definition, going to smaller block
   numbers, has a solution, and `TreeInduction` is induction over them. A branch
   has exactly one block of each height, so `GetAncestor` finds it.
2. The rule step by step. `RuleStep`: from one end of a branch to the next, the
   rule moves as the switch in `GetStateFor`. This needs the monotone times
   (before the start there was no start) and that the first deciding period
   stays the first.
3. The caches. `StateIsRule`: with sound caches the walk gives what the rule says,
   and what it leaves in the cache is sound.
4. A new header changes nothing on earlier branches (`RuleSame`: the rule reads only
   the branch), so no cache entry becomes stale.
5. `InfoIsRight`: `SinceOldest` follows `GetStateSinceHeightFor` to the first period of
   the state; `CountMore` bounds the signals that the rest of a period can add.

Assumed of the constants: a block's parent has a smaller number, and a
deployment's `begin` is a time or one of the two special values.

**Script checks.** `QueueInv` says what the three counters count, thread place by
thread place, also after the request to stop (`CountInv`); that each check is in
one place (`BatchInv`); that queue and batches belong to the present block
(`SessionInv`); and where the error is (`ResultInv`): a failing check that is no
longer pending has left its error in `m_result`, and a thread that has run its
batch holds an error exactly when one of that batch failed, unless `m_result` is
set already (so a result left over from an earlier block is never the one that is
swapped in). The three entries to the critical section of
`Loop` share one lemma (`Pass`). `NoLostWakeup` is inductive relative to `QueueInv`.

**Recovery.** `RecoverInv`: whatever the coins database names (its best block, both
heads of an interrupted flush, with all ancestors) is in the index on disk
(`IndexFirst`), and what the index refers to is in the files (`FilesFirst`), in
the database and in what a crash may leave of it, at each step of a flush. This is
the order of the three stores; with it `ReplayBlocks` and `LoadChainTip` do not fail.

An entry of a failed index write is dirty in no list, so `IndexFirst` alone would not
survive it: an entry in memory agrees with the one on disk, or is in
`dirty_index` or `unindexed`. Writing coins over one of the latter is damage, and
`RecoverInv` is claimed until then. `ControlOK` (places, types of what failed
writes leave, which entries may be forgotten where) holds always, and is what carries
the induction over the steps after damage.

**Coins.** None of `CacheIsTip`, `MarkedConsistent` and `FlagsTrue` is inductive: they
say nothing of the middle of a flush, from which a crash may come back.
`CoinsInv` says what holds there. The cache shows the coins of its tip and is
clean only where it agrees with the database, between two batches too
(`ShowsTip`); FRESH is true as long as nothing has been written (`FreshTrue`); a
database in transition has each coin from one of the two tips it names, and so has
what a crash would leave of it (`ImageOK`); and until it has been moved to the
new one, that one stays the tip (`OneTarget`), so the assertion of `BatchWrite` on
the heads never fails. The argument:

1. One entry. `Sound(e, base)`: an entry with the flags that `SanityCheck` allows,
   FRESH only over no coin, clean only over its own. Each method of `CoinsView`
   keeps an entry sound and shows the coin it should (`FetchSound`, `SpendSound`,
   `AddSound`, `UncacheSound`); `BatchSound`: an entry sound for what our cache
   shows, written into it, leaves one sound for our base.
2. The tree of blocks. `ChainInduction` is induction along parents, from the
   assumption that hashes make no cycles; `ChainRecursion` solves the recursive
   functions `Height`, `Ancestors` and `Utxo`. A chain has one block of each height
   (`Branches`), so the two ways of a replay meet at the fork (`Forks`).
3. One block. The folds over its transactions become runs (`FoldRun`, as for
   scripts). `Between(c, base, x, y)`: the cache is sound and each coin it shows is
   that of `x` or of `y`. Connecting a block moves it from the parent's coins to the
   block's (`ConnectedBlock`).
4. The replay. Disconnecting a block moves `x` from the block to its parent
   whatever `y` is (`DisconnectedBlock`), and rolling forward moves it up again
   (`RolledBlock`): where the effects of another block were there already, they
   stay. So from any mixture of the old and the new tip the way back arrives at
   a mixture of the fork and the new tip, and the way forward at one of the new
   tip and the new tip (`ReplayedCoins`).
5. The flush. A batch takes coins from the cache, which shows the tip, so the
   database stays such a mixture; the last batch leaves no dirty entry out, and
   what is not dirty agrees already.

A failed `Sync` is inside the theorems: what it took for written is in `forgotten`,
clean or erased in the cache while the database has an older coin, and every
claim on single coins is about the others. Shutdown is the only way out of it, so
no block is connected over such a cache. A crash forgets the cache with it, and the
database it comes back to is still a mixture of the two tips it names. Only a
last batch would break this, and it is damage.

Assumed: parents make no cycles, and blocks are valid (`ValidBlocks`).

**Request tracker.** `SanityCheck` is nearly inductive. `TrackerInv` states it per
transaction and by the states alone (`Sane`), with the times in range, and after
`GetRequestable` what `PostGetRequestableSanityCheck` asserts (`Timely`). The
argument:

1. Priorities are a total order on the peers, so a set of peers that is not empty
   has a best one (`BestExists`, `TopIs`).
2. Each private function keeps the announcements of one transaction sane:
   `PromoteCandidateReady` (`PromoteIs`), `ChangeAndReselect` (`ReselectIs`),
   `MakeCompleted` (`MakeCompletedIs`). What they do to the other announcements is
   to change which one is selected, nothing else (`Like`).
3. `SetTimePoint` is two folds. Each becomes a run, as for scripts (`MoveRuns`); along
   it the announcements seen so far are promoted or completed and the others are
   only `Like` what they were (`Arrived`, `Delayed`). At its end nothing waits for
   a time that is past and nothing is ready before its time, in whichever order
   equal times came (`SetTimePointIs`).
4. The refinement. The abstract index forgets which candidate is selected, and
   the effect of every function on it is that of the rule (`InvAbstract` to
   `TimeAbstract`; erasing what is only COMPLETED is `Forgotten`). With sane and
   timely announcements, BEST is exactly the one that the rules choose
   (`BestIsToAsk`), so `GetRequestable` returns what they say.

Assumed: finitely many peers, different priorities for different peers (the code
compares salted hashes of 63 bits), and `none` is not an announcement.

**Transaction download.** `NothingStale` needs of the tracker only what its functions
can make of an announcement, so `DownloadInv` has the tracker's `Sane` and: each
announcement is in use (`InUse`), times stay in their ranges (`SaneIndex`), and the
announcements of a peer are finitely many (`Limited`; without it the count would
say nothing). All functions but `ReceivedInv` and `RequestedTx` only remove
announcements, complete them or leave them (`Shrinks`), so they bring no request
and no announcement that was not there; `RequestedTx` adds one request, with its
`getdata`. `ReceivedTx` of a transaction that is known completes what is left of its
peer's announcement, and otherwise all of them go.

**Only model-checked:**

* Liveness (`CompleteReturns`, `WorkersExit`, `HonestAnnouncementFetched`,
  `AnnouncementsEnd`): fairness is out of the prover's reach.

Every safety invariant, action property and refinement of the passing runs is proved.

## 5. Not modelled

Cryptography and liboqs; the byte encodings of keys and addresses; descriptor
parsing; key derivation (not used by address creation); encrypted quantum key records,
which no code path writes; fees, coin selection, packages, conflicts and
eviction; blocks under `-assumevalid`; the rescan loop; orphans, relay permissions and the extra delay of
announcements by txid; several block files, pruning, snapshots and `-reindex`;
in the pool's model, competing branches (a reorganisation is a sequence of
invalidations and connections); the sockets and the messages of the network; the
RPC server and the GUI; and the rest of what the fork inherits unchanged from
Bitcoin Core.

## 6. Plan

Done: `QuantumWallet` with its ledger, `TxSigning`, `QuantumScript`,
`QuantumMempool`, `VersionBits`, `CheckQueue`, `TxRequest` with its rules, `TxDownload`,
`CoinsFlush`, each with its run, and the theorems above. Next:

1. The load of encrypted key records and `UpdateWalletDescriptor`.
2. `QuantumSignature::Serialize`/`Deserialize` and the size boundaries as operators
   against a reference.
