---------------------------- MODULE QuantumWallet ----------------------------
(***************************************************************************)
(* The quantum side of a descriptor wallet: how getnewaddress with         *)
(* algorithm "ml-dsa" or "slh-dsa" creates a key, files it with a          *)
(* DescriptorScriptPubKeyMan (SPKM), registers the P2WSH script and its    *)
(* witness script, and answers with the address; and what is left of all   *)
(* that after a failed write, a crash, an unload and a reload.             *)
(*                                                                         *)
(* The call (CWallet::GetNewQuantumDestination) holds cs_wallet, so no     *)
(* other wallet operation runs inside it.  It is still not atomic: it      *)
(* writes up to five database records, each one its own sqlite commit, any *)
(* of them can fail, and the process can stop between any two.  One action *)
(* models the code from one write to the next.                             *)
(*                                                                         *)
(* A quantum descriptor is built from one public key, qpkh(key), and the   *)
(* descriptor's id is a hash of it: the SPKM built from key d is called d. *)
(***************************************************************************)
EXTENDS Integers, FiniteSets

CONSTANTS
    Keys,         \* quantum keys that may be generated
    MLKeys,       \* the ML-DSA-65 ones; the others are SLH-DSA-192f
    None,         \* "not in the map", "no record"
    MaxCrashes,   \* bound on process crashes
    MaxFailures,  \* bound on database writes that fail
    MaxIndices    \* bound on the indices other wallets use up

(* WalletDescriptor; quantum descriptors are not ranged, so the range is   *)
(* empty or {0}.                                                           *)
Descriptor == [range_end : {0, 1}, next_index : {0, 1}]

ASSUME KeysAssumption   == MLKeys \subseteq Keys
ASSUME NoneAssumption   == None \notin Int \cup Keys \cup Descriptor
ASSUME BoundsAssumption == MaxCrashes \in Nat /\ MaxFailures \in Nat /\ MaxIndices \in Nat

(* The two P2WSH scripts that exist for a key: the address the wallet hands *)
(* out, of witness script <key> OP_CHECKSIG_EX, and the descriptor's own,   *)
(* of witness script <scheme> <key> OP_CHECKSIG_EX.                         *)
Addr(k) == <<"addr", k>>
Desc(k) == <<"desc", k>>
Scripts == {"addr", "desc"} \X Keys

VARIABLES
    (* memory: CWallet *)
    loaded,                 \* the wallet is loaded
    crypt,                  \* mapMasterKeys and vMasterKey, see IsCrypted
    m_spk_managers,         \* the quantum SPKMs
    m_cached_spks,          \* script |-> the SPKMs that track it
    m_address_book,         \* keys whose address has a label
    (* memory: DescriptorScriptPubKeyMan, one per d in m_spk_managers *)
    m_wallet_descriptor,    \* d |-> [range_end, next_index]
    m_max_cached_index,     \* d |-> last expanded index
    m_map_quantum_keys,     \* d |-> private keys held
    m_map_script_pub_keys,  \* d |-> script |-> index or None
    m_map_witness_scripts,  \* d |-> keys whose witness script is held
    (* memory: the process *)
    quantum_index,          \* static counter of AddScriptPubKey
    (* the database file *)
    db_descriptor,          \* walletdescriptor records
    db_qkey,                \* walletdescriptorqkey records
    db_script,              \* walletdescriptorscript records
    db_witness,             \* walletdescriptorwitnessscript records
    db_name,                \* name records (address book)
    db_mkey,                \* a master key record exists
    (* the call in progress *)
    pc, key, has_key, qkey, quantum_spkm_used,
    (* history: what has happened so far *)
    generated,  \* keys that have been generated
    handed,     \* keys whose address was returned to the user
    session,    \* those returned since the wallet was last loaded
    lost,       \* keys some record of which could not be written
    dirty,      \* scripts whose range or label in the file is behind memory
    crashes, failures

memVars  == <<loaded, crypt, m_spk_managers, m_cached_spks, m_address_book,
              m_wallet_descriptor, m_max_cached_index, m_map_quantum_keys,
              m_map_script_pub_keys, m_map_witness_scripts>>
dbVars   == <<db_descriptor, db_qkey, db_script, db_witness, db_name, db_mkey>>
callVars == <<pc, key, has_key, qkey, quantum_spkm_used>>
histVars == <<generated, handed, session, lost, dirty, crashes, failures>>
vars     == <<memVars, quantum_index, dbVars, callVars, histVars>>

(* 0 for the descriptor's own script, below 0 for addresses. *)
Indices    == {i \in Int : i <= 0} \cup {None}
NewDescriptor == [range_end |-> 0, next_index |-> 0]
PCs == {"idle", "find", "setup", "setup_key", "script", "witness", "book"}

TypeOK ==
    /\ loaded \in BOOLEAN
    /\ crypt \in {"plain", "locked", "unlocked", "stuck"}
    /\ m_spk_managers \in SUBSET Keys
    /\ m_cached_spks \in [Scripts -> SUBSET Keys]
    /\ m_address_book \in SUBSET Keys
    /\ m_wallet_descriptor \in [Keys -> Descriptor]
    /\ m_max_cached_index \in [Keys -> {-1, 0}]
    /\ m_map_quantum_keys \in [Keys -> SUBSET Keys]
    /\ m_map_script_pub_keys \in [Keys -> [Scripts -> Indices]]
    /\ m_map_witness_scripts \in [Keys -> SUBSET Keys]
    /\ quantum_index \in {i \in Int : i < 0}
    /\ db_descriptor \in [Keys -> Descriptor \cup {None}]
    /\ db_qkey \in [Keys -> SUBSET Keys]
    /\ db_script \in [Keys -> [Keys -> Indices]]
    /\ db_witness \in [Keys -> SUBSET Keys]
    /\ db_name \in SUBSET Keys
    /\ db_mkey \in BOOLEAN
    /\ pc \in PCs
    /\ key \in Keys \cup {None}
    /\ has_key \in BOOLEAN
    /\ qkey \in Keys \cup {None}
    /\ quantum_spkm_used \in Keys \cup {None}
    /\ generated \in SUBSET Keys
    /\ handed \in SUBSET Keys
    /\ session \in SUBSET Keys
    /\ lost \in SUBSET Keys
    /\ dirty \in SUBSET Scripts
    /\ crashes \in Nat
    /\ failures \in Nat

-----------------------------------------------------------------------------
(* Queries *)

IsCrypted == crypt # "plain"
(* "stuck": EncryptWallet stored the master key in memory and then could   *)
(* not begin its transaction; the classical keys are still in the clear,   *)
(* so CheckDecryptionKey refuses every passphrase until a restart.         *)
IsLocked  == crypt \in {"locked", "stuck"}

GetQuantumKeyCount(d) == Cardinality(m_map_quantum_keys[d])
HaveQuantumKey(d, k)  == k \in m_map_quantum_keys[d]

(* CWallet::IsMine asks only the SPKMs that m_cached_spks names. *)
SpkmIsMine(d, s) == \/ m_map_script_pub_keys[d][s] # None
                    \/ \E k \in m_map_quantum_keys[d] : s = Addr(k)
IsMine(s) == \E d \in m_cached_spks[s] : SpkmIsMine(d, s)

(* What SPKM::GetSigningProvider and PopulateQuantumSigningProvider put    *)
(* into the provider for script s: its witness script (a negative index    *)
(* gives those held, an index of the range the expansion of the            *)
(* descriptor).                                                            *)
Solvable(d, s) ==
    /\ m_map_script_pub_keys[d][s] # None
    /\ IF m_map_script_pub_keys[d][s] < 0
         THEN \E k \in m_map_witness_scripts[d] : s = Addr(k)
         ELSE s = Desc(d)
(* The private key is looked up in the same SPKM, and only for a witness   *)
(* script that starts with a push of 1952 bytes: an ML-DSA key.            *)
CanSign(d, s) == /\ Solvable(d, s)
                 /\ \E k \in m_map_quantum_keys[d] \cap MLKeys : s = Addr(k)

-----------------------------------------------------------------------------
NoScripts  == [s \in Scripts |-> None]
NoKeyLists == [d \in Keys |-> {}]

(* Memory as the constructors leave it. *)
FreshMemory ==
    /\ crypt' = "plain"
    /\ m_spk_managers' = {}
    /\ m_cached_spks' = [s \in Scripts |-> {}]
    /\ m_address_book' = {}
    /\ m_wallet_descriptor' = [d \in Keys |-> NewDescriptor]
    /\ m_max_cached_index' = [d \in Keys |-> -1]
    /\ m_map_quantum_keys' = NoKeyLists
    /\ m_map_script_pub_keys' = [d \in Keys |-> NoScripts]
    /\ m_map_witness_scripts' = NoKeyLists

Init ==
    /\ loaded = TRUE
    /\ crypt = "plain"
    /\ m_spk_managers = {}
    /\ m_cached_spks = [s \in Scripts |-> {}]
    /\ m_address_book = {}
    /\ m_wallet_descriptor = [d \in Keys |-> NewDescriptor]
    /\ m_max_cached_index = [d \in Keys |-> -1]
    /\ m_map_quantum_keys = NoKeyLists
    /\ m_map_script_pub_keys = [d \in Keys |-> NoScripts]
    /\ m_map_witness_scripts = NoKeyLists
    /\ quantum_index = -1
    /\ db_descriptor = [d \in Keys |-> None]
    /\ db_qkey = NoKeyLists
    /\ db_script = [d \in Keys |-> [k \in Keys |-> None]]
    /\ db_witness = NoKeyLists
    /\ db_name = {}
    /\ db_mkey = FALSE
    /\ pc = "idle" /\ key = None /\ has_key = FALSE
    /\ qkey = None /\ quantum_spkm_used = None
    /\ generated = {} /\ handed = {} /\ session = {}
    /\ lost = {} /\ dirty = {} /\ crashes = 0 /\ failures = 0

-----------------------------------------------------------------------------
(* CWallet::GetNewQuantumDestination and what it calls *)

(* A failed write is remembered in the history only. *)
WriteFails(k) == /\ failures < MaxFailures
                 /\ failures' = failures + 1
                 /\ lost' = lost \cup {k}
WriteSucceeds == UNCHANGED <<failures, lost>>

(* The call ends: an answer, an error or an exception. *)
EndCall == /\ pc' = "idle" /\ key' = None /\ has_key' = FALSE
           /\ qkey' = None /\ quantum_spkm_used' = None

(* Generate the key the address will be for. *)
GetNewQuantumDestination(k) ==
    /\ loaded /\ pc = "idle"
    /\ k \notin generated
    /\ generated' = generated \cup {k}
    /\ pc' = "find" /\ key' = k /\ has_key' = TRUE
    /\ UNCHANGED <<qkey, quantum_spkm_used, memVars, quantum_index, dbVars,
                   handed, session, lost, dirty, crashes, failures>>

(* std::move: the caller's pointer is null after the call. *)
KeyCopied == UNCHANGED has_key
KeyMoved  == has_key' = FALSE

(* SPKM::AddQuantumKey: memory first, then an insert that may fail.  The   *)
(* key has been moved into the SPKM either way, so after a failure every   *)
(* other SPKM is offered a null key, which it refuses without a change.    *)
(* SPKMs come from a set of pointers: any of them may be the first.        *)
AddToExisting(d) ==
    /\ pc = "find"
    /\ d \in m_spk_managers /\ GetQuantumKeyCount(d) > 0
    /\ m_map_quantum_keys' = [m_map_quantum_keys EXCEPT ![d] = @ \cup {key}]
    /\ KeyMoved
    /\ \/ /\ WriteSucceeds
          /\ db_qkey' = [db_qkey EXCEPT ![d] = @ \cup {key}]
          /\ quantum_spkm_used' = d /\ pc' = "script"
       \/ /\ WriteFails(key)
          /\ pc' = "setup"
          /\ UNCHANGED <<db_qkey, quantum_spkm_used>>
    /\ UNCHANGED <<loaded, crypt, m_spk_managers, m_cached_spks, m_address_book,
                   m_wallet_descriptor, m_max_cached_index, m_map_script_pub_keys,
                   m_map_witness_scripts, quantum_index, db_descriptor, db_script,
                   db_witness, db_name, db_mkey, key, qkey,
                   generated, handed, session, dirty, crashes>>

NoSpkmWithKeys == \A d \in m_spk_managers : GetQuantumKeyCount(d) = 0

NoneExisting ==
    /\ pc = "find" /\ NoSpkmWithKeys
    /\ pc' = "setup"
    /\ UNCHANGED <<key, has_key, qkey, quantum_spkm_used, memVars, quantum_index,
                   dbVars, histVars>>

(* SetupQuantumDescriptor up to the descriptor record.  The key that was   *)
(* passed is used, or another one is generated when it has been moved      *)
(* away.  The function throws when the wallet is locked, and when the      *)
(* record cannot be written; it returns false when no key can be made.     *)
SetupQuantumDescriptor(k) ==
    /\ pc = "setup" /\ ~IsLocked
    /\ IF has_key THEN k = key ELSE k \notin generated /\ (k \in MLKeys <=> key \in MLKeys)
    /\ generated' = generated \cup {k}
    /\ \/ /\ WriteSucceeds
          /\ db_descriptor' = [db_descriptor EXCEPT ![k] = NewDescriptor]
          /\ pc' = "setup_key" /\ qkey' = k
          /\ UNCHANGED <<key, has_key, quantum_spkm_used>>
       \/ /\ WriteFails(k)
          /\ EndCall
          /\ UNCHANGED db_descriptor
    /\ UNCHANGED <<memVars, quantum_index, db_qkey, db_script, db_witness, db_name,
                   db_mkey, handed, session, dirty, crashes>>

SetupFails ==
    /\ pc = "setup" /\ (IsLocked \/ ~has_key)
    /\ EndCall
    /\ UNCHANGED <<memVars, quantum_index, dbVars, histVars>>

(* Its AddQuantumKey and AddScriptPubKeyMan, and the search of the caller  *)
(* for an SPKM that holds the key.  When the key record cannot be written  *)
(* the new SPKM is destroyed and its descriptor record stays.              *)
SetupAddQuantumKey ==
    /\ pc = "setup_key"
    /\ \/ /\ WriteSucceeds
          /\ db_qkey' = [db_qkey EXCEPT ![qkey] = @ \cup {qkey}]
          /\ m_spk_managers' = m_spk_managers \cup {qkey}
          /\ m_wallet_descriptor' = [m_wallet_descriptor EXCEPT ![qkey] = NewDescriptor]
          /\ m_map_quantum_keys' = [m_map_quantum_keys EXCEPT ![qkey] = {qkey}]
          /\ \E d \in m_spk_managers' : /\ key \in m_map_quantum_keys'[d]
                                        /\ quantum_spkm_used' = d
          /\ pc' = "script"
          /\ UNCHANGED <<key, has_key, qkey>>
       \/ /\ WriteFails(qkey)
          /\ EndCall
          /\ UNCHANGED <<db_qkey, m_spk_managers, m_wallet_descriptor, m_map_quantum_keys>>
    /\ UNCHANGED <<loaded, crypt, m_cached_spks, m_address_book, m_max_cached_index,
                   m_map_script_pub_keys, m_map_witness_scripts, quantum_index,
                   db_descriptor, db_script, db_witness, db_name, db_mkey,
                   generated, handed, session, dirty, crashes>>

(* CWallet::TopUpCallback: SPKM d tracks script s from now on. *)
TopUpCallbackForgotten(s, d) == UNCHANGED m_cached_spks
TopUpCallback(s, d) == m_cached_spks' = [m_cached_spks EXCEPT ![s] = @ \cup {d}]

WriteDescriptorScriptForgotten(d, k, index) == UNCHANGED db_script
WriteDescriptorScript(d, k, index) == db_script' = [db_script EXCEPT ![d][k] = index]

(* SPKM::AddScriptPubKey: an index of the process-wide counter, the record *)
(* (a failure is only logged), the wallet's script cache.                  *)
AddScriptPubKey ==
    /\ pc = "script"
    /\ quantum_index' = quantum_index - 1
    /\ m_map_script_pub_keys' =
         [m_map_script_pub_keys EXCEPT ![quantum_spkm_used][Addr(key)] = quantum_index]
    /\ TopUpCallback(Addr(key), quantum_spkm_used)
    /\ pc' = "witness"
    /\ \/ /\ WriteSucceeds
          /\ WriteDescriptorScript(quantum_spkm_used, key, quantum_index)
       \/ /\ WriteFails(key)
          /\ UNCHANGED db_script
    /\ UNCHANGED <<loaded, crypt, m_spk_managers, m_address_book, m_wallet_descriptor,
                   m_max_cached_index, m_map_quantum_keys, m_map_witness_scripts,
                   db_descriptor, db_qkey, db_witness, db_name, db_mkey,
                   key, has_key, qkey, quantum_spkm_used,
                   generated, handed, session, dirty, crashes>>

TrackWitnessScriptForgotten(d, k) == UNCHANGED m_map_witness_scripts
TrackWitnessScript(d, k) ==
    m_map_witness_scripts' = [m_map_witness_scripts EXCEPT ![d] = @ \cup {k}]

WriteDescriptorWitnessScriptForgotten(d, k) == UNCHANGED db_witness
WriteDescriptorWitnessScript(d, k) == db_witness' = [db_witness EXCEPT ![d] = @ \cup {k}]

(* SPKM::AddWitnessScript; here too a failed write is only logged. *)
AddWitnessScript ==
    /\ pc = "witness"
    /\ TrackWitnessScript(quantum_spkm_used, key)
    /\ pc' = "book"
    /\ \/ /\ WriteSucceeds
          /\ WriteDescriptorWitnessScript(quantum_spkm_used, key)
       \/ /\ WriteFails(key)
          /\ UNCHANGED db_witness
    /\ UNCHANGED <<loaded, crypt, m_spk_managers, m_cached_spks, m_address_book,
                   m_wallet_descriptor, m_max_cached_index, m_map_quantum_keys,
                   m_map_script_pub_keys, quantum_index,
                   db_descriptor, db_qkey, db_script, db_name, db_mkey,
                   key, has_key, qkey, quantum_spkm_used,
                   generated, handed, session, dirty, crashes>>

(* SetAddressBook, whose result is ignored, the verification that the SPKM *)
(* gives the key back, and the answer to the user.                         *)
ReturnDestination ==
    /\ pc = "book"
    /\ m_address_book' = m_address_book \cup {key}
    /\ \/ /\ db_name' = db_name \cup {key}
          /\ UNCHANGED <<dirty, failures>>
       \/ /\ failures < MaxFailures
          /\ failures' = failures + 1
          /\ dirty' = dirty \cup {Addr(key)}
          /\ UNCHANGED db_name
    /\ IF HaveQuantumKey(quantum_spkm_used, key)
         THEN handed' = handed \cup {key} /\ session' = session \cup {key}
         ELSE UNCHANGED <<handed, session>>
    /\ EndCall
    /\ UNCHANGED <<loaded, crypt, m_spk_managers, m_cached_spks, m_wallet_descriptor,
                   m_max_cached_index, m_map_quantum_keys, m_map_script_pub_keys,
                   m_map_witness_scripts, quantum_index, db_descriptor, db_qkey,
                   db_script, db_witness, db_mkey, generated, lost, crashes>>

-----------------------------------------------------------------------------
(* Other operations on the wallet; each takes cs_wallet, so none runs       *)
(* inside a call.                                                           *)

(* The loop of TopUpWithDB, from the last expanded index to 0. *)
ExpandTo0Always(d) ==
    /\ m_max_cached_index' = [m_max_cached_index EXCEPT ![d] = @ + 1]
    /\ m_map_script_pub_keys' =
         [m_map_script_pub_keys EXCEPT ![d][Desc(d)] = m_max_cached_index[d] + 1]
    /\ TopUpCallback(Desc(d), d)
ExpandTo0(d) ==
    IF m_max_cached_index[d] < 0
      THEN /\ m_max_cached_index' = [m_max_cached_index EXCEPT ![d] = 0]
           /\ m_map_script_pub_keys' = [m_map_script_pub_keys EXCEPT ![d][Desc(d)] = 0]
           /\ TopUpCallback(Desc(d), d)
      ELSE UNCHANGED <<m_max_cached_index, m_map_script_pub_keys, m_cached_spks>>

(* AddToWalletIfInvolvingMe for an output that pays s: MarkUnusedAddresses  *)
(* of the SPKM that m_cached_spks names, and its TopUp.  A quantum          *)
(* descriptor is not ranged: topping it up expands index 0, the             *)
(* descriptor's own script.  When the transaction cannot begin, only        *)
(* next_index has moved; when it cannot commit, memory keeps the expansion. *)
Receive(d, s) ==
    /\ loaded /\ pc = "idle"
    /\ d \in m_cached_spks[s]
    /\ LET index  == m_map_script_pub_keys[d][s]
           marked == [m_wallet_descriptor[d] EXCEPT
                        !.next_index = IF index >= @ THEN index + 1 ELSE @]
           topped == [marked EXCEPT !.range_end = 1]
       IN  \/ /\ m_wallet_descriptor' = [m_wallet_descriptor EXCEPT ![d] = topped]
              /\ ExpandTo0(d)
              /\ \/ /\ db_descriptor' = [db_descriptor EXCEPT ![d] = topped]
                    /\ dirty' = dirty \ {Desc(d)}
                    /\ UNCHANGED failures
                 \/ /\ failures < MaxFailures
                    /\ failures' = failures + 1
                    /\ dirty' = dirty \cup {Desc(d)}
                    /\ UNCHANGED db_descriptor
           \/ /\ failures < MaxFailures
              /\ failures' = failures + 1
              /\ m_wallet_descriptor' = [m_wallet_descriptor EXCEPT ![d] = marked]
              /\ dirty' = dirty \cup {Desc(d)}
              /\ UNCHANGED <<m_max_cached_index, m_map_script_pub_keys, m_cached_spks,
                             db_descriptor>>
    /\ UNCHANGED <<loaded, crypt, m_spk_managers, m_address_book, m_map_quantum_keys,
                   m_map_witness_scripts, quantum_index, db_qkey, db_script, db_witness,
                   db_name, db_mkey, callVars, generated, handed, session, lost, crashes>>

(* CWallet::EncryptWallet.  SPKM::Encrypt and CheckDecryptionKey look at   *)
(* classical keys only: quantum keys stay as they are, in memory and in    *)
(* the file.  A commit that fails stops the process: see Crash.            *)
EncryptWallet ==
    /\ loaded /\ pc = "idle" /\ ~IsCrypted
    /\ \/ /\ db_mkey' = TRUE /\ crypt' = "locked"
          /\ UNCHANGED failures
       \/ /\ failures < MaxFailures
          /\ failures' = failures + 1
          /\ crypt' = "stuck"
          /\ UNCHANGED db_mkey
    /\ UNCHANGED <<loaded, m_spk_managers, m_cached_spks, m_address_book,
                   m_wallet_descriptor, m_max_cached_index, m_map_quantum_keys,
                   m_map_script_pub_keys, m_map_witness_scripts, quantum_index,
                   db_descriptor, db_qkey, db_script, db_witness, db_name, callVars,
                   generated, handed, session, lost, dirty, crashes>>

(* CWallet::Unlock with the right passphrase, and CWallet::Lock. *)
SetLocked(from, to) ==
    /\ loaded /\ pc = "idle"
    /\ crypt = from /\ crypt' = to
    /\ UNCHANGED <<loaded, m_spk_managers, m_cached_spks, m_address_book,
                   m_wallet_descriptor, m_max_cached_index, m_map_quantum_keys,
                   m_map_script_pub_keys, m_map_witness_scripts, quantum_index,
                   dbVars, callVars, histVars>>
Unlock == SetLocked("locked", "unlocked")
Lock   == SetLocked("unlocked", "locked")

UnloadWallet ==
    /\ loaded /\ pc = "idle"
    /\ loaded' = FALSE
    /\ FreshMemory
    /\ session' = {} /\ dirty' = {}
    /\ UNCHANGED <<quantum_index, dbVars, callVars, generated, handed, lost,
                   crashes, failures>>

(* The process stops, between any two steps of any call. *)
Crash ==
    /\ crashes < MaxCrashes
    /\ crashes' = crashes + 1
    /\ loaded' = FALSE
    /\ FreshMemory
    /\ quantum_index' = -1
    /\ EndCall
    /\ session' = {} /\ dirty' = {}
    /\ UNCHANGED <<dbVars, generated, handed, lost, failures>>

(* What the load of a descriptor record, its SetCache and its key, script  *)
(* and witness script records leave in memory.                             *)
LoadedDescriptor(d) == IF db_descriptor[d] = None THEN NewDescriptor ELSE db_descriptor[d]
LoadedScriptsNoCache(d) ==
    [s \in Scripts |-> IF db_descriptor[d] # None /\ s[1] = "addr"
                         THEN db_script[d][s[2]] ELSE None]
LoadedScripts(d) ==
    [s \in Scripts |->
       IF db_descriptor[d] = None THEN None
       ELSE IF s[1] = "addr" THEN db_script[d][s[2]]
       ELSE IF s = Desc(d) /\ db_descriptor[d].range_end = 1 THEN 0
       ELSE None]
LoadedFor(d, records) == IF db_descriptor[d] = None THEN {} ELSE records[d]

LoadWallet ==
    /\ ~loaded /\ pc = "idle"
    /\ loaded' = TRUE
    /\ crypt' = IF db_mkey THEN "locked" ELSE "plain"
    /\ m_spk_managers' = {d \in Keys : db_descriptor[d] # None}
    /\ m_wallet_descriptor' = [d \in Keys |-> LoadedDescriptor(d)]
    /\ m_max_cached_index' = [d \in Keys |-> LoadedDescriptor(d).range_end - 1]
    /\ m_map_quantum_keys' = [d \in Keys |-> LoadedFor(d, db_qkey)]
    /\ m_map_script_pub_keys' = [d \in Keys |-> LoadedScripts(d)]
    /\ m_map_witness_scripts' = [d \in Keys |-> LoadedFor(d, db_witness)]
    /\ m_cached_spks' = [s \in Scripts |-> {d \in Keys : LoadedScripts(d)[s] # None}]
    /\ m_address_book' = db_name
    /\ UNCHANGED <<quantum_index, dbVars, callVars, histVars>>

(* Another wallet of the process takes an index of the shared counter. *)
OtherWallet ==
    /\ quantum_index > -MaxIndices
    /\ quantum_index' = quantum_index - 1
    /\ UNCHANGED <<memVars, dbVars, callVars, histVars>>

-----------------------------------------------------------------------------
CallStep ==
    \/ \E d \in Keys : AddToExisting(d)
    \/ NoneExisting
    \/ \E k \in Keys : SetupQuantumDescriptor(k)
    \/ SetupFails
    \/ SetupAddQuantumKey
    \/ AddScriptPubKey
    \/ AddWitnessScript
    \/ ReturnDestination

Next ==
    \/ \E k \in Keys : GetNewQuantumDestination(k)
    \/ CallStep
    \/ \E d \in Keys, s \in Scripts : Receive(d, s)
    \/ EncryptWallet \/ Unlock \/ Lock
    \/ UnloadWallet \/ LoadWallet \/ Crash
    \/ OtherWallet

Spec == Init /\ [][Next]_vars

-----------------------------------------------------------------------------
(* Properties *)

(* A key is held by one SPKM and a script is tracked by one: the failed    *)
(* insert that moves the caller's key away, the second key generated for   *)
(* it and every reload keep them apart.  GetSolvingProvider and            *)
(* MarkUnusedAddresses rely on it.                                         *)
OneOwner ==
    /\ \A d, e \in m_spk_managers :
          m_map_quantum_keys[d] \cap m_map_quantum_keys[e] # {} => d = e
    /\ \A s \in Scripts : \A d, e \in m_cached_spks[s] : d = e

(* m_cached_spks, which is all that CWallet::IsMine, GetSolvingProvider    *)
(* and AddToWalletIfInvolvingMe consult, names exactly the SPKMs whose own *)
(* map holds the script; the Assume of IsMine and the assertion of         *)
(* GetSolvingProvider state one half of it.                                *)
CacheCoherent ==
    \A s \in Scripts :
        m_cached_spks[s] = {d \in m_spk_managers : m_map_script_pub_keys[d][s] # None}

(* An address returned in this session, whatever writes failed, or in an   *)
(* earlier one without a failed write, is known to the wallet, and the     *)
(* SPKM that tracks it has its witness script and its private key, which   *)
(* are looked up nowhere else.                                             *)
HandedOutUsable ==
    loaded => \A k \in session \cup (handed \ lost) :
        /\ IsMine(Addr(k))
        /\ \A d \in m_cached_spks[Addr(k)] : Solvable(d, Addr(k)) /\ HaveQuantumKey(d, k)

DurableKey(k) == \E d \in Keys : /\ db_descriptor[d] # None
                                 /\ k \in db_qkey[d]
                                 /\ db_script[d][k] # None
                                 /\ k \in db_witness[d]

(* Write-ahead: when an address is returned, every record a restart needs  *)
(* to spend from it is in the file, unless one of its writes failed; a     *)
(* crash or a later call never takes that away.                            *)
HandedOutDurable == \A k \in handed \ lost : DurableKey(k)

(* Between calls, memory is what a reload would build from the file,       *)
(* except for what failed writes explain: the keys in lost and the scripts *)
(* in dirty.                                                               *)
RestartTransparent ==
    loaded /\ pc = "idle" =>
    /\ (crypt \in {"locked", "unlocked"}) = db_mkey
    /\ \A d \in Keys \ lost : d \in m_spk_managers <=> db_descriptor[d] # None
    /\ \A d \in m_spk_managers :
         /\ m_map_quantum_keys[d] \ lost = LoadedFor(d, db_qkey) \ lost
         /\ m_map_witness_scripts[d] \ lost = LoadedFor(d, db_witness) \ lost
         /\ \A k \in Keys \ lost :
               m_map_script_pub_keys[d][Addr(k)] = LoadedScripts(d)[Addr(k)]
         /\ Desc(d) \notin dirty =>
               /\ m_wallet_descriptor[d] = db_descriptor[d]
               /\ m_map_script_pub_keys[d][Desc(d)] = LoadedScripts(d)[Desc(d)]
    /\ \A k \in Keys : Addr(k) \notin dirty => (k \in m_address_book <=> k \in db_name)

(* The assertion at the end of TopUpWithDB holds in every state, over      *)
(* failed transactions and reloads, and the indices of addresses and of    *)
(* the range never meet, so MarkUnusedAddresses moves next_index only for  *)
(* the descriptor's own script.                                            *)
RangeMatchesExpansion ==
    \A d \in m_spk_managers :
        /\ m_wallet_descriptor[d].range_end - 1 = m_max_cached_index[d]
        /\ m_wallet_descriptor[d].next_index <= m_wallet_descriptor[d].range_end
        /\ m_map_script_pub_keys[d][Desc(d)] = IF m_max_cached_index[d] = 0 THEN 0 ELSE None
        /\ \A k \in Keys : LET index == m_map_script_pub_keys[d][Addr(k)]
                            IN  index = None \/ index < 0

(* What the wallet promises, AddressLedger, read off the file.             *)
Ledger == INSTANCE AddressLedger WITH
            durable <- {k \in Keys : DurableKey(k)}, handed <- handed \ lost

(* The wallet implements that promise, for the addresses none of whose     *)
(* writes failed.                                                          *)
ImplementsLedger == Ledger!Spec

-----------------------------------------------------------------------------
(* What documentation says of this code, and the code does not do; a run of *)
(* its own refutes it.                                                      *)

(* README.md and the functional test: outputs of quantum addresses of both  *)
(* schemes can be spent by the wallet.                                      *)
HandedOutSignable ==
    \A k \in session : \E d \in m_cached_spks[Addr(k)] : CanSign(d, Addr(k))
=============================================================================
