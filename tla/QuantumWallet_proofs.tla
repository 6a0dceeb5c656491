------------------------ MODULE QuantumWallet_proofs ------------------------
(***************************************************************************)
(* Proofs about QuantumWallet, for any set of keys and any number of       *)
(* crashes and failed writes.  First, from WalletInv: type correctness,    *)
(* the write-ahead property HandedOutDurable, and the implementation of    *)
(* AddressLedger.  Then, from MemoryInv, what a loaded wallet holds in     *)
(* memory: a key has one owner, the script cache is exact, the range       *)
(* matches the expansion, the addresses handed out are usable, and a       *)
(* restart is transparent.                                                 *)
(***************************************************************************)
EXTENDS QuantumWallet, TLAPS

(* The cache of the wallet names only SPKMs whose map holds the script.    *)
(* Receive reads the index of such a script: without this fact the type of *)
(* next_index is not preserved.                                            *)
CachedTracked ==
    \A s \in Scripts : \A d \in m_cached_spks[s] : m_map_script_pub_keys[d][s] # None

TypeInv == TypeOK /\ CachedTracked

(* The two scripts of a key are scripts, and differ. *)
LEMMA ScriptsOfKeys ==
  ASSUME NEW k \in Keys
  PROVE  Addr(k) \in Scripts /\ Desc(k) \in Scripts /\ Addr(k) # Desc(k)
  BY DEF Addr, Desc, Scripts

(* Memory as the constructors leave it is well typed. *)
LEMMA FreshMemoryType ==
  ASSUME FreshMemory
  PROVE  /\ crypt' \in {"plain", "locked", "unlocked", "stuck"}
         /\ m_spk_managers' \in SUBSET Keys
         /\ m_cached_spks' \in [Scripts -> SUBSET Keys]
         /\ m_address_book' \in SUBSET Keys
         /\ m_wallet_descriptor' \in [Keys -> Descriptor]
         /\ m_max_cached_index' \in [Keys -> {-1, 0}]
         /\ m_map_quantum_keys' \in [Keys -> SUBSET Keys]
         /\ m_map_script_pub_keys' \in [Keys -> [Scripts -> Indices]]
         /\ m_map_witness_scripts' \in [Keys -> SUBSET Keys]
         /\ CachedTracked'
  <1>1. NewDescriptor \in Descriptor
    BY DEF NewDescriptor, Descriptor
  <1>2. NoScripts \in [Scripts -> Indices]
    BY DEF NoScripts, Indices
  <1> QED BY <1>1, <1>2 DEF FreshMemory, NoKeyLists, CachedTracked

(* A new wallet is well typed. *)
LEMMA InitTypeInv == Init => TypeInv
  <1>1. NewDescriptor \in Descriptor
    BY DEF NewDescriptor, Descriptor
  <1>2. NoScripts \in [Scripts -> Indices]
    BY DEF NoScripts, Indices
  <1>3. None \in Indices
    BY DEF Indices
  <1> SUFFICES ASSUME Init PROVE TypeInv
    OBVIOUS
  <1>4. CachedTracked
    BY DEF Init, CachedTracked
  <1>5. /\ m_cached_spks \in [Scripts -> SUBSET Keys]
        /\ m_wallet_descriptor \in [Keys -> Descriptor]
        /\ m_max_cached_index \in [Keys -> {-1, 0}]
        /\ m_map_quantum_keys \in [Keys -> SUBSET Keys]
        /\ m_map_script_pub_keys \in [Keys -> [Scripts -> Indices]]
        /\ m_map_witness_scripts \in [Keys -> SUBSET Keys]
    BY <1>1, <1>2 DEF Init, NoKeyLists
  <1>6. /\ db_descriptor \in [Keys -> Descriptor \cup {None}]
        /\ db_qkey \in [Keys -> SUBSET Keys]
        /\ db_script \in [Keys -> [Keys -> Indices]]
        /\ db_witness \in [Keys -> SUBSET Keys]
    BY <1>3 DEF Init, NoKeyLists
  <1>7. quantum_index \in {i \in Int : i < 0} /\ crashes \in Nat /\ failures \in Nat
    BY DEF Init
  <1> QED BY <1>4, <1>5, <1>6, <1>7 DEF Init, TypeInv, TypeOK, PCs

-----------------------------------------------------------------------------
(* Generating the key keeps the types. *)
LEMMA TypeGetNewQuantumDestination ==
  ASSUME TypeInv, NEW k \in Keys, GetNewQuantumDestination(k)
  PROVE  TypeInv'
  BY DEF TypeInv, TypeOK, CachedTracked, GetNewQuantumDestination, memVars, dbVars, PCs

(* AddQuantumKey of an existing SPKM keeps the types. *)
LEMMA TypeAddToExisting ==
  ASSUME TypeInv, NEW d \in Keys, AddToExisting(d), key \in Keys
  PROVE  TypeInv'
  <1>1. CachedTracked'
    BY DEF TypeInv, CachedTracked, AddToExisting
  <1>2. /\ m_map_quantum_keys' \in [Keys -> SUBSET Keys]
        /\ db_qkey' \in [Keys -> SUBSET Keys]
    BY DEF TypeInv, TypeOK, AddToExisting
  <1>3. failures' \in Nat /\ lost' \in SUBSET Keys
    BY DEF TypeInv, TypeOK, AddToExisting, WriteSucceeds, WriteFails
  <1>4. pc' \in PCs /\ has_key' \in BOOLEAN /\ quantum_spkm_used' \in Keys \cup {None}
    BY DEF TypeInv, TypeOK, AddToExisting, KeyMoved, PCs
  <1> QED BY <1>1, <1>2, <1>3, <1>4 DEF TypeInv, TypeOK, AddToExisting

(* A search without a result keeps the types. *)
LEMMA TypeNoneExisting ==
  ASSUME TypeInv, NoneExisting
  PROVE  TypeInv'
  BY DEF TypeInv, TypeOK, CachedTracked, NoneExisting, memVars, dbVars, histVars, PCs

(* Writing a descriptor record keeps the types. *)
LEMMA TypeSetupQuantumDescriptor ==
  ASSUME TypeInv, NEW k \in Keys, SetupQuantumDescriptor(k)
  PROVE  TypeInv'
  <1>1. NewDescriptor \in Descriptor
    BY DEF NewDescriptor, Descriptor
  <1>2. CachedTracked'
    BY DEF TypeInv, CachedTracked, SetupQuantumDescriptor, memVars
  <1>3. db_descriptor' \in [Keys -> Descriptor \cup {None}]
    BY <1>1 DEF TypeInv, TypeOK, SetupQuantumDescriptor
  <1>4. failures' \in Nat /\ lost' \in SUBSET Keys
    BY DEF TypeInv, TypeOK, SetupQuantumDescriptor, WriteSucceeds, WriteFails
  <1>5. /\ pc' \in PCs /\ has_key' \in BOOLEAN
        /\ key' \in Keys \cup {None} /\ qkey' \in Keys \cup {None}
        /\ quantum_spkm_used' \in Keys \cup {None}
    <2>1. CASE EndCall
      BY <2>1 DEF EndCall, PCs
    <2>2. CASE pc' = "setup_key" /\ qkey' = k /\ UNCHANGED <<key, has_key, quantum_spkm_used>>
      BY <2>2 DEF TypeInv, TypeOK, PCs
    <2> QED BY <2>1, <2>2 DEF SetupQuantumDescriptor
  <1> QED BY <1>2, <1>3, <1>4, <1>5 DEF TypeInv, TypeOK, SetupQuantumDescriptor, memVars

(* A failed SetupQuantumDescriptor keeps the types. *)
LEMMA TypeSetupFails ==
  ASSUME TypeInv, SetupFails
  PROVE  TypeInv'
  BY DEF TypeInv, TypeOK, CachedTracked, SetupFails, EndCall, memVars, dbVars, histVars, PCs

(* Adding the first key of a new SPKM keeps the types. *)
LEMMA TypeSetupAddQuantumKey ==
  ASSUME TypeInv, SetupAddQuantumKey, qkey \in Keys
  PROVE  TypeInv'
  <1>1. NewDescriptor \in Descriptor
    BY DEF NewDescriptor, Descriptor
  <1>2. CachedTracked'
    BY DEF TypeInv, CachedTracked, SetupAddQuantumKey
  <1>3. /\ db_qkey' \in [Keys -> SUBSET Keys]
        /\ m_spk_managers' \in SUBSET Keys
        /\ m_wallet_descriptor' \in [Keys -> Descriptor]
        /\ m_map_quantum_keys' \in [Keys -> SUBSET Keys]
    <2>1. CASE /\ db_qkey' = [db_qkey EXCEPT ![qkey] = @ \cup {qkey}]
               /\ m_spk_managers' = m_spk_managers \cup {qkey}
               /\ m_wallet_descriptor' = [m_wallet_descriptor EXCEPT ![qkey] = NewDescriptor]
               /\ m_map_quantum_keys' = [m_map_quantum_keys EXCEPT ![qkey] = {qkey}]
      BY <1>1, <2>1 DEF TypeInv, TypeOK
    <2>2. CASE UNCHANGED <<db_qkey, m_spk_managers, m_wallet_descriptor, m_map_quantum_keys>>
      BY <2>2 DEF TypeInv, TypeOK
    <2> QED BY <2>1, <2>2 DEF SetupAddQuantumKey
  <1>4. failures' \in Nat /\ lost' \in SUBSET Keys
    BY DEF TypeInv, TypeOK, SetupAddQuantumKey, WriteSucceeds, WriteFails
  <1>5. /\ pc' \in PCs /\ has_key' \in BOOLEAN
        /\ {key', qkey', quantum_spkm_used'} \subseteq Keys \cup {None}
    <2>1. CASE EndCall
      BY <2>1 DEF EndCall, PCs
    <2>2. CASE /\ quantum_spkm_used' \in m_spk_managers' /\ pc' = "script"
               /\ UNCHANGED <<key, has_key, qkey>>
      BY <1>3, <2>2 DEF TypeInv, TypeOK, PCs
    <2> QED BY <2>1, <2>2 DEF SetupAddQuantumKey
  <1> QED BY <1>2, <1>3, <1>4, <1>5 DEF TypeInv, TypeOK, SetupAddQuantumKey

(* AddScriptPubKey keeps the types, with its negative index. *)
LEMMA TypeAddScriptPubKey ==
  ASSUME TypeInv, AddScriptPubKey, key \in Keys, quantum_spkm_used \in Keys
  PROVE  TypeInv'
  <1>1. Addr(key) \in Scripts
    BY ScriptsOfKeys
  <1>2. quantum_index \in Indices /\ quantum_index # None
    BY NoneAssumption DEF TypeInv, TypeOK, Indices
  <1>3. quantum_index' \in {i \in Int : i < 0}
    BY DEF TypeInv, TypeOK, AddScriptPubKey
  <1>4. CachedTracked'
    <2> SUFFICES ASSUME NEW s \in Scripts, NEW d \in m_cached_spks'[s]
                 PROVE  m_map_script_pub_keys'[d][s] # None
      BY DEF CachedTracked
    <2>1. d \in Keys
      BY <1>1 DEF TypeInv, TypeOK, AddScriptPubKey, TopUpCallback
    <2>2. CASE s = Addr(key) /\ d = quantum_spkm_used
      BY <1>1, <1>2, <2>1, <2>2 DEF TypeInv, TypeOK, AddScriptPubKey
    <2>3. CASE ~(s = Addr(key) /\ d = quantum_spkm_used)
      <3>1. d \in m_cached_spks[s]
        BY <1>1, <2>3 DEF TypeInv, TypeOK, AddScriptPubKey, TopUpCallback
      <3>2. m_map_script_pub_keys'[d][s] = m_map_script_pub_keys[d][s]
        BY <1>1, <2>1, <2>3 DEF TypeInv, TypeOK, AddScriptPubKey
      <3> QED BY <3>1, <3>2 DEF TypeInv, CachedTracked
    <2> QED BY <2>2, <2>3
  <1>5. m_map_script_pub_keys' \in [Keys -> [Scripts -> Indices]]
    BY <1>1, <1>2 DEF TypeInv, TypeOK, AddScriptPubKey
  <1>6. db_script' \in [Keys -> [Keys -> Indices]]
    <2>1. CASE db_script' = [db_script EXCEPT ![quantum_spkm_used][key] = quantum_index]
      BY <1>2, <2>1 DEF TypeInv, TypeOK
    <2>2. CASE UNCHANGED db_script
      BY <2>2 DEF TypeInv, TypeOK
    <2> QED BY <2>1, <2>2 DEF AddScriptPubKey, WriteDescriptorScript
  <1>7. failures' \in Nat /\ lost' \in SUBSET Keys
    BY DEF TypeInv, TypeOK, AddScriptPubKey, WriteSucceeds, WriteFails
  <1> QED BY <1>1, <1>3, <1>4, <1>5, <1>6, <1>7
          DEF TypeInv, TypeOK, AddScriptPubKey, TopUpCallback, PCs

(* AddWitnessScript keeps the types. *)
LEMMA TypeAddWitnessScript ==
  ASSUME TypeInv, AddWitnessScript, key \in Keys, quantum_spkm_used \in Keys
  PROVE  TypeInv'
  <1>1. CachedTracked'
    BY DEF TypeInv, CachedTracked, AddWitnessScript
  <1>2. m_map_witness_scripts' \in [Keys -> SUBSET Keys]
    BY DEF TypeInv, TypeOK, AddWitnessScript, TrackWitnessScript
  <1>4. db_witness' \in [Keys -> SUBSET Keys]
    <2>1. CASE db_witness' = [db_witness EXCEPT ![quantum_spkm_used] = @ \cup {key}]
      BY <2>1 DEF TypeInv, TypeOK
    <2>2. CASE UNCHANGED db_witness
      BY <2>2 DEF TypeInv, TypeOK
    <2> QED BY <2>1, <2>2 DEF AddWitnessScript, WriteDescriptorWitnessScript
  <1>3. failures' \in Nat /\ lost' \in SUBSET Keys
    BY DEF TypeInv, TypeOK, AddWitnessScript, WriteSucceeds, WriteFails
  <1> QED BY <1>1, <1>2, <1>3, <1>4 DEF TypeInv, TypeOK, AddWitnessScript, PCs

(* Labelling and returning the address keeps the types. *)
LEMMA TypeReturnDestination ==
  ASSUME TypeInv, ReturnDestination, key \in Keys
  PROVE  TypeInv'
  <1>1. CachedTracked'
    BY DEF TypeInv, CachedTracked, ReturnDestination
  <1>2. /\ m_address_book' \in SUBSET Keys /\ db_name' \in SUBSET Keys
        /\ handed' \in SUBSET Keys /\ session' \in SUBSET Keys
    BY DEF TypeInv, TypeOK, ReturnDestination
  <1>3. dirty' \in SUBSET Scripts /\ failures' \in Nat
    BY ScriptsOfKeys DEF TypeInv, TypeOK, ReturnDestination
  <1>4. /\ pc' \in PCs /\ has_key' \in BOOLEAN
        /\ {key', qkey', quantum_spkm_used'} \subseteq Keys \cup {None}
    BY DEF ReturnDestination, EndCall, PCs
  <1> QED BY <1>1, <1>2, <1>3, <1>4 DEF TypeInv, TypeOK, ReturnDestination

(* EncryptWallet keeps the types. *)
LEMMA TypeEncryptWallet ==
  ASSUME TypeInv, EncryptWallet
  PROVE  TypeInv'
  <1>1. CachedTracked'
    BY DEF TypeInv, CachedTracked, EncryptWallet
  <1>2. crypt' \in {"plain", "locked", "unlocked", "stuck"} /\ db_mkey' \in BOOLEAN
    BY DEF TypeInv, TypeOK, EncryptWallet
  <1>3. failures' \in Nat
    BY DEF TypeInv, TypeOK, EncryptWallet
  <1> QED BY <1>1, <1>2, <1>3 DEF TypeInv, TypeOK, EncryptWallet, callVars

(* Unlock and Lock keep the types. *)
LEMMA TypeSetLocked ==
  ASSUME TypeInv, Unlock \/ Lock
  PROVE  TypeInv'
  BY DEF TypeInv, TypeOK, CachedTracked, Unlock, Lock, SetLocked, callVars, dbVars, histVars

(* UnloadWallet keeps the types. *)
LEMMA TypeUnloadWallet ==
  ASSUME TypeInv, UnloadWallet
  PROVE  TypeInv'
  BY FreshMemoryType DEF TypeInv, TypeOK, UnloadWallet, dbVars, callVars

(* A crash keeps the types. *)
LEMMA TypeCrash ==
  ASSUME TypeInv, Crash
  PROVE  TypeInv'
  <1>1. crashes' \in Nat /\ quantum_index' \in {i \in Int : i < 0}
    BY DEF TypeInv, TypeOK, Crash
  <1>2. FreshMemory
    BY DEF Crash
  <1> QED BY <1>1, <1>2, FreshMemoryType DEF TypeInv, TypeOK, Crash, EndCall, dbVars, PCs

(* An index taken by another wallet keeps the types. *)
LEMMA TypeOtherWallet ==
  ASSUME TypeInv, OtherWallet
  PROVE  TypeInv'
  BY DEF TypeInv, TypeOK, CachedTracked, OtherWallet, memVars, dbVars, callVars, histVars

(* What LoadWallet builds from well-typed records is well typed. *)
LEMMA TypeLoadWallet ==
  ASSUME TypeInv, LoadWallet
  PROVE  TypeInv'
  <1>1. \A d \in Keys : LoadedDescriptor(d) \in Descriptor
    BY DEF TypeInv, TypeOK, LoadedDescriptor, NewDescriptor, Descriptor
  <1>2. \A d \in Keys : LoadedDescriptor(d).range_end - 1 \in {-1, 0}
    BY <1>1 DEF Descriptor
  <1>3. \A d \in Keys : LoadedScripts(d) \in [Scripts -> Indices]
    <2> SUFFICES ASSUME NEW d \in Keys, NEW s \in Scripts
                 PROVE  LoadedScripts(d)[s] \in Indices
      BY DEF LoadedScripts
    <2>1. s[2] \in Keys
      BY DEF Scripts
    <2>2. db_script[d][s[2]] \in Indices /\ 0 \in Indices /\ None \in Indices
      BY <2>1 DEF TypeInv, TypeOK, Indices
    <2> QED BY <2>2 DEF LoadedScripts
  <1>4. /\ m_spk_managers' \in SUBSET Keys
        /\ m_cached_spks' \in [Scripts -> SUBSET Keys]
        /\ m_address_book' \in SUBSET Keys
        /\ crypt' \in {"plain", "locked", "unlocked", "stuck"}
    BY DEF LoadWallet, TypeInv, TypeOK
  <1>5. /\ m_wallet_descriptor' \in [Keys -> Descriptor]
        /\ m_max_cached_index' \in [Keys -> {-1, 0}]
        /\ m_map_script_pub_keys' \in [Keys -> [Scripts -> Indices]]
    BY <1>1, <1>2, <1>3 DEF LoadWallet
  <1>6. /\ m_map_quantum_keys' \in [Keys -> SUBSET Keys]
        /\ m_map_witness_scripts' \in [Keys -> SUBSET Keys]
    BY DEF LoadWallet, LoadedFor, TypeInv, TypeOK
  <1>7. CachedTracked'
    BY DEF LoadWallet, CachedTracked
  <1> QED BY <1>4, <1>5, <1>6, <1>7
          DEF TypeInv, TypeOK, LoadWallet, dbVars, callVars, histVars

(* The index that Receive reads is an integer, at most 0. *)
LEMMA TypeReceive ==
  ASSUME TypeInv, NEW d \in Keys, NEW s \in Scripts, Receive(d, s)
  PROVE  TypeInv'
  <1> DEFINE index  == m_map_script_pub_keys[d][s]
             marked == [m_wallet_descriptor[d] EXCEPT
                          !.next_index = IF index >= @ THEN index + 1 ELSE @]
             topped == [marked EXCEPT !.range_end = 1]
  <1>1. index \in Int /\ index <= 0
    BY DEF Receive, TypeInv, TypeOK, CachedTracked, Indices
  <1>2. marked \in Descriptor
    <2>1. PICK w \in Descriptor : w = m_wallet_descriptor[d]
      BY DEF TypeInv, TypeOK
    <2>2. (IF index >= w.next_index THEN index + 1 ELSE w.next_index) \in {0, 1}
      BY <1>1, <2>1 DEF Descriptor
    <2> QED BY <2>1, <2>2 DEF Descriptor
  <1>3. topped \in Descriptor
    BY <1>2 DEF Descriptor
  <1> HIDE DEF marked, topped
  <1>4. Desc(d) \in Scripts /\ 0 \in Indices /\ 0 # None
    BY ScriptsOfKeys, NoneAssumption DEF Indices
  <1>5. \/ m_wallet_descriptor' = [m_wallet_descriptor EXCEPT ![d] = topped]
        \/ m_wallet_descriptor' = [m_wallet_descriptor EXCEPT ![d] = marked]
    BY DEF Receive, marked, topped, index
  <1>6. m_wallet_descriptor' \in [Keys -> Descriptor]
    BY <1>2, <1>3, <1>5 DEF TypeInv, TypeOK
  <1>7. \/ db_descriptor' = [db_descriptor EXCEPT ![d] = topped]
        \/ UNCHANGED db_descriptor
    BY DEF Receive, marked, topped, index
  <1>8. db_descriptor' \in [Keys -> Descriptor \cup {None}]
    BY <1>3, <1>7 DEF TypeInv, TypeOK
  <1>9. dirty' \in SUBSET Scripts
    BY <1>4 DEF Receive, TypeInv, TypeOK
  <1>10. failures' \in Nat
    BY DEF Receive, TypeInv, TypeOK
  <1>11. ExpandTo0(d) \/ UNCHANGED <<m_max_cached_index, m_map_script_pub_keys, m_cached_spks>>
    BY DEF Receive
  <1>12. /\ m_max_cached_index' \in [Keys -> {-1, 0}]
         /\ m_map_script_pub_keys' \in [Keys -> [Scripts -> Indices]]
         /\ m_cached_spks' \in [Scripts -> SUBSET Keys]
         /\ CachedTracked'
    <2>1. CASE UNCHANGED <<m_max_cached_index, m_map_script_pub_keys, m_cached_spks>>
      BY <2>1 DEF TypeInv, TypeOK, CachedTracked
    <2>2. CASE /\ m_max_cached_index' = [m_max_cached_index EXCEPT ![d] = 0]
               /\ m_map_script_pub_keys' = [m_map_script_pub_keys EXCEPT ![d][Desc(d)] = 0]
               /\ TopUpCallback(Desc(d), d)
      <3>1. m_max_cached_index' \in [Keys -> {-1, 0}]
        BY <2>2 DEF TypeInv, TypeOK
      <3>2. m_map_script_pub_keys' \in [Keys -> [Scripts -> Indices]]
        BY <2>2, <1>4 DEF TypeInv, TypeOK
      <3>3. m_cached_spks' \in [Scripts -> SUBSET Keys]
        BY <2>2, <1>4 DEF TypeInv, TypeOK, TopUpCallback
      <3>4. ASSUME NEW t \in Scripts, NEW e \in m_cached_spks'[t]
            PROVE  m_map_script_pub_keys'[e][t] # None
        <4>1. e \in Keys
          BY <3>3
        <4>2. CASE t = Desc(d) /\ e = d
          BY <1>4, <2>2, <4>2 DEF TypeInv, TypeOK
        <4>3. CASE ~(t = Desc(d) /\ e = d)
          <5>1. e \in m_cached_spks[t]
            BY <1>4, <2>2, <4>3 DEF TypeInv, TypeOK, TopUpCallback
          <5>2. m_map_script_pub_keys'[e][t] = m_map_script_pub_keys[e][t]
            BY <1>4, <2>2, <4>1, <4>3 DEF TypeInv, TypeOK
          <5> QED BY <5>1, <5>2 DEF TypeInv, CachedTracked
        <4> QED BY <4>2, <4>3
      <3> QED BY <3>1, <3>2, <3>3, <3>4 DEF CachedTracked
    <2> QED BY <1>11, <2>1, <2>2 DEF ExpandTo0
  <1> QED BY <1>6, <1>8, <1>9, <1>10, <1>12 DEF TypeInv, TypeOK, Receive, callVars

-----------------------------------------------------------------------------
(* The inductive invariant.  HandedOutDurable speaks of the end of a call; *)
(* it is inductive only together with what each program counter says of    *)
(* the records already written, CallInv, with the freshness of a newly     *)
(* generated key, FreshInv, and with the existence of the descriptor       *)
(* record of every SPKM, FileInv.                                          *)

FreshInv == /\ handed \subseteq generated
            /\ \A d \in Keys : /\ m_map_quantum_keys[d] \subseteq generated
                               /\ db_qkey[d] \subseteq generated

FileInv == \A d \in m_spk_managers : db_descriptor[d] # None

CallInv ==
    /\ pc # "idle" => key \in generated \ handed
    /\ pc = "find" => has_key
    /\ pc \in {"setup", "setup_key"} /\ ~has_key => key \in lost
    /\ pc \in {"find", "setup", "setup_key"} /\ key \notin lost =>
         \A d \in Keys : key \notin m_map_quantum_keys[d]
    /\ pc = "setup_key" => /\ qkey \in generated \ handed
                           /\ db_descriptor[qkey] # None
                           /\ key \notin lost => qkey = key
    /\ pc \in {"script", "witness", "book"} =>
         /\ quantum_spkm_used \in m_spk_managers
         /\ key \notin lost => key \in db_qkey[quantum_spkm_used]
    /\ pc \in {"witness", "book"} /\ key \notin lost =>
         db_script[quantum_spkm_used][key] # None
    /\ pc = "book" /\ key \notin lost => key \in db_witness[quantum_spkm_used]

WalletInv == TypeInv /\ FreshInv /\ FileInv /\ CallInv /\ HandedOutDurable

(* The inductive invariant holds of a new wallet. *)
LEMMA InitWalletInv == Init => WalletInv
  <1> SUFFICES ASSUME Init PROVE WalletInv
    OBVIOUS
  <1>1. FreshInv /\ FileInv /\ HandedOutDurable
    BY DEF Init, FreshInv, FileInv, HandedOutDurable, NoKeyLists
  <1>2. CallInv
    BY DEF Init, CallInv
  <1> QED BY <1>1, <1>2, InitTypeInv DEF WalletInv

(* The locals of a call have values when they are used. *)
LEMMA CallTypes ==
  ASSUME WalletInv
  PROVE  /\ pc # "idle" => key \in Keys
         /\ pc = "setup_key" => qkey \in Keys
         /\ pc \in {"script", "witness", "book"} => quantum_spkm_used \in Keys
  BY DEF WalletInv, TypeInv, TypeOK, CallInv

(* Every step keeps the types. *)
LEMMA StepTypeInv == WalletInv /\ [Next]_vars => TypeInv'
  <1> SUFFICES ASSUME WalletInv, [Next]_vars PROVE TypeInv'
    OBVIOUS
  <1>0. TypeInv
    BY DEF WalletInv
  <1>1. ASSUME NEW k \in Keys, GetNewQuantumDestination(k) PROVE TypeInv'
    BY <1>0, <1>1, TypeGetNewQuantumDestination
  <1>2. CASE CallStep
    <2>1. ASSUME NEW d \in Keys, AddToExisting(d) PROVE TypeInv'
      BY <1>0, <2>1, CallTypes, TypeAddToExisting DEF AddToExisting
    <2>2. CASE NoneExisting
      BY <1>0, <2>2, TypeNoneExisting
    <2>3. ASSUME NEW k \in Keys, SetupQuantumDescriptor(k) PROVE TypeInv'
      BY <1>0, <2>3, TypeSetupQuantumDescriptor
    <2>4. CASE SetupFails
      BY <1>0, <2>4, TypeSetupFails
    <2>5. CASE SetupAddQuantumKey
      BY <1>0, <2>5, CallTypes, TypeSetupAddQuantumKey DEF SetupAddQuantumKey
    <2>6. CASE AddScriptPubKey
      BY <1>0, <2>6, CallTypes, TypeAddScriptPubKey DEF AddScriptPubKey
    <2>7. CASE AddWitnessScript
      BY <1>0, <2>7, CallTypes, TypeAddWitnessScript DEF AddWitnessScript
    <2>8. CASE ReturnDestination
      BY <1>0, <2>8, CallTypes, TypeReturnDestination DEF ReturnDestination
    <2> QED BY <1>2, <2>1, <2>2, <2>3, <2>4, <2>5, <2>6, <2>7, <2>8 DEF CallStep
  <1>3. ASSUME NEW d \in Keys, NEW s \in Scripts, Receive(d, s) PROVE TypeInv'
    BY <1>0, <1>3, TypeReceive
  <1>4. CASE EncryptWallet
    BY <1>0, <1>4, TypeEncryptWallet
  <1>5. CASE Unlock \/ Lock
    BY <1>0, <1>5, TypeSetLocked
  <1>6. CASE UnloadWallet
    BY <1>0, <1>6, TypeUnloadWallet
  <1>7. CASE LoadWallet
    BY <1>0, <1>7, TypeLoadWallet
  <1>8. CASE Crash
    BY <1>0, <1>8, TypeCrash
  <1>9. CASE OtherWallet
    BY <1>0, <1>9, TypeOtherWallet
  <1>10. CASE UNCHANGED vars
    BY <1>0, <1>10 DEF TypeInv, TypeOK, CachedTracked, vars, memVars, dbVars, callVars, histVars
  <1> QED BY <1>1, <1>2, <1>3, <1>4, <1>5, <1>6, <1>7, <1>8, <1>9, <1>10 DEF Next

-----------------------------------------------------------------------------
(* Nothing erases a record of the four kinds that make a key durable. *)
FileGrows ==
    \A d \in Keys :
        /\ db_descriptor[d] # None => db_descriptor'[d] # None
        /\ db_qkey[d] \subseteq db_qkey'[d]
        /\ \A k \in Keys : db_script[d][k] # None => db_script'[d][k] # None
        /\ db_witness[d] \subseteq db_witness'[d]

(* No step takes a record out of the file. *)
LEMMA StepFileGrows == WalletInv /\ [Next]_vars => FileGrows
  <1> SUFFICES ASSUME WalletInv, [Next]_vars PROVE FileGrows
    OBVIOUS
  <1>0. TypeOK
    BY DEF WalletInv, TypeInv
  <1>1. CASE UNCHANGED <<db_descriptor, db_qkey, db_script, db_witness>>
    BY <1>1 DEF FileGrows
  <1>2. ASSUME NEW d \in Keys, AddToExisting(d) PROVE FileGrows
    <2>1. \A e \in Keys : db_qkey[e] \subseteq db_qkey'[e]
      <3>1. CASE UNCHANGED db_qkey
        BY <3>1
      <3>2. CASE db_qkey' = [db_qkey EXCEPT ![d] = @ \cup {key}]
        BY <1>0, <3>2 DEF TypeOK
      <3> QED BY <1>2, <3>1, <3>2 DEF AddToExisting
    <2>2. UNCHANGED <<db_descriptor, db_script, db_witness>>
      BY <1>2 DEF AddToExisting
    <2> QED BY <2>1, <2>2 DEF FileGrows
  <1>3. ASSUME NEW k \in Keys, SetupQuantumDescriptor(k) PROVE FileGrows
    <2>1. NewDescriptor # None
      BY NoneAssumption DEF NewDescriptor, Descriptor
    <2>2. \A d \in Keys : db_descriptor[d] # None => db_descriptor'[d] # None
      <3>1. CASE UNCHANGED db_descriptor
        BY <3>1
      <3>2. CASE db_descriptor' = [db_descriptor EXCEPT ![k] = NewDescriptor]
        BY <1>0, <2>1, <3>2 DEF TypeOK
      <3> QED BY <1>3, <3>1, <3>2 DEF SetupQuantumDescriptor
    <2>3. UNCHANGED <<db_qkey, db_script, db_witness>>
      BY <1>3 DEF SetupQuantumDescriptor
    <2> QED BY <2>2, <2>3 DEF FileGrows
  <1>4. CASE SetupAddQuantumKey
    <2>1. \A d \in Keys : db_qkey[d] \subseteq db_qkey'[d]
      <3>1. CASE UNCHANGED db_qkey
        BY <3>1
      <3>2. CASE db_qkey' = [db_qkey EXCEPT ![qkey] = @ \cup {qkey}]
        BY <1>0, <3>2 DEF TypeOK
      <3> QED BY <1>4, <3>1, <3>2 DEF SetupAddQuantumKey
    <2>2. UNCHANGED <<db_descriptor, db_script, db_witness>>
      BY <1>4 DEF SetupAddQuantumKey
    <2> QED BY <2>1, <2>2 DEF FileGrows
  <1>5. CASE AddScriptPubKey
    <2>1. quantum_index # None
      BY <1>0, NoneAssumption DEF TypeOK
    <2>2. \A d, k \in Keys : db_script[d][k] # None => db_script'[d][k] # None
      <3>1. CASE UNCHANGED db_script
        BY <3>1
      <3>2. CASE db_script' = [db_script EXCEPT ![quantum_spkm_used][key] = quantum_index]
        BY <1>0, <2>1, <3>2 DEF TypeOK
      <3> QED BY <1>5, <3>1, <3>2 DEF AddScriptPubKey, WriteDescriptorScript
    <2>3. UNCHANGED <<db_descriptor, db_qkey, db_witness>>
      BY <1>5 DEF AddScriptPubKey
    <2> QED BY <2>2, <2>3 DEF FileGrows
  <1>6. CASE AddWitnessScript
    <2>1. \A d \in Keys : db_witness[d] \subseteq db_witness'[d]
      <3>1. CASE UNCHANGED db_witness
        BY <3>1
      <3>2. CASE db_witness' = [db_witness EXCEPT ![quantum_spkm_used] = @ \cup {key}]
        BY <1>0, <3>2 DEF TypeOK
      <3> QED BY <1>6, <3>1, <3>2 DEF AddWitnessScript, WriteDescriptorWitnessScript
    <2>2. UNCHANGED <<db_descriptor, db_qkey, db_script>>
      BY <1>6 DEF AddWitnessScript
    <2> QED BY <2>1, <2>2 DEF FileGrows
  <1>7. ASSUME NEW d \in Keys, NEW s \in Scripts, Receive(d, s) PROVE FileGrows
    <2>1. \/ UNCHANGED db_descriptor
          \/ db_descriptor' = [db_descriptor EXCEPT ![d] = m_wallet_descriptor'[d]]
      BY <1>0, <1>7 DEF Receive, TypeOK
    <2>2. m_wallet_descriptor'[d] # None
      BY StepTypeInv, NoneAssumption DEF TypeInv, TypeOK
    <2> QED BY <1>0, <1>7, <2>1, <2>2 DEF FileGrows, Receive, TypeOK
  <1>8. CASE \/ \E k \in Keys : GetNewQuantumDestination(k)
             \/ NoneExisting \/ SetupFails \/ ReturnDestination
             \/ EncryptWallet \/ Unlock \/ Lock
             \/ UnloadWallet \/ LoadWallet \/ Crash \/ OtherWallet \/ UNCHANGED vars
    BY <1>1, <1>8 DEF GetNewQuantumDestination, NoneExisting, SetupFails, ReturnDestination,
         EncryptWallet, Unlock, Lock, SetLocked, UnloadWallet, LoadWallet, Crash, OtherWallet,
         vars, dbVars
  <1> QED BY <1>2, <1>3, <1>4, <1>5, <1>6, <1>7, <1>8 DEF Next, CallStep

-----------------------------------------------------------------------------
(* Keys in memory and in the file have been generated. *)
LEMMA StepFreshInv == WalletInv /\ [Next]_vars => FreshInv'
  <1> SUFFICES ASSUME WalletInv, [Next]_vars PROVE FreshInv'
    OBVIOUS
  <1>0. TypeOK /\ FreshInv
    BY DEF WalletInv, TypeInv
  <1>1. CASE /\ UNCHANGED <<m_map_quantum_keys, db_qkey>>
             /\ handed' = handed /\ generated \subseteq generated'
    BY <1>0, <1>1 DEF FreshInv
  <1>2. ASSUME NEW d \in Keys, AddToExisting(d) PROVE FreshInv'
    <2>1. key \in generated /\ UNCHANGED <<handed, generated>>
      BY <1>2 DEF AddToExisting, WalletInv, CallInv
    <2>2. \A e \in Keys : m_map_quantum_keys'[e] \subseteq m_map_quantum_keys[e] \cup {key}
      BY <1>0, <1>2 DEF AddToExisting, TypeOK
    <2>3. \A e \in Keys : db_qkey'[e] \subseteq db_qkey[e] \cup {key}
      BY <1>0, <1>2 DEF AddToExisting, TypeOK
    <2> QED BY <1>0, <2>1, <2>2, <2>3 DEF FreshInv
  <1>3. CASE SetupAddQuantumKey
    <2>1. qkey \in generated /\ UNCHANGED <<handed, generated>>
      BY <1>3 DEF SetupAddQuantumKey, WalletInv, CallInv
    <2>2. CASE UNCHANGED <<m_map_quantum_keys, db_qkey>>
      BY <1>1, <2>1, <2>2
    <2>3. CASE /\ db_qkey' = [db_qkey EXCEPT ![qkey] = @ \cup {qkey}]
               /\ m_map_quantum_keys' = [m_map_quantum_keys EXCEPT ![qkey] = {qkey}]
      <3>1. \A e \in Keys : m_map_quantum_keys'[e] \subseteq m_map_quantum_keys[e] \cup {qkey}
        BY <1>0, <2>3 DEF TypeOK
      <3>2. \A e \in Keys : db_qkey'[e] \subseteq db_qkey[e] \cup {qkey}
        BY <1>0, <2>3 DEF TypeOK
      <3> QED BY <1>0, <2>1, <3>1, <3>2 DEF FreshInv
    <2> QED BY <1>3, <2>2, <2>3 DEF SetupAddQuantumKey
  <1>4. CASE ReturnDestination
    <2>1. key \in generated
      BY <1>4 DEF ReturnDestination, WalletInv, CallInv
    <2>2. /\ handed' \subseteq handed \cup {key}
          /\ UNCHANGED <<generated, m_map_quantum_keys, db_qkey>>
      BY <1>4 DEF ReturnDestination
    <2> QED BY <1>0, <2>1, <2>2 DEF FreshInv
  <1>5. CASE UnloadWallet \/ Crash
    <2>1. UNCHANGED <<generated, handed, db_qkey>> /\ m_map_quantum_keys' = NoKeyLists
      BY <1>5 DEF UnloadWallet, Crash, FreshMemory, dbVars
    <2> QED BY <1>0, <2>1 DEF FreshInv, NoKeyLists
  <1>6. CASE LoadWallet
    <2>1. /\ UNCHANGED <<generated, handed, db_qkey>>
          /\ m_map_quantum_keys' = [d \in Keys |-> LoadedFor(d, db_qkey)]
      BY <1>6 DEF LoadWallet, dbVars, histVars
    <2> QED BY <1>0, <2>1 DEF FreshInv, LoadedFor
  <1>7. ASSUME NEW k \in Keys, GetNewQuantumDestination(k) \/ SetupQuantumDescriptor(k)
        PROVE  FreshInv'
    BY <1>1, <1>7 DEF GetNewQuantumDestination, SetupQuantumDescriptor, memVars, dbVars
  <1>8. ASSUME NEW d \in Keys, NEW s \in Scripts, Receive(d, s) PROVE FreshInv'
    BY <1>1, <1>8 DEF Receive
  <1>9. CASE \/ NoneExisting \/ SetupFails \/ AddScriptPubKey \/ AddWitnessScript
             \/ EncryptWallet \/ Unlock \/ Lock \/ OtherWallet \/ UNCHANGED vars
    BY <1>1, <1>9 DEF NoneExisting, SetupFails, AddScriptPubKey, AddWitnessScript,
         EncryptWallet, Unlock, Lock, SetLocked, OtherWallet, vars, memVars, dbVars, histVars
  <1> QED BY <1>2, <1>3, <1>4, <1>5, <1>6, <1>7, <1>8, <1>9 DEF Next, CallStep

(* An SPKM in memory has a descriptor record. *)
LEMMA StepFileInv == WalletInv /\ [Next]_vars => FileInv'
  <1> SUFFICES ASSUME WalletInv, [Next]_vars PROVE FileInv'
    OBVIOUS
  <1>0. TypeOK /\ FileInv /\ FileGrows
    BY StepFileGrows DEF WalletInv, TypeInv
  <1>1. CASE m_spk_managers' \subseteq m_spk_managers
    BY <1>0, <1>1 DEF FileInv, FileGrows, TypeOK
  <1>2. CASE SetupAddQuantumKey
    <2>1. m_spk_managers' \subseteq m_spk_managers \cup {qkey}
      BY <1>2 DEF SetupAddQuantumKey
    <2>2. qkey \in Keys /\ db_descriptor[qkey] # None
      BY <1>2, CallTypes DEF SetupAddQuantumKey, WalletInv, CallInv
    <2> QED BY <1>0, <2>1, <2>2 DEF FileInv, FileGrows, TypeOK
  <1>3. CASE LoadWallet
    BY <1>3 DEF LoadWallet, FileInv, dbVars
  <1>4. CASE UnloadWallet \/ Crash
    BY <1>1, <1>4 DEF UnloadWallet, Crash, FreshMemory
  <1>5. ASSUME NEW d \in Keys, AddToExisting(d) PROVE FileInv'
    BY <1>1, <1>5 DEF AddToExisting
  <1>6. ASSUME NEW k \in Keys, GetNewQuantumDestination(k) \/ SetupQuantumDescriptor(k)
        PROVE  FileInv'
    BY <1>1, <1>6 DEF GetNewQuantumDestination, SetupQuantumDescriptor, memVars
  <1>7. ASSUME NEW d \in Keys, NEW s \in Scripts, Receive(d, s) PROVE FileInv'
    BY <1>1, <1>7 DEF Receive
  <1>8. CASE \/ NoneExisting \/ SetupFails \/ AddScriptPubKey \/ AddWitnessScript
             \/ ReturnDestination \/ EncryptWallet \/ Unlock \/ Lock \/ OtherWallet
             \/ UNCHANGED vars
    BY <1>1, <1>8 DEF NoneExisting, SetupFails, AddScriptPubKey, AddWitnessScript,
         ReturnDestination, EncryptWallet, Unlock, Lock, SetLocked, OtherWallet, vars, memVars
  <1> QED BY <1>2, <1>3, <1>4, <1>5, <1>6, <1>7, <1>8 DEF Next, CallStep

-----------------------------------------------------------------------------
(* What is known at each step of a call. *)
LEMMA StepCallInv == WalletInv /\ [Next]_vars => CallInv'
  <1> SUFFICES ASSUME WalletInv, [Next]_vars PROVE CallInv'
    OBVIOUS
  <1>0. TypeOK /\ CallInv /\ FreshInv
    BY DEF WalletInv, TypeInv
  <1>1. CASE pc' = "idle"
    BY <1>1 DEF CallInv
  <1>2. CASE UNCHANGED <<memVars, dbVars, callVars, histVars>>
    BY <1>0, <1>2 DEF CallInv, memVars, dbVars, callVars, histVars
  <1>3. ASSUME NEW k \in Keys, GetNewQuantumDestination(k) PROVE CallInv'
    <2>1. k \notin handed /\ \A d \in Keys : k \notin m_map_quantum_keys[d]
      BY <1>0, <1>3 DEF FreshInv, GetNewQuantumDestination
    <2>2. /\ pc' = "find" /\ key' = k /\ has_key' = TRUE
          /\ k \in generated' /\ UNCHANGED <<handed, m_map_quantum_keys>>
      BY <1>3 DEF GetNewQuantumDestination, memVars
    <2> QED BY <2>1, <2>2 DEF CallInv
  <1>4. ASSUME NEW d \in Keys, AddToExisting(d) PROVE CallInv'
    <2>1. key \in generated' \ handed' /\ key' = key /\ d \in m_spk_managers'
      BY <1>0, <1>4 DEF CallInv, AddToExisting
    <2>2. CASE /\ db_qkey' = [db_qkey EXCEPT ![d] = @ \cup {key}]
               /\ quantum_spkm_used' = d /\ pc' = "script"
      <3>1. key \in db_qkey'[d]
        BY <1>0, <2>2 DEF TypeOK
      <3> QED BY <2>1, <2>2, <3>1 DEF CallInv
    <2>3. CASE WriteFails(key) /\ pc' = "setup"
      <3>1. key \in lost'
        BY <2>3 DEF WriteFails
      <3> QED BY <2>1, <2>3, <3>1 DEF CallInv
    <2> QED BY <1>4, <2>2, <2>3 DEF AddToExisting
  <1>5. CASE NoneExisting
    BY <1>0, <1>5 DEF CallInv, NoneExisting, memVars, dbVars, histVars
  <1>6. ASSUME NEW k \in Keys, SetupQuantumDescriptor(k) PROVE CallInv'
    <2>1. CASE EndCall
      BY <1>1, <2>1 DEF EndCall
    <2>2. CASE /\ WriteSucceeds
               /\ db_descriptor' = [db_descriptor EXCEPT ![k] = NewDescriptor]
               /\ pc' = "setup_key" /\ qkey' = k
               /\ UNCHANGED <<key, has_key, quantum_spkm_used>>
      <3>1. /\ key \in generated \ handed
            /\ ~has_key => key \in lost
            /\ key \notin lost => \A d \in Keys : key \notin m_map_quantum_keys[d]
        BY <1>0, <1>6 DEF CallInv, SetupQuantumDescriptor
      <3>2. k \in generated' \ handed' /\ (key \notin lost => k = key)
        BY <1>0, <1>6, <3>1 DEF SetupQuantumDescriptor, FreshInv
      <3>3. db_descriptor'[k] # None
        BY <1>0, <2>2, NoneAssumption DEF TypeOK, NewDescriptor, Descriptor
      <3>4. /\ generated \subseteq generated' /\ handed' = handed /\ lost' = lost
            /\ m_map_quantum_keys' = m_map_quantum_keys
        BY <1>6, <2>2 DEF SetupQuantumDescriptor, WriteSucceeds, memVars
      <3> QED BY <2>2, <3>1, <3>2, <3>3, <3>4 DEF CallInv
    <2> QED BY <1>6, <2>1, <2>2 DEF SetupQuantumDescriptor
  <1>7. CASE SetupAddQuantumKey
    <2>1. CASE EndCall
      BY <1>1, <2>1 DEF EndCall
    <2>2. CASE /\ WriteSucceeds
               /\ db_qkey' = [db_qkey EXCEPT ![qkey] = @ \cup {qkey}]
               /\ m_spk_managers' = m_spk_managers \cup {qkey}
               /\ m_map_quantum_keys' = [m_map_quantum_keys EXCEPT ![qkey] = {qkey}]
               /\ \E d \in m_spk_managers' : /\ key \in m_map_quantum_keys'[d]
                                             /\ quantum_spkm_used' = d
               /\ pc' = "script" /\ UNCHANGED <<key, has_key, qkey>>
      <3>1. PICK d \in m_spk_managers' : key \in m_map_quantum_keys'[d] /\ quantum_spkm_used' = d
        BY <2>2
      <3>2. qkey \in Keys /\ d \in Keys
        BY <1>0, <1>7, <2>2, CallTypes DEF SetupAddQuantumKey, TypeOK
      <3>3. key \in generated' \ handed' /\ lost' = lost
        BY <1>0, <1>7, <2>2 DEF CallInv, SetupAddQuantumKey, WriteSucceeds
      <3>4. ASSUME key \notin lost PROVE key \in db_qkey'[d]
        <4>1. qkey = key /\ \A e \in Keys : key \notin m_map_quantum_keys[e]
          BY <1>0, <1>7, <3>4 DEF CallInv, SetupAddQuantumKey
        <4>2. d = qkey
          BY <1>0, <2>2, <3>1, <3>2, <4>1 DEF TypeOK
        <4> QED BY <1>0, <2>2, <3>2, <4>1, <4>2 DEF TypeOK
      <3> QED BY <2>2, <3>1, <3>3, <3>4 DEF CallInv
    <2> QED BY <1>7, <2>1, <2>2 DEF SetupAddQuantumKey
  <1>8. CASE AddScriptPubKey
    <2>1. key \in Keys /\ quantum_spkm_used \in Keys
      BY <1>8, CallTypes DEF AddScriptPubKey
    <2>2. /\ key \in generated \ handed /\ quantum_spkm_used \in m_spk_managers
          /\ key \notin lost => key \in db_qkey[quantum_spkm_used]
      BY <1>0, <1>8 DEF CallInv, AddScriptPubKey
    <2>3. /\ pc' = "witness"
          /\ UNCHANGED <<key, quantum_spkm_used, generated, handed, m_spk_managers, db_qkey>>
      BY <1>8 DEF AddScriptPubKey
    <2>4. lost \subseteq lost'
      BY <1>8 DEF AddScriptPubKey, WriteSucceeds, WriteFails
    <2>5. ASSUME key \notin lost' PROVE db_script'[quantum_spkm_used][key] # None
      <3>1. db_script' = [db_script EXCEPT ![quantum_spkm_used][key] = quantum_index]
        BY <1>8, <2>5 DEF AddScriptPubKey, WriteFails, WriteDescriptorScript
      <3>2. quantum_index # None
        BY <1>0, NoneAssumption DEF TypeOK
      <3> QED BY <1>0, <2>1, <3>1, <3>2 DEF TypeOK
    <2> QED BY <2>2, <2>3, <2>4, <2>5 DEF CallInv
  <1>9. CASE AddWitnessScript
    <2>1. key \in Keys /\ quantum_spkm_used \in Keys
      BY <1>9, CallTypes DEF AddWitnessScript
    <2>2. /\ key \in generated \ handed /\ quantum_spkm_used \in m_spk_managers
          /\ key \notin lost => /\ key \in db_qkey[quantum_spkm_used]
                               /\ db_script[quantum_spkm_used][key] # None
      BY <1>0, <1>9 DEF CallInv, AddWitnessScript
    <2>3. /\ pc' = "book"
          /\ UNCHANGED <<key, quantum_spkm_used, generated, handed, m_spk_managers, db_qkey,
                         db_script>>
      BY <1>9 DEF AddWitnessScript
    <2>4. lost \subseteq lost'
      BY <1>9 DEF AddWitnessScript, WriteSucceeds, WriteFails
    <2>5. ASSUME key \notin lost' PROVE key \in db_witness'[quantum_spkm_used]
      <3>1. db_witness' = [db_witness EXCEPT ![quantum_spkm_used] = @ \cup {key}]
        BY <1>9, <2>5 DEF AddWitnessScript, WriteFails, WriteDescriptorWitnessScript
      <3> QED BY <1>0, <2>1, <3>1 DEF TypeOK
    <2> QED BY <2>2, <2>3, <2>4, <2>5 DEF CallInv
  <1>10. CASE SetupFails \/ ReturnDestination \/ Crash
    BY <1>1, <1>10 DEF SetupFails, ReturnDestination, Crash, EndCall
  <1>11. ASSUME NEW d \in Keys, NEW s \in Scripts, Receive(d, s) PROVE CallInv'
    BY <1>1, <1>11 DEF Receive, callVars
  <1>12. CASE EncryptWallet \/ Unlock \/ Lock \/ UnloadWallet \/ LoadWallet
    BY <1>1, <1>12 DEF EncryptWallet, Unlock, Lock, SetLocked, UnloadWallet, LoadWallet, callVars
  <1>13. CASE OtherWallet \/ UNCHANGED vars
    BY <1>2, <1>13 DEF OtherWallet, vars
  <1> QED BY <1>3, <1>4, <1>5, <1>6, <1>7, <1>8, <1>9, <1>10, <1>11, <1>12, <1>13
          DEF Next, CallStep

-----------------------------------------------------------------------------
(* Durable keys stay durable. *)
LEMMA StepDurable ==
  ASSUME WalletInv, [Next]_vars, NEW k \in Keys, DurableKey(k)
  PROVE  DurableKey(k)'
  BY StepFileGrows DEF DurableKey, FileGrows

(* A step hands out at most one address without a failed write, and the    *)
(* key of that address is durable already.                                 *)
LEMMA StepHanded ==
  ASSUME WalletInv, [Next]_vars
  PROVE  \/ handed' \ lost' = handed \ lost
         \/ \E k \in Keys : /\ DurableKey(k)
                            /\ handed' \ lost' = (handed \ lost) \cup {k}
                            /\ UNCHANGED <<db_descriptor, db_qkey, db_script, db_witness>>
  <1>0. CallInv /\ FreshInv
    BY DEF WalletInv
  <1>1. CASE UNCHANGED <<handed, lost>>
    BY <1>1
  <1>2. ASSUME NEW d \in Keys, AddToExisting(d) PROVE handed' \ lost' = handed \ lost
    BY <1>0, <1>2 DEF AddToExisting, CallInv, WriteFails, WriteSucceeds
  <1>3. ASSUME NEW k \in Keys, SetupQuantumDescriptor(k) PROVE handed' \ lost' = handed \ lost
    <2>1. k \notin handed
      BY <1>0, <1>3 DEF SetupQuantumDescriptor, CallInv, FreshInv
    <2> QED BY <1>3, <2>1 DEF SetupQuantumDescriptor, WriteFails, WriteSucceeds
  <1>4. CASE SetupAddQuantumKey
    BY <1>0, <1>4 DEF SetupAddQuantumKey, CallInv, WriteFails, WriteSucceeds
  <1>5. CASE AddScriptPubKey
    BY <1>0, <1>5 DEF AddScriptPubKey, CallInv, WriteFails, WriteSucceeds
  <1>6. CASE AddWitnessScript
    BY <1>0, <1>6 DEF AddWitnessScript, CallInv, WriteFails, WriteSucceeds
  <1>7. CASE ReturnDestination
    <2>1. UNCHANGED <<lost, db_descriptor, db_qkey, db_script, db_witness>>
      BY <1>7 DEF ReturnDestination
    <2>2. CASE handed' = handed \/ key \in lost
      <3>1. handed' = handed \/ handed' = handed \cup {key}
        BY <1>7 DEF ReturnDestination
      <3> QED BY <2>1, <2>2, <3>1
    <2>3. CASE handed' # handed /\ key \notin lost
      <3>1. handed' = handed \cup {key}
        BY <1>7, <2>3 DEF ReturnDestination
      <3>2. quantum_spkm_used \in Keys /\ key \in Keys
        BY <1>7, CallTypes DEF ReturnDestination
      <3>3. DurableKey(key)
        BY <1>0, <1>7, <2>3, <3>2 DEF ReturnDestination, CallInv, DurableKey, WalletInv, FileInv
      <3> QED BY <2>1, <2>3, <3>1, <3>2, <3>3
    <2> QED BY <2>2, <2>3
  <1>8. CASE \E k \in Keys : GetNewQuantumDestination(k)
    BY <1>1, <1>8 DEF GetNewQuantumDestination
  <1>9. CASE \E d \in Keys, s \in Scripts : Receive(d, s)
    BY <1>1, <1>9 DEF Receive
  <1>10. CASE \/ NoneExisting \/ SetupFails \/ EncryptWallet \/ Unlock \/ Lock
              \/ UnloadWallet \/ LoadWallet \/ Crash \/ OtherWallet \/ UNCHANGED vars
    BY <1>1, <1>10 DEF NoneExisting, SetupFails, EncryptWallet, Unlock, Lock, SetLocked,
         UnloadWallet, LoadWallet, Crash, OtherWallet, vars, histVars
  <1> QED BY <1>2, <1>3, <1>4, <1>5, <1>6, <1>7, <1>8, <1>9, <1>10 DEF Next, CallStep

(* Every step keeps the inductive invariant. *)
LEMMA StepWalletInv == WalletInv /\ [Next]_vars => WalletInv'
  <1> SUFFICES ASSUME WalletInv, [Next]_vars PROVE WalletInv'
    OBVIOUS
  <1>1. TypeInv' /\ FreshInv' /\ FileInv' /\ CallInv'
    BY StepTypeInv, StepFreshInv, StepFileInv, StepCallInv
  <1>2. HandedOutDurable'
    <2> SUFFICES ASSUME NEW k \in handed' \ lost' PROVE DurableKey(k)'
      BY DEF HandedOutDurable
    <2>1. k \in Keys
      BY <1>1 DEF TypeInv, TypeOK
    <2>2. DurableKey(k)
      BY StepHanded DEF WalletInv, HandedOutDurable
    <2> QED BY <2>1, <2>2, StepDurable
  <1> QED BY <1>1, <1>2 DEF WalletInv

(* The invariant holds in every state. *)
THEOREM WalletInvariant == Spec => []WalletInv
  BY InitWalletInv, StepWalletInv, PTL DEF Spec

(* Every variable of the wallet, of its file and of the call keeps its     *)
(* type, for any number of keys, crashes and failed writes; in particular  *)
(* MarkUnusedAddresses never computes with an index that is not there.     *)
THEOREM WalletTypeCorrect == Spec => []TypeOK
  <1>1. WalletInv => TypeOK
    BY DEF WalletInv, TypeInv
  <1> QED BY <1>1, WalletInvariant, PTL

(* An address that getnewaddress returned, none of whose writes failed,    *)
(* has its descriptor, key, script and witness script records in the file, *)
(* whatever crashes, reloads and failures of other writes came before or   *)
(* come after.                                                             *)
THEOREM WalletWriteAhead == Spec => []HandedOutDurable
  <1>1. WalletInv => HandedOutDurable
    BY DEF WalletInv
  <1> QED BY <1>1, WalletInvariant, PTL

(* The wallet implements AddressLedger: reading the durable keys off the   *)
(* file, every step of the wallet saves records, hands out an address      *)
(* whose key is durable, or changes neither.                               *)
THEOREM WalletImplementsLedger == Spec => ImplementsLedger
  <1>1. Init => Ledger!Init
    BY DEF Init, Ledger!Init, DurableKey, NoKeyLists
  <1>2. ASSUME WalletInv, [Next]_vars
        PROVE  [Ledger!Next]_<<{k \in Keys : DurableKey(k)}, handed \ lost>>
    <2> DEFINE durable == {k \in Keys : DurableKey(k)}
    <2>1. durable \subseteq durable' /\ durable' \in SUBSET Keys
      BY <1>2, StepDurable
    <2>2. CASE handed' \ lost' = handed \ lost
      <3>1. Ledger!Save
        BY <2>1, <2>2 DEF Ledger!Save
      <3> QED BY <3>1 DEF Ledger!Next
    <2>3. CASE \E k \in Keys :
                 /\ DurableKey(k)
                 /\ handed' \ lost' = (handed \ lost) \cup {k}
                 /\ UNCHANGED <<db_descriptor, db_qkey, db_script, db_witness>>
      <3>1. PICK k \in Keys :
                 /\ DurableKey(k)
                 /\ handed' \ lost' = (handed \ lost) \cup {k}
                 /\ UNCHANGED <<db_descriptor, db_qkey, db_script, db_witness>>
        BY <2>3
      <3>2. durable' = durable
        BY <3>1 DEF DurableKey
      <3>3. Ledger!HandOut(k)
        BY <3>1, <3>2 DEF Ledger!HandOut
      <3> QED BY <3>3 DEF Ledger!Next
    <2> QED BY <1>2, <2>2, <2>3, StepHanded
  <1> QED BY <1>1, <1>2, WalletInvariant, PTL DEF Spec, ImplementsLedger, Ledger!Spec

-----------------------------------------------------------------------------
(* Memory *)

(* SPKM d has to do with key k: it has the private key, the script or the  *)
(* witness script of k in memory or in the file.  A key may be owned in    *)
(* memory only (its record failed) or its script in the file only (after a *)
(* restart that lost the key): one relation over both is what is unique.   *)
Owns(d, k) ==
    \/ k \in m_map_quantum_keys[d] \/ k \in db_qkey[d]
    \/ m_map_script_pub_keys[d][Addr(k)] # None \/ db_script[d][k] # None
    \/ k \in m_map_witness_scripts[d] \/ k \in db_witness[d]

(* One owner per key, and none before the key is filed. *)
OwnInv ==
    /\ \A d, e, k \in Keys : Owns(d, k) /\ Owns(e, k) => d = e
    /\ \A d, k \in Keys : Owns(d, k) => k \in generated
    /\ pc \in {"find", "setup"} /\ has_key => \A d \in Keys : ~Owns(d, key)
    /\ pc = "setup_key" => \A d \in Keys : ~Owns(d, qkey)
    /\ pc \in {"script", "witness", "book"} => HaveQuantumKey(quantum_spkm_used, key)

(* What an SPKM that does not exist yet holds. *)
Blank(d) == /\ m_wallet_descriptor[d] = NewDescriptor
            /\ m_max_cached_index[d] = -1
            /\ m_map_quantum_keys[d] = {}
            /\ m_map_script_pub_keys[d] = NoScripts
            /\ m_map_witness_scripts[d] = {}

(* Outside the set of SPKMs memory is blank, and there are no SPKMs while  *)
(* the wallet is not loaded.                                               *)
BlankInv ==
    /\ \A d \in Keys \ m_spk_managers : Blank(d)
    /\ ~loaded => pc = "idle" /\ m_spk_managers = {} /\ session = {}
    /\ \A d \in Keys : db_descriptor[d] # None => d \in generated
    /\ pc \in {"find", "setup"} /\ has_key => db_descriptor[key] = None
    /\ pc = "setup_key" => /\ qkey \notin m_spk_managers
                           /\ db_descriptor[qkey] = NewDescriptor

(* Script indices and ranges, in memory and in the file. *)
RangeInv ==
    /\ RangeMatchesExpansion
    /\ \A d, e \in Keys : d # e => m_map_script_pub_keys[d][Desc(e)] = None
    /\ \A d \in Keys : db_descriptor[d] # None =>
          db_descriptor[d].next_index <= db_descriptor[d].range_end
    /\ \A d, k \in Keys : db_script[d][k] = None \/ db_script[d][k] < 0

(* A loaded wallet holds at least what the file holds, and more only where *)
(* a write failed.                                                         *)
SyncKeys ==
    loaded => \A d \in Keys :
      /\ db_qkey[d] \subseteq m_map_quantum_keys[d]
      /\ m_map_quantum_keys[d] \subseteq db_qkey[d] \cup lost
      /\ db_witness[d] \subseteq m_map_witness_scripts[d]
      /\ m_map_witness_scripts[d] \subseteq db_witness[d] \cup lost
SyncScripts ==
    loaded => \A d, k \in Keys :
      /\ db_script[d][k] # None => m_map_script_pub_keys[d][Addr(k)] # None
      /\ k \notin lost => m_map_script_pub_keys[d][Addr(k)] = db_script[d][k]
SyncWallet ==
    loaded =>
    /\ db_mkey <=> crypt \in {"locked", "unlocked"}
    /\ \A d \in Keys : db_descriptor[d] # None =>
          d \in m_spk_managers \/ d \in lost \/ (pc = "setup_key" /\ d = qkey)
    /\ \A d \in m_spk_managers :
          Desc(d) \notin dirty => m_wallet_descriptor[d] = db_descriptor[d]
    /\ \A k \in Keys : Addr(k) \notin dirty => (k \in m_address_book <=> k \in db_name)

(* Records belong to a descriptor record. *)
FiledInv == \A d \in Keys : db_descriptor[d] = None =>
                /\ db_qkey[d] = {} /\ db_witness[d] = {}
                /\ \A k \in Keys : db_script[d][k] = None

(* SPKM d can spend what the address of k receives. *)
Spendable(d, k) == /\ k \in m_map_quantum_keys[d]
                   /\ m_map_script_pub_keys[d][Addr(k)] # None
                   /\ k \in m_map_witness_scripts[d]
SessionInv ==
    /\ \A k \in session : \E d \in m_spk_managers : Spendable(d, k)
    /\ pc \in {"witness", "book"} => m_map_script_pub_keys[quantum_spkm_used][Addr(key)] # None
    /\ pc = "book" => key \in m_map_witness_scripts[quantum_spkm_used]

MemoryInv == /\ OwnInv /\ BlankInv /\ CacheCoherent /\ RangeInv
             /\ SyncKeys /\ SyncScripts /\ SyncWallet /\ FiledInv /\ SessionInv

-----------------------------------------------------------------------------
(* Facts about the model's operators, and the effect of the actions that   *)
(* change the maps, element by element.                                    *)

(* Equivalent Boolean values are equal, when one of them is a membership. *)
LEMMA EquivalentMembership ==
  ASSUME NEW x, NEW S, NEW q \in BOOLEAN, q <=> (x \in S)
  PROVE  (x \in S) = q
  BY Zenon

(* The scripts of different keys differ, and the two kinds never meet. *)
LEMMA ScriptsDiffer ==
  ASSUME NEW j \in Keys, NEW k \in Keys
  PROVE  /\ Addr(j) \in Scripts /\ Desc(j) \in Scripts
         /\ Addr(j) = Addr(k) => j = k
         /\ Desc(j) = Desc(k) => j = k
         /\ Addr(j) # Desc(k)
  BY DEF Addr, Desc, Scripts

(* Every script is one of the two of some key. *)
LEMMA ScriptKinds ==
  ASSUME NEW s \in Scripts
  PROVE  \E k \in Keys : s = Addr(k) \/ s = Desc(k)
  BY DEF Addr, Desc, Scripts

(* A script index that is there is an integer, at most 0. *)
LEMMA IndexFacts ==
  ASSUME TypeOK
  PROVE  /\ quantum_index \in Int /\ quantum_index < 0 /\ quantum_index # None
         /\ None \notin Int /\ None # NewDescriptor
         /\ NewDescriptor \in Descriptor
         /\ NewDescriptor.next_index = 0 /\ NewDescriptor.range_end = 0
  BY NoneAssumption DEF TypeOK, NewDescriptor, Descriptor

(* AddScriptPubKey changes one entry of one SPKM. *)
LEMMA AddScriptEffect ==
  ASSUME TypeOK, AddScriptPubKey, key \in Keys, quantum_spkm_used \in Keys
  PROVE  /\ \A d \in Keys, s \in Scripts :
               m_map_script_pub_keys'[d][s] =
                 IF d = quantum_spkm_used /\ s = Addr(key) THEN quantum_index
                 ELSE m_map_script_pub_keys[d][s]
         /\ \A s \in Scripts :
               m_cached_spks'[s] = IF s = Addr(key) THEN m_cached_spks[s] \cup {quantum_spkm_used}
                                   ELSE m_cached_spks[s]
         /\ \/ /\ key \in lost' /\ lost' = lost \cup {key} /\ UNCHANGED db_script
            \/ /\ lost' = lost
               /\ \A d, k \in Keys :
                    db_script'[d][k] = IF d = quantum_spkm_used /\ k = key THEN quantum_index
                                       ELSE db_script[d][k]
  <1>0. Addr(key) \in Scripts
    BY ScriptsDiffer
  <1>1. \A d \in Keys, s \in Scripts :
               m_map_script_pub_keys'[d][s] =
                 IF d = quantum_spkm_used /\ s = Addr(key) THEN quantum_index
                 ELSE m_map_script_pub_keys[d][s]
    BY <1>0 DEF AddScriptPubKey, TypeOK
  <1>2. \A s \in Scripts :
               m_cached_spks'[s] = IF s = Addr(key) THEN m_cached_spks[s] \cup {quantum_spkm_used}
                                   ELSE m_cached_spks[s]
    BY <1>0 DEF AddScriptPubKey, TopUpCallback, TypeOK
  <1>3. CASE WriteSucceeds /\ WriteDescriptorScript(quantum_spkm_used, key, quantum_index)
    <2>1. \A d, k \in Keys :
                    db_script'[d][k] = IF d = quantum_spkm_used /\ k = key THEN quantum_index
                                       ELSE db_script[d][k]
      BY <1>3 DEF WriteDescriptorScript, TypeOK
    <2> QED BY <1>1, <1>2, <1>3, <2>1 DEF WriteSucceeds
  <1>4. CASE WriteFails(key) /\ UNCHANGED db_script
    BY <1>1, <1>2, <1>4 DEF WriteFails
  <1> QED BY <1>3, <1>4 DEF AddScriptPubKey

(* The expansion of Receive changes at most the descriptor's own script. *)
LEMMA ExpandEffect ==
  ASSUME TypeOK, NEW d \in Keys, ExpandTo0(d)
  PROVE  /\ m_max_cached_index'[d] = 0
         /\ \A e \in Keys : e # d => m_max_cached_index'[e] = m_max_cached_index[e]
         /\ \A e \in Keys, s \in Scripts :
               m_map_script_pub_keys'[e][s] =
                 IF e = d /\ s = Desc(d) /\ m_max_cached_index[d] = -1 THEN 0
                 ELSE m_map_script_pub_keys[e][s]
         /\ \A s \in Scripts :
               m_cached_spks'[s] =
                 IF s = Desc(d) /\ m_max_cached_index[d] = -1 THEN m_cached_spks[s] \cup {d}
                 ELSE m_cached_spks[s]
  <1>0. Desc(d) \in Scripts
    BY ScriptsDiffer
  <1>1. m_max_cached_index[d] \in {-1, 0}
    BY DEF TypeOK
  <1>2. CASE m_max_cached_index[d] = 0
    BY <1>2 DEF ExpandTo0
  <1>3. CASE m_max_cached_index[d] = -1
    <2>1. /\ m_max_cached_index' = [m_max_cached_index EXCEPT ![d] = 0]
          /\ m_map_script_pub_keys' = [m_map_script_pub_keys EXCEPT ![d][Desc(d)] = 0]
          /\ m_cached_spks' = [m_cached_spks EXCEPT ![Desc(d)] = @ \cup {d}]
      BY <1>3 DEF ExpandTo0, TopUpCallback
    <2>2. \A e \in Keys, s \in Scripts :
               m_map_script_pub_keys'[e][s] =
                 IF e = d /\ s = Desc(d) THEN 0 ELSE m_map_script_pub_keys[e][s]
      BY <1>0, <2>1 DEF TypeOK
    <2>3. \A s \in Scripts :
               m_cached_spks'[s] =
                 IF s = Desc(d) THEN m_cached_spks[s] \cup {d} ELSE m_cached_spks[s]
      BY <1>0, <2>1 DEF TypeOK
    <2>4. /\ m_max_cached_index'[d] = 0
          /\ \A e \in Keys : e # d => m_max_cached_index'[e] = m_max_cached_index[e]
      BY <2>1 DEF TypeOK
    <2> QED BY <1>3, <2>2, <2>3, <2>4
  <1> QED BY <1>1, <1>2, <1>3

(* What LoadWallet leaves of a script: the record of an address, and the   *)
(* descriptor's own script when its range is not empty.                    *)
LEMMA LoadEffect ==
  ASSUME TypeOK, LoadWallet
  PROVE  /\ \A d, k \in Keys :
               m_map_script_pub_keys'[d][Addr(k)] =
                 IF db_descriptor[d] = None THEN None ELSE db_script[d][k]
         /\ \A d, k \in Keys :
               m_map_script_pub_keys'[d][Desc(k)] =
                 IF db_descriptor[d] # None /\ d = k /\ db_descriptor[d].range_end = 1
                   THEN 0 ELSE None
         /\ \A d \in Keys : db_descriptor[d] = None => m_map_script_pub_keys'[d] = NoScripts
  <1>1. m_map_script_pub_keys' = [d \in Keys |-> LoadedScripts(d)]
    BY DEF LoadWallet
  <1>2. ASSUME NEW d \in Keys, NEW k \in Keys
        PROVE  LoadedScripts(d)[Addr(k)] = IF db_descriptor[d] = None THEN None ELSE db_script[d][k]
    <2>1. Addr(k) \in Scripts /\ Addr(k)[1] = "addr" /\ Addr(k)[2] = k
      BY DEF Addr, Scripts
    <2> QED BY <2>1 DEF LoadedScripts
  <1>3. ASSUME NEW d \in Keys, NEW k \in Keys
        PROVE  LoadedScripts(d)[Desc(k)] =
                 IF db_descriptor[d] # None /\ d = k /\ db_descriptor[d].range_end = 1
                   THEN 0 ELSE None
    <2>1. Desc(k) \in Scripts /\ Desc(k)[1] = "desc" /\ (Desc(k) = Desc(d) <=> d = k)
      BY DEF Desc, Scripts
    <2> QED BY <2>1 DEF LoadedScripts
  <1>4. ASSUME NEW d \in Keys, db_descriptor[d] = None PROVE LoadedScripts(d) = NoScripts
    BY <1>4 DEF LoadedScripts, NoScripts
  <1> QED BY <1>1, <1>2, <1>3, <1>4

(* The invariant holds of a new wallet. *)
LEMMA InitMemoryInv == Init => MemoryInv
  <1> SUFFICES ASSUME Init PROVE MemoryInv
    OBVIOUS
  <1>0. /\ \A k \in Keys : Addr(k) \in Scripts /\ Desc(k) \in Scripts
        /\ \A d \in Keys : m_map_script_pub_keys[d] = NoScripts
        /\ \A d \in Keys, s \in Scripts : m_map_script_pub_keys[d][s] = None
    BY ScriptsDiffer DEF Init, NoScripts
  <1>1. OwnInv
    BY <1>0 DEF Init, OwnInv, Owns, NoKeyLists
  <1>2. BlankInv
    BY <1>0 DEF Init, BlankInv, Blank, NoKeyLists
  <1>3. CacheCoherent
    BY DEF Init, CacheCoherent
  <1>4. RangeInv
    BY <1>0 DEF Init, RangeInv, RangeMatchesExpansion
  <1>5. SyncKeys /\ SyncScripts
    BY <1>0 DEF Init, SyncKeys, SyncScripts, NoKeyLists
  <1>6. SyncWallet
    BY DEF Init, SyncWallet
  <1>7. FiledInv /\ SessionInv
    BY DEF Init, FiledInv, SessionInv, NoKeyLists
  <1> QED BY <1>1, <1>2, <1>3, <1>4, <1>5, <1>6, <1>7 DEF MemoryInv

-----------------------------------------------------------------------------
(* Filing a key nobody owns, or one the SPKM owns already, keeps the owner *)
(* unique.                                                                 *)
LEMMA OwnerStaysUnique ==
  ASSUME OwnInv, NEW D \in Keys, NEW K \in generated',
         generated \subseteq generated',
         \A d, k \in Keys : Owns(d, k)' => Owns(d, k) \/ (d = D /\ k = K),
         Owns(D, K) \/ \A d \in Keys : ~Owns(d, K)
  PROVE  /\ \A d, e, k \in Keys : Owns(d, k)' /\ Owns(e, k)' => d = e
         /\ \A d, k \in Keys : Owns(d, k)' => k \in generated'
  BY DEF OwnInv

(* A step that files nothing keeps the owner unique. *)
LEMMA OwnersOnlyLeave ==
  ASSUME OwnInv, generated \subseteq generated',
         \A d, k \in Keys : Owns(d, k)' => Owns(d, k)
  PROVE  /\ \A d, e, k \in Keys : Owns(d, k)' /\ Owns(e, k)' => d = e
         /\ \A d, k \in Keys : Owns(d, k)' => k \in generated'
  BY DEF OwnInv

(* A key has one owner after every step. *)
LEMMA StepOwnInv == WalletInv /\ MemoryInv /\ [Next]_vars => OwnInv'
  <1> SUFFICES ASSUME WalletInv, MemoryInv, [Next]_vars PROVE OwnInv'
    OBVIOUS
  <1>0. TypeOK /\ CallInv /\ OwnInv
    BY DEF WalletInv, TypeInv, MemoryInv
  <1> DEFINE owned == <<m_map_quantum_keys, db_qkey, m_map_script_pub_keys, db_script,
                        m_map_witness_scripts, db_witness>>
  <1>1. ASSUME UNCHANGED owned, generated \subseteq generated'
        PROVE  /\ \A d, k \in Keys : Owns(d, k)' <=> Owns(d, k)
               /\ \A d, e, k \in Keys : Owns(d, k)' /\ Owns(e, k)' => d = e
               /\ \A d, k \in Keys : Owns(d, k)' => k \in generated'
    <2>1. \A d, k \in Keys : Owns(d, k)' <=> Owns(d, k)
      BY <1>1 DEF Owns
    <2> QED BY <1>0, <1>1, <2>1, OwnersOnlyLeave
  <1>2. ASSUME UNCHANGED owned, generated \subseteq generated', pc' = "idle" PROVE OwnInv'
    BY <1>1, <1>2 DEF OwnInv
  <1>3. ASSUME NEW k \in Keys, GetNewQuantumDestination(k) PROVE OwnInv'
    <2>1. UNCHANGED owned /\ generated \subseteq generated'
      BY <1>3 DEF GetNewQuantumDestination, memVars, dbVars
    <2>2. pc' = "find" /\ key' = k /\ \A d \in Keys : ~Owns(d, k)
      BY <1>0, <1>3 DEF GetNewQuantumDestination, OwnInv
    <2> HIDE DEF owned
    <2> QED BY <1>1, <2>1, <2>2 DEF OwnInv
  <1>4. ASSUME NEW d \in Keys, AddToExisting(d) PROVE OwnInv'
    <2>1. key \in Keys /\ key \in generated' /\ generated' = generated /\ has_key /\ key' = key
      BY <1>0, <1>4, CallTypes DEF AddToExisting, CallInv
    <2>2. \A e \in Keys : ~Owns(e, key)
      BY <1>0, <1>4, <2>1 DEF AddToExisting, OwnInv
    <2>3. /\ m_map_quantum_keys' = [m_map_quantum_keys EXCEPT ![d] = @ \cup {key}]
          /\ db_qkey' = [db_qkey EXCEPT ![d] = @ \cup {key}] \/ UNCHANGED db_qkey
          /\ UNCHANGED <<m_map_script_pub_keys, db_script, m_map_witness_scripts, db_witness>>
      BY <1>4 DEF AddToExisting
    <2>4. \A e, k \in Keys : Owns(e, k)' => Owns(e, k) \/ (e = d /\ k = key)
      BY <1>0, <2>3 DEF Owns, TypeOK
    <2>5. key \in m_map_quantum_keys'[d]
      BY <1>0, <2>3 DEF TypeOK
    <2>6. \/ pc' = "setup" /\ has_key' = FALSE
          \/ pc' = "script" /\ quantum_spkm_used' = d
      BY <1>4 DEF AddToExisting, KeyMoved
    <2>7. /\ \A e, f, k \in Keys : Owns(e, k)' /\ Owns(f, k)' => e = f
          /\ \A e, k \in Keys : Owns(e, k)' => k \in generated'
      BY <1>0, <2>1, <2>2, <2>4, OwnerStaysUnique
    <2> QED BY <2>1, <2>5, <2>6, <2>7 DEF OwnInv, HaveQuantumKey
  <1>5. CASE NoneExisting
    <2>1. /\ UNCHANGED owned /\ generated' = generated /\ pc = "find"
          /\ pc' = "setup" /\ UNCHANGED <<key, has_key>>
          /\ key \in Keys
      BY <1>5, CallTypes DEF NoneExisting, memVars, dbVars, histVars
    <2> HIDE DEF owned
    <2> QED BY <1>0, <1>1, <2>1 DEF OwnInv
  <1>6. ASSUME NEW k \in Keys, SetupQuantumDescriptor(k) PROVE OwnInv'
    <2>1. UNCHANGED owned /\ generated \subseteq generated'
      BY <1>6 DEF SetupQuantumDescriptor, memVars, dbVars
    <2>2. \A d \in Keys : ~Owns(d, k)
      BY <1>0, <1>6 DEF SetupQuantumDescriptor, OwnInv
    <2>3. pc' = "idle" \/ (pc' = "setup_key" /\ qkey' = k)
      BY <1>6 DEF SetupQuantumDescriptor, EndCall
    <2> HIDE DEF owned
    <2> QED BY <1>1, <2>1, <2>2, <2>3 DEF OwnInv
  <1>7. CASE SetupAddQuantumKey
    <2>1. qkey \in Keys /\ qkey \in generated' /\ generated' = generated
      BY <1>0, <1>7, CallTypes DEF SetupAddQuantumKey, CallInv
    <2>2. UNCHANGED <<m_map_script_pub_keys, db_script, m_map_witness_scripts, db_witness>>
      BY <1>7 DEF SetupAddQuantumKey
    <2>3. CASE EndCall /\ UNCHANGED <<db_qkey, m_map_quantum_keys>>
      BY <1>2, <2>1, <2>2, <2>3 DEF EndCall
    <2>4. CASE /\ db_qkey' = [db_qkey EXCEPT ![qkey] = @ \cup {qkey}]
               /\ m_map_quantum_keys' = [m_map_quantum_keys EXCEPT ![qkey] = {qkey}]
               /\ \E d \in m_spk_managers' : /\ key \in m_map_quantum_keys'[d]
                                             /\ quantum_spkm_used' = d
               /\ pc' = "script" /\ UNCHANGED <<key, has_key, qkey>>
      <3>1. \A d, k \in Keys : Owns(d, k)' => Owns(d, k) \/ (d = qkey /\ k = qkey)
        BY <1>0, <2>2, <2>4 DEF Owns, TypeOK
      <3>2. \A d \in Keys : ~Owns(d, qkey)
        BY <1>0, <1>7 DEF SetupAddQuantumKey, OwnInv
      <3>3. /\ \A e, f, k \in Keys : Owns(e, k)' /\ Owns(f, k)' => e = f
            /\ \A e, k \in Keys : Owns(e, k)' => k \in generated'
        BY <1>0, <2>1, <3>1, <3>2, OwnerStaysUnique
      <3> QED BY <2>4, <3>3 DEF OwnInv, HaveQuantumKey
    <2> QED BY <1>7, <2>3, <2>4 DEF SetupAddQuantumKey
  <1>8. CASE AddScriptPubKey \/ AddWitnessScript
    <2>1. /\ key \in Keys /\ quantum_spkm_used \in Keys
          /\ key \in generated' /\ generated' = generated
      BY <1>0, <1>8, CallTypes DEF AddScriptPubKey, AddWitnessScript, CallInv
    <2>2. HaveQuantumKey(quantum_spkm_used, key)
      BY <1>0, <1>8 DEF AddScriptPubKey, AddWitnessScript, OwnInv
    <2>3. \A d, k \in Keys : Owns(d, k)' => Owns(d, k) \/ (d = quantum_spkm_used /\ k = key)
      <3>1. CASE AddScriptPubKey
        <4>1. /\ \A k \in Keys : Addr(k) \in Scripts /\ (Addr(k) = Addr(key) => k = key)
              /\ UNCHANGED <<m_map_quantum_keys, db_qkey, m_map_witness_scripts, db_witness>>
          BY <2>1, <3>1, ScriptsDiffer DEF AddScriptPubKey
        <4> QED BY <1>0, <2>1, <3>1, <4>1, AddScriptEffect DEF Owns
      <3>2. CASE AddWitnessScript
        <4>1. /\ UNCHANGED <<m_map_quantum_keys, db_qkey, m_map_script_pub_keys, db_script>>
              /\ m_map_witness_scripts' =
                   [m_map_witness_scripts EXCEPT ![quantum_spkm_used] = @ \cup {key}]
              /\ \/ db_witness' = [db_witness EXCEPT ![quantum_spkm_used] = @ \cup {key}]
                 \/ UNCHANGED db_witness
          BY <3>2 DEF AddWitnessScript, TrackWitnessScript, WriteDescriptorWitnessScript
        <4> QED BY <1>0, <2>1, <4>1 DEF Owns, TypeOK
      <3> QED BY <1>8, <3>1, <3>2
    <2>4. /\ \A e, f, k \in Keys : Owns(e, k)' /\ Owns(f, k)' => e = f
          /\ \A e, k \in Keys : Owns(e, k)' => k \in generated'
      <3>1. Owns(quantum_spkm_used, key)
        BY <2>2 DEF Owns, HaveQuantumKey
      <3> QED BY <1>0, <2>1, <2>3, <3>1, OwnerStaysUnique
    <2>5. pc' \in {"witness", "book"} /\ UNCHANGED <<key, quantum_spkm_used, m_map_quantum_keys>>
      BY <1>8 DEF AddScriptPubKey, AddWitnessScript
    <2> QED BY <2>2, <2>4, <2>5 DEF OwnInv, HaveQuantumKey
  <1>9. ASSUME NEW d \in Keys, NEW s \in Scripts, Receive(d, s) PROVE OwnInv'
    <2>1. /\ ExpandTo0(d) \/ UNCHANGED m_map_script_pub_keys
          /\ UNCHANGED <<m_map_quantum_keys, db_qkey, db_script, m_map_witness_scripts, db_witness,
                         generated>>
          /\ pc' = "idle"
      BY <1>9 DEF Receive, callVars
    <2>2. \A e, k \in Keys : m_map_script_pub_keys'[e][Addr(k)] = m_map_script_pub_keys[e][Addr(k)]
      BY <1>0, <2>1, ExpandEffect, ScriptsDiffer
    <2>3. \A e, k \in Keys : Owns(e, k)' => Owns(e, k)
      BY <2>1, <2>2 DEF Owns
    <2>4. /\ \A e, f, k \in Keys : Owns(e, k)' /\ Owns(f, k)' => e = f
          /\ \A e, k \in Keys : Owns(e, k)' => k \in generated'
      BY <1>0, <2>1, <2>3, OwnersOnlyLeave
    <2> QED BY <2>1, <2>4 DEF OwnInv
  <1>10. CASE UnloadWallet \/ Crash \/ LoadWallet
    <2>1. /\ UNCHANGED <<db_qkey, db_script, db_witness, generated>> /\ pc' = "idle"
      BY <1>10 DEF UnloadWallet, Crash, LoadWallet, EndCall, dbVars, callVars, histVars
    <2>2. \A d, k \in Keys : Owns(d, k)' => Owns(d, k)
      <3>1. CASE UnloadWallet \/ Crash
        <4>1. /\ m_map_quantum_keys' = NoKeyLists /\ m_map_witness_scripts' = NoKeyLists
              /\ m_map_script_pub_keys' = [d \in Keys |-> NoScripts]
          BY <3>1 DEF UnloadWallet, Crash, FreshMemory
        <4> QED BY <2>1, <4>1, ScriptsDiffer DEF Owns, NoKeyLists, NoScripts
      <3>2. CASE LoadWallet
        <4>1. /\ m_map_quantum_keys' = [d \in Keys |-> LoadedFor(d, db_qkey)]
              /\ m_map_witness_scripts' = [d \in Keys |-> LoadedFor(d, db_witness)]
          BY <3>2 DEF LoadWallet
        <4> QED BY <1>0, <2>1, <3>2, <4>1, LoadEffect DEF Owns, LoadedFor
      <3> QED BY <1>10, <3>1, <3>2
    <2>3. /\ \A e, f, k \in Keys : Owns(e, k)' /\ Owns(f, k)' => e = f
          /\ \A e, k \in Keys : Owns(e, k)' => k \in generated'
      BY <1>0, <2>1, <2>2, OwnersOnlyLeave
    <2> QED BY <2>1, <2>3 DEF OwnInv
  <1>11. CASE SetupFails \/ ReturnDestination \/ EncryptWallet \/ Unlock \/ Lock
    BY <1>2, <1>11 DEF SetupFails, ReturnDestination, EncryptWallet, Unlock, Lock, SetLocked,
         EndCall, memVars, dbVars, callVars, histVars
  <1>12. CASE OtherWallet \/ UNCHANGED vars
    <2>1. UNCHANGED owned /\ UNCHANGED <<generated, pc, key, has_key, qkey, quantum_spkm_used>>
      BY <1>12 DEF OtherWallet, vars, memVars, dbVars, callVars, histVars
    <2>2. /\ UNCHANGED m_map_quantum_keys
          /\ pc # "idle" => key \in Keys
          /\ pc = "setup_key" => qkey \in Keys
      BY <2>1, CallTypes
    <2> HIDE DEF owned
    <2> QED BY <1>0, <1>1, <2>1, <2>2 DEF OwnInv, HaveQuantumKey
  <1> QED BY <1>3, <1>4, <1>5, <1>6, <1>7, <1>8, <1>9, <1>10, <1>11, <1>12 DEF Next, CallStep

-----------------------------------------------------------------------------
(* Outside the set of SPKMs memory stays blank. *)
LEMMA StepBlankInv == WalletInv /\ MemoryInv /\ [Next]_vars => BlankInv'
  <1> SUFFICES ASSUME WalletInv, MemoryInv, [Next]_vars PROVE BlankInv'
    OBVIOUS
  <1>0. TypeOK /\ CallInv /\ FileInv /\ FreshInv /\ BlankInv /\ OwnInv /\ CacheCoherent
    BY DEF WalletInv, TypeInv, MemoryInv
  <1> DEFINE blank == <<m_wallet_descriptor, m_max_cached_index, m_map_quantum_keys,
                        m_map_script_pub_keys, m_map_witness_scripts>>
  <1>1. ASSUME UNCHANGED blank, UNCHANGED m_spk_managers
        PROVE  (\A d \in Keys \ m_spk_managers : Blank(d))'
    BY <1>0, <1>1 DEF BlankInv, Blank
  <1>2. ASSUME UNCHANGED blank,
               UNCHANGED <<loaded, m_spk_managers, session, generated, db_descriptor>>,
               pc' = "idle"
        PROVE  BlankInv'
    BY <1>0, <1>1, <1>2 DEF BlankInv
  <1>3. ASSUME NEW k \in Keys, GetNewQuantumDestination(k) PROVE BlankInv'
    <2>1. /\ UNCHANGED blank /\ UNCHANGED <<loaded, m_spk_managers, db_descriptor>>
          /\ loaded /\ pc' = "find" /\ key' = k
          /\ generated \subseteq generated'
      BY <1>3 DEF GetNewQuantumDestination, memVars, dbVars
    <2>2. db_descriptor[k] = None
      BY <1>0, <1>3 DEF GetNewQuantumDestination, BlankInv
    <2> QED BY <1>0, <1>1, <2>1, <2>2 DEF BlankInv
  <1>4. ASSUME NEW d \in Keys, AddToExisting(d) PROVE BlankInv'
    <2>1. /\ UNCHANGED <<loaded, m_spk_managers, db_descriptor, generated>>
          /\ loaded /\ d \in m_spk_managers
      BY <1>0, <1>4 DEF AddToExisting, BlankInv
    <2>2. \A e \in Keys : e # d => m_map_quantum_keys'[e] = m_map_quantum_keys[e]
      BY <1>0, <1>4 DEF AddToExisting, TypeOK
    <2>3. UNCHANGED <<m_wallet_descriptor, m_max_cached_index, m_map_script_pub_keys,
                      m_map_witness_scripts>>
      BY <1>4 DEF AddToExisting
    <2>4. (\A e \in Keys \ m_spk_managers : Blank(e))'
      BY <1>0, <2>1, <2>2, <2>3 DEF BlankInv, Blank
    <2>5. pc' \in {"setup", "script"} /\ has_key' = FALSE
      BY <1>4 DEF AddToExisting, KeyMoved
    <2> QED BY <1>0, <2>1, <2>4, <2>5 DEF BlankInv
  <1>5. CASE NoneExisting
    <2>1. /\ UNCHANGED blank /\ UNCHANGED <<loaded, m_spk_managers, db_descriptor, generated>>
          /\ pc = "find" /\ pc' = "setup" /\ UNCHANGED <<key, has_key>>
      BY <1>5 DEF NoneExisting, memVars, dbVars, histVars
    <2> QED BY <1>0, <1>1, <2>1 DEF BlankInv
  <1>6. ASSUME NEW k \in Keys, SetupQuantumDescriptor(k) PROVE BlankInv'
    <2>1. /\ UNCHANGED blank /\ UNCHANGED <<loaded, m_spk_managers>> /\ loaded
          /\ generated' = generated \cup {k}
      BY <1>0, <1>6 DEF SetupQuantumDescriptor, BlankInv, memVars
    <2>2. k \notin m_spk_managers
      BY <1>0, <1>6 DEF SetupQuantumDescriptor, BlankInv, FileInv
    <2>3. CASE EndCall /\ UNCHANGED db_descriptor
      BY <1>0, <1>1, <2>1, <2>3 DEF BlankInv, EndCall
    <2>4. CASE /\ db_descriptor' = [db_descriptor EXCEPT ![k] = NewDescriptor]
               /\ pc' = "setup_key" /\ qkey' = k
      <3>1. /\ db_descriptor'[k] = NewDescriptor
            /\ \A d \in Keys : db_descriptor'[d] # None => d \in generated'
        BY <1>0, <2>1, <2>4 DEF BlankInv, TypeOK
      <3> QED BY <1>1, <2>1, <2>2, <2>4, <3>1 DEF BlankInv
    <2> QED BY <1>6, <2>3, <2>4 DEF SetupQuantumDescriptor
  <1>7. CASE SetupAddQuantumKey
    <2>1. /\ UNCHANGED <<loaded, m_max_cached_index, m_map_script_pub_keys,
                         m_map_witness_scripts, db_descriptor, generated>>
          /\ loaded /\ qkey \in Keys
      BY <1>0, <1>7, CallTypes DEF SetupAddQuantumKey, BlankInv
    <2>2. CASE EndCall /\ UNCHANGED <<m_spk_managers, m_wallet_descriptor, m_map_quantum_keys>>
      BY <1>0, <1>1, <2>1, <2>2 DEF BlankInv, EndCall
    <2>3. CASE /\ m_spk_managers' = m_spk_managers \cup {qkey}
               /\ m_wallet_descriptor' = [m_wallet_descriptor EXCEPT ![qkey] = NewDescriptor]
               /\ m_map_quantum_keys' = [m_map_quantum_keys EXCEPT ![qkey] = {qkey}]
               /\ pc' = "script"
      <3>1. (\A d \in Keys \ m_spk_managers : Blank(d))'
        BY <1>0, <2>1, <2>3 DEF BlankInv, Blank, TypeOK
      <3> QED BY <1>0, <2>1, <2>3, <3>1 DEF BlankInv
    <2> QED BY <1>7, <2>2, <2>3 DEF SetupAddQuantumKey
  <1>8. CASE AddScriptPubKey \/ AddWitnessScript
    <2>1. /\ key \in Keys /\ quantum_spkm_used \in m_spk_managers
          /\ quantum_spkm_used \in Keys
      BY <1>0, <1>8, CallTypes DEF AddScriptPubKey, AddWitnessScript, CallInv
    <2>2. /\ UNCHANGED <<loaded, m_spk_managers, m_wallet_descriptor, m_max_cached_index,
                         m_map_quantum_keys, db_descriptor, generated>>
          /\ loaded /\ pc' \in {"witness", "book"}
      BY <1>0, <1>8 DEF AddScriptPubKey, AddWitnessScript, BlankInv
    <2>3. \A d \in Keys : d # quantum_spkm_used =>
            /\ m_map_script_pub_keys'[d] = m_map_script_pub_keys[d]
            /\ m_map_witness_scripts'[d] = m_map_witness_scripts[d]
      BY <1>0, <1>8, <2>1 DEF AddScriptPubKey, AddWitnessScript, TrackWitnessScript, TypeOK
    <2>4. (\A d \in Keys \ m_spk_managers : Blank(d))'
      BY <1>0, <2>1, <2>2, <2>3 DEF BlankInv, Blank
    <2> QED BY <1>0, <2>2, <2>4 DEF BlankInv
  <1>9. ASSUME NEW d \in Keys, NEW s \in Scripts, Receive(d, s) PROVE BlankInv'
    <2>1. /\ UNCHANGED <<loaded, m_spk_managers, m_map_quantum_keys, m_map_witness_scripts,
                         generated>>
          /\ loaded /\ d \in m_spk_managers /\ pc' = "idle"
      BY <1>0, <1>9 DEF Receive, CacheCoherent, callVars
    <2>2. \A e \in Keys : e # d =>
            /\ m_wallet_descriptor'[e] = m_wallet_descriptor[e]
            /\ m_max_cached_index'[e] = m_max_cached_index[e]
            /\ m_map_script_pub_keys'[e] = m_map_script_pub_keys[e]
            /\ db_descriptor'[e] = db_descriptor[e]
      BY <1>0, <1>9 DEF Receive, ExpandTo0, TypeOK
    <2>3. (\A e \in Keys \ m_spk_managers : Blank(e))'
      BY <1>0, <2>1, <2>2 DEF BlankInv, Blank
    <2>4. d \in generated
      BY <1>0, <2>1 DEF FileInv, BlankInv
    <2> QED BY <1>0, <2>1, <2>2, <2>3, <2>4 DEF BlankInv
  <1>10. CASE UnloadWallet \/ Crash
    <2>1. /\ m_wallet_descriptor' = [d \in Keys |-> NewDescriptor]
          /\ m_max_cached_index' = [d \in Keys |-> -1]
          /\ m_map_quantum_keys' = NoKeyLists /\ m_map_witness_scripts' = NoKeyLists
          /\ m_map_script_pub_keys' = [d \in Keys |-> NoScripts]
          /\ m_spk_managers' = {} /\ session' = {} /\ pc' = "idle"
          /\ UNCHANGED <<db_descriptor, generated>>
      BY <1>10 DEF UnloadWallet, Crash, FreshMemory, EndCall, dbVars, callVars
    <2>2. (\A d \in Keys \ m_spk_managers : Blank(d))'
      BY <2>1 DEF Blank, NoKeyLists
    <2> QED BY <1>0, <2>1, <2>2 DEF BlankInv
  <1>11. CASE LoadWallet
    <2>1. /\ m_spk_managers' = {d \in Keys : db_descriptor[d] # None}
          /\ loaded' = TRUE /\ pc' = "idle" /\ UNCHANGED <<db_descriptor, generated>>
      BY <1>11 DEF LoadWallet, callVars, dbVars, histVars
    <2>2. ASSUME NEW d \in Keys, db_descriptor[d] = None PROVE Blank(d)'
      <3>1. /\ m_wallet_descriptor'[d] = NewDescriptor
            /\ m_max_cached_index'[d] = NewDescriptor.range_end - 1
            /\ m_map_quantum_keys'[d] = {} /\ m_map_witness_scripts'[d] = {}
        BY <1>11, <2>2 DEF LoadWallet, LoadedDescriptor, LoadedFor
      <3>2. m_map_script_pub_keys'[d] = NoScripts
        BY <1>0, <1>11, <2>2, LoadEffect
      <3> QED BY <1>0, <3>1, <3>2, IndexFacts DEF Blank
    <2> QED BY <1>0, <2>1, <2>2 DEF BlankInv
  <1>12. CASE SetupFails \/ EncryptWallet \/ Unlock \/ Lock
    BY <1>2, <1>12 DEF SetupFails, EncryptWallet, Unlock, Lock, SetLocked, EndCall,
         memVars, dbVars, callVars, histVars
  <1>13. CASE ReturnDestination
    <2>1. /\ UNCHANGED blank /\ UNCHANGED <<loaded, m_spk_managers, generated, db_descriptor>>
          /\ loaded /\ pc' = "idle"
      BY <1>0, <1>13 DEF ReturnDestination, EndCall, BlankInv
    <2> QED BY <1>0, <1>1, <2>1 DEF BlankInv
  <1>14. CASE OtherWallet \/ UNCHANGED vars
    <2>1. /\ UNCHANGED blank
          /\ UNCHANGED <<loaded, m_spk_managers, session, generated, db_descriptor, callVars>>
      BY <1>14 DEF OtherWallet, vars, memVars, dbVars, histVars
    <2> QED BY <1>0, <1>1, <2>1 DEF BlankInv, callVars
  <1> QED BY <1>3, <1>4, <1>5, <1>6, <1>7, <1>8, <1>9, <1>10, <1>11, <1>12, <1>13, <1>14
          DEF Next, CallStep

-----------------------------------------------------------------------------
(* The cache stays exact. *)
LEMMA StepCacheCoherent == WalletInv /\ MemoryInv /\ [Next]_vars => CacheCoherent'
  <1> SUFFICES ASSUME WalletInv, MemoryInv, [Next]_vars PROVE CacheCoherent'
    OBVIOUS
  <1>0. TypeOK /\ CallInv /\ BlankInv /\ CacheCoherent
    BY DEF WalletInv, TypeInv, MemoryInv
  <1>1. ASSUME UNCHANGED <<m_cached_spks, m_spk_managers, m_map_script_pub_keys>>
        PROVE  CacheCoherent'
    BY <1>0, <1>1 DEF CacheCoherent
  <1>2. CASE SetupAddQuantumKey
    <2>1. UNCHANGED <<m_cached_spks, m_map_script_pub_keys>>
      BY <1>2 DEF SetupAddQuantumKey
    <2>2. CASE m_spk_managers' = m_spk_managers \cup {qkey}
      <3>1. /\ qkey \in Keys /\ qkey \notin m_spk_managers
            /\ \A s \in Scripts : m_map_script_pub_keys[qkey][s] = None
        BY <1>0, <1>2, CallTypes DEF SetupAddQuantumKey, BlankInv, Blank, NoScripts
      <3> QED BY <1>0, <2>1, <2>2, <3>1 DEF CacheCoherent
    <2> QED BY <1>1, <1>2, <2>1, <2>2 DEF SetupAddQuantumKey
  <1>3. CASE AddScriptPubKey
    <2>1. /\ key \in Keys /\ quantum_spkm_used \in m_spk_managers
          /\ quantum_spkm_used \in Keys /\ UNCHANGED m_spk_managers
      BY <1>0, <1>3, CallTypes DEF AddScriptPubKey, CallInv
    <2>2. quantum_index # None
      BY <1>0, IndexFacts
    <2> SUFFICES ASSUME NEW s \in Scripts
                 PROVE  m_cached_spks'[s] =
                          {d \in m_spk_managers : m_map_script_pub_keys'[d][s] # None}
      BY <2>1 DEF CacheCoherent
    <2>3. m_cached_spks[s] = {d \in m_spk_managers : m_map_script_pub_keys[d][s] # None}
      BY <1>0 DEF CacheCoherent
    <2>4. \A d \in m_spk_managers : d \in Keys
      BY <1>0 DEF TypeOK
    <2>5. /\ \A d \in Keys : m_map_script_pub_keys'[d][s] =
                 IF d = quantum_spkm_used /\ s = Addr(key) THEN quantum_index
                 ELSE m_map_script_pub_keys[d][s]
          /\ m_cached_spks'[s] = IF s = Addr(key) THEN m_cached_spks[s] \cup {quantum_spkm_used}
                                 ELSE m_cached_spks[s]
      BY <1>0, <1>3, <2>1, AddScriptEffect
    <2> QED BY <2>1, <2>2, <2>3, <2>4, <2>5
  <1>4. ASSUME NEW d \in Keys, NEW s \in Scripts, Receive(d, s) PROVE CacheCoherent'
    <2>1. UNCHANGED m_spk_managers /\ d \in m_spk_managers
      BY <1>0, <1>4 DEF Receive, CacheCoherent
    <2>2. CASE UNCHANGED <<m_map_script_pub_keys, m_cached_spks>>
      BY <1>1, <2>1, <2>2
    <2>3. CASE ExpandTo0(d)
      <3> SUFFICES ASSUME NEW t \in Scripts
                   PROVE  m_cached_spks'[t] =
                            {e \in m_spk_managers : m_map_script_pub_keys'[e][t] # None}
        BY <2>1 DEF CacheCoherent
      <3>1. m_cached_spks[t] = {e \in m_spk_managers : m_map_script_pub_keys[e][t] # None}
        BY <1>0 DEF CacheCoherent
      <3>2. (\A e \in m_spk_managers : e \in Keys) /\ 0 # None
        BY <1>0, NoneAssumption DEF TypeOK
      <3>3. /\ \A e \in Keys : m_map_script_pub_keys'[e][t] =
                   IF e = d /\ t = Desc(d) /\ m_max_cached_index[d] = -1 THEN 0
                   ELSE m_map_script_pub_keys[e][t]
            /\ m_cached_spks'[t] =
                   IF t = Desc(d) /\ m_max_cached_index[d] = -1 THEN m_cached_spks[t] \cup {d}
                   ELSE m_cached_spks[t]
        BY <1>0, <2>3, ExpandEffect
      <3> QED BY <2>1, <3>1, <3>2, <3>3
    <2> QED BY <1>4, <2>2, <2>3 DEF Receive
  <1>5. CASE UnloadWallet \/ Crash
    <2>1. m_spk_managers' = {} /\ m_cached_spks' = [s \in Scripts |-> {}]
      BY <1>5 DEF UnloadWallet, Crash, FreshMemory
    <2> QED BY <2>1 DEF CacheCoherent
  <1>6. CASE LoadWallet
    <2>1. /\ m_spk_managers' = {d \in Keys : db_descriptor[d] # None}
          /\ m_cached_spks' = [s \in Scripts |-> {d \in Keys : LoadedScripts(d)[s] # None}]
          /\ m_map_script_pub_keys' = [d \in Keys |-> LoadedScripts(d)]
      BY <1>6 DEF LoadWallet
    <2>2. \A d \in Keys : db_descriptor[d] = None =>
            \A s \in Scripts : LoadedScripts(d)[s] = None
      BY DEF LoadedScripts
    <2> HIDE DEF LoadedScripts
    <2> QED BY <2>1, <2>2 DEF CacheCoherent
  <1>7. CASE \/ \E k \in Keys : GetNewQuantumDestination(k)
             \/ \E d \in Keys : AddToExisting(d)
             \/ \E k \in Keys : SetupQuantumDescriptor(k)
             \/ NoneExisting \/ SetupFails \/ AddWitnessScript \/ ReturnDestination
             \/ EncryptWallet \/ Unlock \/ Lock \/ OtherWallet \/ UNCHANGED vars
    BY <1>1, <1>7 DEF GetNewQuantumDestination, AddToExisting, SetupQuantumDescriptor,
         NoneExisting, SetupFails, AddWitnessScript, ReturnDestination, EncryptWallet,
         Unlock, Lock, SetLocked, OtherWallet, vars, memVars
  <1> QED BY <1>2, <1>3, <1>4, <1>5, <1>6, <1>7 DEF Next, CallStep

-----------------------------------------------------------------------------
(* Receive keeps next_index inside the range: the only script whose index  *)
(* reaches next_index is the descriptor's own, which is tracked only when  *)
(* the range is {0}.                                                       *)
LEMMA ReceiveRange ==
  ASSUME TypeOK, RangeInv, CacheCoherent, NEW d \in Keys, NEW s \in Scripts, Receive(d, s)
  PROVE  /\ d \in m_spk_managers
         /\ m_wallet_descriptor'[d].next_index <= m_wallet_descriptor'[d].range_end
         /\ m_wallet_descriptor'[d].range_end - 1 = m_max_cached_index'[d]
         /\ \A e \in Keys : e # d => m_wallet_descriptor'[e] = m_wallet_descriptor[e]
         /\ \/ db_descriptor' = [db_descriptor EXCEPT ![d] = m_wallet_descriptor'[d]]
            \/ UNCHANGED db_descriptor
  <1> DEFINE index  == m_map_script_pub_keys[d][s]
             marked == [m_wallet_descriptor[d] EXCEPT
                          !.next_index = IF index >= @ THEN index + 1 ELSE @]
             topped == [marked EXCEPT !.range_end = 1]
  <1>1. d \in m_spk_managers /\ index # None
    BY DEF Receive, CacheCoherent
  <1>2. PICK w \in Descriptor : w = m_wallet_descriptor[d]
    BY DEF TypeOK
  <1>3. index \in Int /\ index <= 0
    BY <1>1 DEF TypeOK, Indices
  <1>4. /\ w.range_end \in {0, 1} /\ w.next_index \in {0, 1}
        /\ w.next_index <= w.range_end
        /\ w.range_end - 1 = m_max_cached_index[d]
    BY <1>1, <1>2 DEF RangeInv, RangeMatchesExpansion, Descriptor
  <1>5. ASSUME index = 0 PROVE w.range_end = 1
    <2>1. PICK k \in Keys : s = Addr(k) \/ s = Desc(k)
      BY ScriptKinds
    <2>2. s = Desc(d)
      <3>1. s # Addr(k)
        BY <1>1, <1>3, <1>5 DEF RangeInv, RangeMatchesExpansion
      <3> QED BY <1>1, <2>1, <3>1 DEF RangeInv
    <2>3. m_max_cached_index[d] = 0
      BY <1>1, <2>2 DEF RangeInv, RangeMatchesExpansion
    <2> QED BY <1>4, <2>3
  <1>6. /\ marked.range_end = w.range_end /\ topped.range_end = 1
        /\ marked.next_index = IF index >= w.next_index THEN index + 1 ELSE w.next_index
        /\ topped.next_index = marked.next_index
    BY <1>2 DEF Descriptor
  <1>7. marked.next_index <= marked.range_end /\ marked.next_index <= 1
    BY <1>3, <1>4, <1>5, <1>6
  <1>8. \/ /\ m_wallet_descriptor' = [m_wallet_descriptor EXCEPT ![d] = topped]
           /\ ExpandTo0(d)
           /\ \/ db_descriptor' = [db_descriptor EXCEPT ![d] = topped]
              \/ UNCHANGED db_descriptor
        \/ /\ m_wallet_descriptor' = [m_wallet_descriptor EXCEPT ![d] = marked]
           /\ UNCHANGED <<m_max_cached_index, db_descriptor>>
    BY DEF Receive
  <1> HIDE DEF index, marked, topped
  <1>9. CASE /\ m_wallet_descriptor' = [m_wallet_descriptor EXCEPT ![d] = topped]
             /\ ExpandTo0(d)
             /\ \/ db_descriptor' = [db_descriptor EXCEPT ![d] = topped]
                \/ UNCHANGED db_descriptor
    <2>1. m_max_cached_index'[d] = 0
      BY <1>9, ExpandEffect
    <2>2. /\ m_wallet_descriptor'[d] = topped
          /\ \A e \in Keys : e # d => m_wallet_descriptor'[e] = m_wallet_descriptor[e]
      BY <1>9 DEF TypeOK
    <2> QED BY <1>1, <1>6, <1>7, <1>9, <2>1, <2>2
  <1>10. CASE /\ m_wallet_descriptor' = [m_wallet_descriptor EXCEPT ![d] = marked]
              /\ UNCHANGED <<m_max_cached_index, db_descriptor>>
    <2>1. /\ m_wallet_descriptor'[d] = marked
          /\ \A e \in Keys : e # d => m_wallet_descriptor'[e] = m_wallet_descriptor[e]
      BY <1>10 DEF TypeOK
    <2> QED BY <1>1, <1>4, <1>6, <1>7, <1>10, <2>1
  <1> QED BY <1>8, <1>9, <1>10

(* Ranges and indices stay right, in memory and in the file. *)
LEMMA StepRangeInv == WalletInv /\ MemoryInv /\ [Next]_vars => RangeInv'
  <1> SUFFICES ASSUME WalletInv, MemoryInv, [Next]_vars PROVE RangeInv'
    OBVIOUS
  <1>0. TypeOK /\ CallInv /\ BlankInv /\ CacheCoherent /\ RangeInv
    BY DEF WalletInv, TypeInv, MemoryInv
  <1> DEFINE ranges == <<m_spk_managers, m_wallet_descriptor, m_max_cached_index,
                         m_map_script_pub_keys>>
  <1>1. ASSUME UNCHANGED ranges, UNCHANGED <<db_descriptor, db_script>> PROVE RangeInv'
    BY <1>0, <1>1 DEF RangeInv, RangeMatchesExpansion
  <1>2. ASSUME NEW k \in Keys, SetupQuantumDescriptor(k) PROVE RangeInv'
    <2>1. UNCHANGED ranges /\ UNCHANGED db_script
      BY <1>2 DEF SetupQuantumDescriptor, memVars
    <2>2. \A d \in Keys : db_descriptor'[d] # None =>
             db_descriptor'[d].next_index <= db_descriptor'[d].range_end
      <3>1. CASE UNCHANGED db_descriptor
        BY <1>0, <3>1 DEF RangeInv
      <3>2. CASE db_descriptor' = [db_descriptor EXCEPT ![k] = NewDescriptor]
        BY <1>0, <3>2, IndexFacts DEF RangeInv, TypeOK
      <3> QED BY <1>2, <3>1, <3>2 DEF SetupQuantumDescriptor
    <2> QED BY <1>0, <2>1, <2>2 DEF RangeInv, RangeMatchesExpansion
  <1>3. CASE SetupAddQuantumKey
    <2>1. UNCHANGED <<m_max_cached_index, m_map_script_pub_keys, db_descriptor, db_script>>
      BY <1>3 DEF SetupAddQuantumKey
    <2>2. CASE UNCHANGED <<m_spk_managers, m_wallet_descriptor>>
      BY <1>1, <2>1, <2>2
    <2>3. CASE /\ m_spk_managers' = m_spk_managers \cup {qkey}
               /\ m_wallet_descriptor' = [m_wallet_descriptor EXCEPT ![qkey] = NewDescriptor]
      <3>1. /\ qkey \in Keys /\ qkey \notin m_spk_managers
            /\ m_max_cached_index[qkey] = -1
            /\ \A s \in Scripts : m_map_script_pub_keys[qkey][s] = None
        BY <1>0, <1>3, CallTypes DEF SetupAddQuantumKey, BlankInv, Blank, NoScripts
      <3>2. /\ m_wallet_descriptor'[qkey] = NewDescriptor
            /\ \A d \in m_spk_managers : m_wallet_descriptor'[d] = m_wallet_descriptor[d]
        BY <1>0, <2>3, <3>1 DEF TypeOK
      <3>3. ASSUME NEW d \in m_spk_managers' PROVE
              /\ m_wallet_descriptor'[d].range_end - 1 = m_max_cached_index'[d]
              /\ m_wallet_descriptor'[d].next_index <= m_wallet_descriptor'[d].range_end
              /\ m_map_script_pub_keys'[d][Desc(d)] =
                   IF m_max_cached_index'[d] = 0 THEN 0 ELSE None
              /\ \A k \in Keys : \/ m_map_script_pub_keys'[d][Addr(k)] = None
                                 \/ m_map_script_pub_keys'[d][Addr(k)] < 0
        <4>1. CASE d = qkey
          BY <1>0, <2>1, <3>1, <3>2, <4>1, IndexFacts, ScriptsDiffer
        <4>2. CASE d \in m_spk_managers
          BY <1>0, <2>1, <3>2, <4>2 DEF RangeInv, RangeMatchesExpansion
        <4> QED BY <2>3, <4>1, <4>2
      <3>4. RangeMatchesExpansion'
        BY <3>3 DEF RangeMatchesExpansion
      <3> QED BY <1>0, <2>1, <3>4 DEF RangeInv
    <2> QED BY <1>3, <2>2, <2>3 DEF SetupAddQuantumKey
  <1>4. CASE AddScriptPubKey
    <2>1. /\ key \in Keys /\ quantum_spkm_used \in Keys
          /\ UNCHANGED <<m_spk_managers, m_wallet_descriptor, m_max_cached_index, db_descriptor>>
      BY <1>4, CallTypes DEF AddScriptPubKey
    <2>2. /\ \A d, k \in Keys : m_map_script_pub_keys'[d][Desc(k)] = m_map_script_pub_keys[d][Desc(k)]
          /\ \A d, k \in Keys :
               \/ m_map_script_pub_keys'[d][Addr(k)] = m_map_script_pub_keys[d][Addr(k)]
               \/ m_map_script_pub_keys'[d][Addr(k)] = quantum_index
          /\ \A d, k \in Keys : db_script'[d][k] = db_script[d][k] \/ db_script'[d][k] = quantum_index
      BY <1>0, <1>4, <2>1, AddScriptEffect, ScriptsDiffer
    <2>3. quantum_index < 0 /\ m_spk_managers \subseteq Keys
      BY <1>0, IndexFacts DEF TypeOK
    <2>4. RangeMatchesExpansion'
      BY <1>0, <2>1, <2>2, <2>3 DEF RangeInv, RangeMatchesExpansion
    <2> QED BY <1>0, <2>1, <2>2, <2>3, <2>4 DEF RangeInv
  <1>5. ASSUME NEW d \in Keys, NEW s \in Scripts, Receive(d, s) PROVE RangeInv'
    <2>1. UNCHANGED <<m_spk_managers, db_script>> /\ m_spk_managers \subseteq Keys
      BY <1>0, <1>5 DEF Receive, TypeOK
    <2>2. /\ d \in m_spk_managers
          /\ m_wallet_descriptor'[d].next_index <= m_wallet_descriptor'[d].range_end
          /\ m_wallet_descriptor'[d].range_end - 1 = m_max_cached_index'[d]
          /\ \A e \in Keys : e # d => m_wallet_descriptor'[e] = m_wallet_descriptor[e]
          /\ \/ db_descriptor' = [db_descriptor EXCEPT ![d] = m_wallet_descriptor'[d]]
             \/ UNCHANGED db_descriptor
      BY <1>0, <1>5, ReceiveRange
    <2>3. /\ \A e \in Keys : e # d => m_max_cached_index'[e] = m_max_cached_index[e]
          /\ \A e, k \in Keys :
               m_map_script_pub_keys'[e][Addr(k)] = m_map_script_pub_keys[e][Addr(k)]
          /\ \A e, k \in Keys : ~(e = d /\ k = d) =>
               m_map_script_pub_keys'[e][Desc(k)] = m_map_script_pub_keys[e][Desc(k)]
          /\ m_map_script_pub_keys'[d][Desc(d)] = IF m_max_cached_index'[d] = 0 THEN 0 ELSE None
      <3>1. m_map_script_pub_keys[d][Desc(d)] = IF m_max_cached_index[d] = 0 THEN 0 ELSE None
        BY <1>0, <2>2 DEF RangeInv, RangeMatchesExpansion
      <3>2. CASE UNCHANGED <<m_max_cached_index, m_map_script_pub_keys>>
        BY <3>1, <3>2
      <3>3. CASE ExpandTo0(d)
        <4>1. m_max_cached_index[d] \in {-1, 0}
          BY <1>0 DEF TypeOK
        <4> QED BY <1>0, <3>1, <3>3, <4>1, ExpandEffect, ScriptsDiffer
      <3> QED BY <1>5, <3>2, <3>3 DEF Receive
    <2>4. RangeMatchesExpansion'
      BY <1>0, <2>1, <2>2, <2>3 DEF RangeInv, RangeMatchesExpansion
    <2>5. \A e \in Keys : db_descriptor'[e] # None =>
             db_descriptor'[e].next_index <= db_descriptor'[e].range_end
      BY <1>0, <2>2 DEF RangeInv, TypeOK
    <2> QED BY <1>0, <2>1, <2>3, <2>4, <2>5 DEF RangeInv
  <1>6. CASE UnloadWallet \/ Crash
    <2>1. /\ m_spk_managers' = {} /\ m_map_script_pub_keys' = [d \in Keys |-> NoScripts]
          /\ UNCHANGED <<db_descriptor, db_script>>
      BY <1>6 DEF UnloadWallet, Crash, FreshMemory, dbVars
    <2>2. \A d, e \in Keys : m_map_script_pub_keys'[d][Desc(e)] = None
      BY <2>1, ScriptsDiffer DEF NoScripts
    <2> QED BY <1>0, <2>1, <2>2 DEF RangeInv, RangeMatchesExpansion
  <1>7. CASE LoadWallet
    <2>1. /\ m_spk_managers' = {d \in Keys : db_descriptor[d] # None}
          /\ m_wallet_descriptor' = [d \in Keys |-> LoadedDescriptor(d)]
          /\ m_max_cached_index' = [d \in Keys |-> LoadedDescriptor(d).range_end - 1]
          /\ UNCHANGED <<db_descriptor, db_script>>
      BY <1>7 DEF LoadWallet, dbVars
    <2>2. ASSUME NEW d \in m_spk_managers' PROVE
              /\ m_wallet_descriptor'[d].range_end - 1 = m_max_cached_index'[d]
              /\ m_wallet_descriptor'[d].next_index <= m_wallet_descriptor'[d].range_end
              /\ m_map_script_pub_keys'[d][Desc(d)] =
                   IF m_max_cached_index'[d] = 0 THEN 0 ELSE None
              /\ \A k \in Keys : \/ m_map_script_pub_keys'[d][Addr(k)] = None
                                 \/ m_map_script_pub_keys'[d][Addr(k)] < 0
      <3>1. d \in Keys /\ db_descriptor[d] # None /\ LoadedDescriptor(d) = db_descriptor[d]
        BY <2>1, <2>2 DEF LoadedDescriptor
      <3>2. db_descriptor[d].range_end \in {0, 1}
        BY <1>0, <3>1 DEF TypeOK, Descriptor
      <3>3. /\ m_wallet_descriptor'[d] = db_descriptor[d]
            /\ m_max_cached_index'[d] = db_descriptor[d].range_end - 1
        BY <2>1, <3>1
      <3>4. m_map_script_pub_keys'[d][Desc(d)] = IF m_max_cached_index'[d] = 0 THEN 0 ELSE None
        BY <1>0, <1>7, <3>1, <3>2, <3>3, LoadEffect
      <3>5. \A k \in Keys : m_map_script_pub_keys'[d][Addr(k)] = db_script[d][k]
        BY <1>0, <1>7, <3>1, LoadEffect
      <3> QED BY <1>0, <3>1, <3>3, <3>4, <3>5 DEF RangeInv
    <2>3. RangeMatchesExpansion'
      BY <2>2 DEF RangeMatchesExpansion
    <2>4. \A d, e \in Keys : d # e => m_map_script_pub_keys'[d][Desc(e)] = None
      BY <1>0, <1>7, LoadEffect
    <2> QED BY <1>0, <2>1, <2>3, <2>4 DEF RangeInv
  <1>8. CASE \/ \E k \in Keys : GetNewQuantumDestination(k)
             \/ \E d \in Keys : AddToExisting(d)
             \/ NoneExisting \/ SetupFails \/ AddWitnessScript \/ ReturnDestination
             \/ EncryptWallet \/ Unlock \/ Lock \/ OtherWallet \/ UNCHANGED vars
    BY <1>1, <1>8 DEF GetNewQuantumDestination, AddToExisting, NoneExisting, SetupFails,
         AddWitnessScript, ReturnDestination, EncryptWallet, Unlock, Lock, SetLocked,
         OtherWallet, vars, memVars, dbVars
  <1> QED BY <1>2, <1>3, <1>4, <1>5, <1>6, <1>7, <1>8 DEF Next, CallStep

-----------------------------------------------------------------------------
(* Keys and witness scripts of memory and file stay together. *)
LEMMA StepSyncKeys == WalletInv /\ MemoryInv /\ [Next]_vars => SyncKeys'
  <1> SUFFICES ASSUME WalletInv, MemoryInv, [Next]_vars PROVE SyncKeys'
    OBVIOUS
  <1>0. TypeOK /\ CallInv /\ BlankInv /\ SyncKeys /\ FiledInv
    BY DEF WalletInv, TypeInv, MemoryInv
  <1>1. ASSUME UNCHANGED <<loaded, m_map_quantum_keys, db_qkey, m_map_witness_scripts, db_witness>>,
               lost \subseteq lost'
        PROVE  SyncKeys'
    BY <1>0, <1>1 DEF SyncKeys
  <1>2. ASSUME NEW d \in Keys, AddToExisting(d) PROVE SyncKeys'
    <2>1. /\ UNCHANGED <<loaded, m_map_witness_scripts, db_witness>> /\ key \in Keys
          /\ m_map_quantum_keys' = [m_map_quantum_keys EXCEPT ![d] = @ \cup {key}]
      BY <1>2, CallTypes DEF AddToExisting
    <2>2. CASE lost' = lost /\ db_qkey' = [db_qkey EXCEPT ![d] = @ \cup {key}]
      BY <1>0, <2>1, <2>2 DEF SyncKeys, TypeOK
    <2>3. CASE lost' = lost \cup {key} /\ UNCHANGED db_qkey
      BY <1>0, <2>1, <2>3 DEF SyncKeys, TypeOK
    <2> QED BY <1>2, <2>2, <2>3 DEF AddToExisting, WriteSucceeds, WriteFails
  <1>3. CASE SetupAddQuantumKey
    <2>1. UNCHANGED <<loaded, m_map_witness_scripts, db_witness>> /\ qkey \in Keys /\ loaded
      BY <1>0, <1>3, CallTypes DEF SetupAddQuantumKey, BlankInv
    <2>2. CASE UNCHANGED <<db_qkey, m_map_quantum_keys>>
      BY <1>1, <1>3, <2>1, <2>2 DEF SetupAddQuantumKey, WriteSucceeds, WriteFails
    <2>3. CASE /\ db_qkey' = [db_qkey EXCEPT ![qkey] = @ \cup {qkey}]
               /\ m_map_quantum_keys' = [m_map_quantum_keys EXCEPT ![qkey] = {qkey}]
               /\ lost' = lost
      <3>1. m_map_quantum_keys[qkey] = {}
        BY <1>0, <1>3, <2>1 DEF SetupAddQuantumKey, BlankInv, Blank
      <3>2. db_qkey[qkey] = {}
        BY <1>0, <2>1, <3>1 DEF SyncKeys
      <3> QED BY <1>0, <2>1, <2>3, <3>1, <3>2 DEF SyncKeys, TypeOK
    <2> QED BY <1>3, <2>2, <2>3 DEF SetupAddQuantumKey, WriteSucceeds
  <1>4. CASE AddWitnessScript
    <2>1. /\ UNCHANGED <<loaded, m_map_quantum_keys, db_qkey>>
          /\ quantum_spkm_used \in Keys /\ key \in Keys
          /\ m_map_witness_scripts' =
               [m_map_witness_scripts EXCEPT ![quantum_spkm_used] = @ \cup {key}]
      BY <1>4, CallTypes DEF AddWitnessScript, TrackWitnessScript
    <2>2. CASE /\ lost' = lost
               /\ db_witness' = [db_witness EXCEPT ![quantum_spkm_used] = @ \cup {key}]
      BY <1>0, <2>1, <2>2 DEF SyncKeys, TypeOK
    <2>3. CASE lost' = lost \cup {key} /\ UNCHANGED db_witness
      BY <1>0, <2>1, <2>3 DEF SyncKeys, TypeOK
    <2> QED BY <1>4, <2>2, <2>3
            DEF AddWitnessScript, WriteSucceeds, WriteFails, WriteDescriptorWitnessScript
  <1>5. CASE UnloadWallet \/ Crash
    BY <1>5 DEF UnloadWallet, Crash, SyncKeys
  <1>6. CASE LoadWallet
    <2>1. /\ m_map_quantum_keys' = [d \in Keys |-> LoadedFor(d, db_qkey)]
          /\ m_map_witness_scripts' = [d \in Keys |-> LoadedFor(d, db_witness)]
          /\ UNCHANGED <<db_qkey, db_witness>>
      BY <1>6 DEF LoadWallet, dbVars
    <2>2. \A d \in Keys : /\ m_map_quantum_keys'[d] = db_qkey[d]
                          /\ m_map_witness_scripts'[d] = db_witness[d]
      BY <1>0, <2>1 DEF LoadedFor, FiledInv
    <2> QED BY <2>1, <2>2 DEF SyncKeys
  <1>7. ASSUME NEW k \in Keys, SetupQuantumDescriptor(k) PROVE SyncKeys'
    BY <1>1, <1>7 DEF SetupQuantumDescriptor, WriteSucceeds, WriteFails, memVars
  <1>8. CASE AddScriptPubKey
    BY <1>1, <1>8 DEF AddScriptPubKey, WriteSucceeds, WriteFails
  <1>9. CASE \/ \E k \in Keys : GetNewQuantumDestination(k)
             \/ \E d \in Keys, s \in Scripts : Receive(d, s)
             \/ NoneExisting \/ SetupFails \/ ReturnDestination
             \/ EncryptWallet \/ Unlock \/ Lock \/ OtherWallet \/ UNCHANGED vars
    BY <1>1, <1>9 DEF GetNewQuantumDestination, Receive, NoneExisting, SetupFails,
         ReturnDestination, EncryptWallet, Unlock, Lock, SetLocked, OtherWallet,
         vars, memVars, dbVars, histVars
  <1> QED BY <1>2, <1>3, <1>4, <1>5, <1>6, <1>7, <1>8, <1>9 DEF Next, CallStep

(* So do the scripts of addresses. *)
LEMMA StepSyncScripts == WalletInv /\ MemoryInv /\ [Next]_vars => SyncScripts'
  <1> SUFFICES ASSUME WalletInv, MemoryInv, [Next]_vars PROVE SyncScripts'
    OBVIOUS
  <1>0. TypeOK /\ SyncScripts /\ FiledInv
    BY DEF WalletInv, TypeInv, MemoryInv
  <1>1. ASSUME UNCHANGED <<loaded, m_map_script_pub_keys, db_script>>, lost \subseteq lost'
        PROVE  SyncScripts'
    BY <1>0, <1>1 DEF SyncScripts
  <1>2. CASE AddScriptPubKey
    <2>1. UNCHANGED loaded /\ key \in Keys /\ quantum_spkm_used \in Keys /\ quantum_index # None
      BY <1>0, <1>2, CallTypes, IndexFacts DEF AddScriptPubKey
    <2>2. \A d, k \in Keys :
             m_map_script_pub_keys'[d][Addr(k)] =
               IF d = quantum_spkm_used /\ k = key THEN quantum_index
               ELSE m_map_script_pub_keys[d][Addr(k)]
      BY <1>0, <1>2, <2>1, AddScriptEffect, ScriptsDiffer
    <2>3. CASE lost' = lost \cup {key} /\ UNCHANGED db_script
      BY <1>0, <2>1, <2>2, <2>3 DEF SyncScripts
    <2>4. CASE /\ lost' = lost
               /\ \A d, k \in Keys :
                    db_script'[d][k] = IF d = quantum_spkm_used /\ k = key THEN quantum_index
                                       ELSE db_script[d][k]
      BY <1>0, <2>1, <2>2, <2>4 DEF SyncScripts
    <2> QED BY <1>0, <1>2, <2>1, <2>3, <2>4, AddScriptEffect
  <1>3. ASSUME NEW d \in Keys, NEW s \in Scripts, Receive(d, s) PROVE SyncScripts'
    <2>1. /\ ExpandTo0(d) \/ UNCHANGED m_map_script_pub_keys
          /\ UNCHANGED <<loaded, db_script, lost>>
      BY <1>3 DEF Receive
    <2>2. \A e, k \in Keys : m_map_script_pub_keys'[e][Addr(k)] = m_map_script_pub_keys[e][Addr(k)]
      BY <1>0, <2>1, ExpandEffect, ScriptsDiffer
    <2> QED BY <1>0, <2>1, <2>2 DEF SyncScripts
  <1>4. CASE UnloadWallet \/ Crash
    BY <1>4 DEF UnloadWallet, Crash, SyncScripts
  <1>5. CASE LoadWallet
    <2>1. UNCHANGED db_script
      BY <1>5 DEF LoadWallet, dbVars
    <2>2. \A d, k \in Keys : m_map_script_pub_keys'[d][Addr(k)] = db_script[d][k]
      BY <1>0, <1>5, LoadEffect DEF FiledInv
    <2> QED BY <2>1, <2>2 DEF SyncScripts
  <1>6. ASSUME NEW d \in Keys, AddToExisting(d) \/ SetupQuantumDescriptor(d) PROVE SyncScripts'
    BY <1>1, <1>6 DEF AddToExisting, SetupQuantumDescriptor, WriteSucceeds, WriteFails, memVars
  <1>7. CASE SetupAddQuantumKey \/ AddWitnessScript
    BY <1>1, <1>7 DEF SetupAddQuantumKey, AddWitnessScript, WriteSucceeds, WriteFails
  <1>8. CASE \/ \E k \in Keys : GetNewQuantumDestination(k)
             \/ NoneExisting \/ SetupFails \/ ReturnDestination
             \/ EncryptWallet \/ Unlock \/ Lock \/ OtherWallet \/ UNCHANGED vars
    BY <1>1, <1>8 DEF GetNewQuantumDestination, NoneExisting, SetupFails, ReturnDestination,
         EncryptWallet, Unlock, Lock, SetLocked, OtherWallet, vars, memVars, dbVars, histVars
  <1> QED BY <1>2, <1>3, <1>4, <1>5, <1>6, <1>7, <1>8 DEF Next, CallStep

(* Key, script and witness script records belong to a descriptor record. *)
LEMMA StepFiledInv == WalletInv /\ MemoryInv /\ [Next]_vars => FiledInv'
  <1> SUFFICES ASSUME WalletInv, MemoryInv, [Next]_vars PROVE FiledInv'
    OBVIOUS
  <1>0. TypeOK /\ CallInv /\ FileInv /\ FiledInv /\ FileGrows
    BY StepFileGrows DEF WalletInv, TypeInv, MemoryInv
  <1>1. ASSUME UNCHANGED <<db_qkey, db_script, db_witness>> PROVE FiledInv'
    BY <1>0, <1>1 DEF FiledInv, FileGrows
  <1>2. ASSUME NEW d \in Keys, db_descriptor[d] # None,
               \A e \in Keys : e # d => /\ db_qkey'[e] = db_qkey[e]
                                        /\ db_script'[e] = db_script[e]
                                        /\ db_witness'[e] = db_witness[e]
        PROVE  FiledInv'
    BY <1>0, <1>2 DEF FiledInv, FileGrows
  <1>3. ASSUME NEW d \in Keys, AddToExisting(d) PROVE FiledInv'
    <2>1. d \in Keys /\ db_descriptor[d] # None
      BY <1>0, <1>3 DEF AddToExisting, FileInv
    <2>2. \A e \in Keys : e # d => /\ db_qkey'[e] = db_qkey[e]
                                   /\ db_script'[e] = db_script[e]
                                   /\ db_witness'[e] = db_witness[e]
      BY <1>0, <1>3 DEF AddToExisting, TypeOK
    <2> QED BY <1>2, <2>1, <2>2
  <1>4. CASE SetupAddQuantumKey
    <2>1. qkey \in Keys /\ db_descriptor[qkey] # None
      BY <1>0, <1>4, CallTypes DEF SetupAddQuantumKey, CallInv
    <2>2. \A e \in Keys : e # qkey => /\ db_qkey'[e] = db_qkey[e]
                                      /\ db_script'[e] = db_script[e]
                                      /\ db_witness'[e] = db_witness[e]
      BY <1>0, <1>4 DEF SetupAddQuantumKey, TypeOK
    <2> QED BY <1>2, <2>1, <2>2
  <1>5. CASE AddScriptPubKey \/ AddWitnessScript
    <2>1. quantum_spkm_used \in Keys /\ db_descriptor[quantum_spkm_used] # None
      BY <1>0, <1>5, CallTypes DEF AddScriptPubKey, AddWitnessScript, CallInv, FileInv
    <2>2. \A e \in Keys : e # quantum_spkm_used =>
                                      /\ db_qkey'[e] = db_qkey[e]
                                      /\ db_script'[e] = db_script[e]
                                      /\ db_witness'[e] = db_witness[e]
      BY <1>0, <1>5 DEF AddScriptPubKey, AddWitnessScript, WriteDescriptorScript,
           WriteDescriptorWitnessScript, TypeOK
    <2> QED BY <1>2, <2>1, <2>2
  <1>6. CASE \/ \E k \in Keys : GetNewQuantumDestination(k)
             \/ \E k \in Keys : SetupQuantumDescriptor(k)
             \/ \E d \in Keys, s \in Scripts : Receive(d, s)
             \/ NoneExisting \/ SetupFails \/ ReturnDestination
             \/ EncryptWallet \/ Unlock \/ Lock \/ UnloadWallet \/ LoadWallet \/ Crash
             \/ OtherWallet \/ UNCHANGED vars
    BY <1>1, <1>6 DEF GetNewQuantumDestination, SetupQuantumDescriptor, Receive, NoneExisting,
         SetupFails, ReturnDestination, EncryptWallet, Unlock, Lock, SetLocked, UnloadWallet,
         LoadWallet, Crash, OtherWallet, vars, dbVars
  <1> QED BY <1>3, <1>4, <1>5, <1>6 DEF Next, CallStep

(* Encryption, descriptors and labels of memory and file stay together. *)
LEMMA StepSyncWallet == WalletInv /\ MemoryInv /\ [Next]_vars => SyncWallet'
  <1> SUFFICES ASSUME WalletInv, MemoryInv, [Next]_vars, loaded' PROVE SyncWallet'
    BY DEF SyncWallet
  <1>0. TypeOK /\ CallInv /\ BlankInv /\ CacheCoherent /\ RangeInv /\ SyncWallet
    BY DEF WalletInv, TypeInv, MemoryInv
  <1> DEFINE Crypted  == db_mkey <=> crypt \in {"locked", "unlocked"}
             Known    == \A d \in Keys : db_descriptor[d] # None =>
                           d \in m_spk_managers \/ d \in lost \/ (pc = "setup_key" /\ d = qkey)
             Stored   == \A d \in m_spk_managers :
                           Desc(d) \notin dirty => m_wallet_descriptor[d] = db_descriptor[d]
             Labelled == \A k \in Keys :
                           Addr(k) \notin dirty => (k \in m_address_book <=> k \in db_name)
             Parts    == Crypted /\ Known /\ Stored /\ Labelled
  <1>1. Parts' => SyncWallet'
    BY DEF SyncWallet
  <1>2. loaded => Parts
    BY <1>0 DEF SyncWallet
  <1>3. ASSUME loaded, UNCHANGED <<crypt, db_mkey>> PROVE Crypted'
    BY <1>2, <1>3
  <1>4. ASSUME loaded, UNCHANGED <<m_spk_managers, dirty, m_wallet_descriptor, db_descriptor>>
        PROVE  Stored'
    BY <1>2, <1>4
  <1>5. ASSUME loaded, UNCHANGED <<dirty, m_address_book, db_name>> PROVE Labelled'
    BY <1>2, <1>5
  <1>6. ASSUME loaded, UNCHANGED <<m_spk_managers, db_descriptor>>, lost \subseteq lost',
               pc # "setup_key"
        PROVE  Known'
    BY <1>2, <1>6
  <1>7. ASSUME loaded, UNCHANGED <<crypt, db_mkey, m_spk_managers, dirty, m_wallet_descriptor,
                                   db_descriptor, m_address_book, db_name>>,
               lost \subseteq lost', pc # "setup_key"
        PROVE  SyncWallet'
    BY <1>1, <1>3, <1>4, <1>5, <1>6, <1>7
  <1>8. ASSUME NEW k \in Keys, GetNewQuantumDestination(k) PROVE SyncWallet'
    BY <1>7, <1>8 DEF GetNewQuantumDestination, memVars, dbVars
  <1>9. ASSUME NEW d \in Keys, AddToExisting(d) PROVE SyncWallet'
    BY <1>0, <1>7, <1>9 DEF AddToExisting, BlankInv, WriteSucceeds, WriteFails
  <1>10. CASE NoneExisting \/ SetupFails \/ Unlock \/ Lock
    <2>1. CASE NoneExisting \/ SetupFails
      BY <1>0, <1>7, <2>1 DEF NoneExisting, SetupFails, BlankInv, memVars, dbVars, histVars
    <2>2. CASE Unlock \/ Lock
      <3>1. /\ loaded /\ pc = "idle"
            /\ UNCHANGED <<db_mkey, m_spk_managers, dirty, m_wallet_descriptor,
                           db_descriptor, m_address_book, db_name, lost>>
            /\ crypt \in {"locked", "unlocked"} /\ crypt' \in {"locked", "unlocked"}
        BY <2>2 DEF Unlock, Lock, SetLocked, dbVars, histVars
      <3>2. Crypted'
        BY <1>2, <3>1
      <3> HIDE DEF Crypted, Known, Stored, Labelled
      <3> QED BY <1>1, <1>4, <1>5, <1>6, <3>1, <3>2
    <2> QED BY <1>10, <2>1, <2>2
  <1>11. ASSUME NEW k \in Keys, SetupQuantumDescriptor(k) PROVE SyncWallet'
    <2>1. /\ UNCHANGED <<loaded, crypt, db_mkey, m_spk_managers, dirty, m_wallet_descriptor,
                         m_address_book, db_name>>
          /\ loaded /\ lost \subseteq lost' /\ pc = "setup"
      BY <1>0, <1>11 DEF SetupQuantumDescriptor, BlankInv, WriteSucceeds, WriteFails, memVars
    <2>2. CASE UNCHANGED db_descriptor
      BY <1>7, <2>1, <2>2
    <2>3. CASE /\ db_descriptor' = [db_descriptor EXCEPT ![k] = NewDescriptor]
               /\ pc' = "setup_key" /\ qkey' = k
      <3>1. k \notin m_spk_managers
        BY <1>0, <1>11 DEF SetupQuantumDescriptor, BlankInv, FileInv, WalletInv
      <3>2. \A d \in Keys : d # k => db_descriptor'[d] = db_descriptor[d]
        BY <1>0, <2>3 DEF TypeOK
      <3>3. Known'
        BY <1>2, <2>1, <2>3, <3>2
      <3>4. Stored'
        BY <1>0, <1>2, <2>1, <3>1, <3>2 DEF TypeOK
      <3> HIDE DEF Crypted, Known, Stored, Labelled
      <3> QED BY <1>1, <1>3, <1>5, <2>1, <3>3, <3>4
    <2> QED BY <1>11, <2>2, <2>3 DEF SetupQuantumDescriptor
  <1>12. CASE SetupAddQuantumKey
    <2>1. /\ UNCHANGED <<loaded, crypt, db_mkey, dirty, db_descriptor, m_address_book, db_name>>
          /\ loaded /\ qkey \in Keys
      BY <1>0, <1>12, CallTypes DEF SetupAddQuantumKey, BlankInv
    <2>2. CASE /\ UNCHANGED <<m_spk_managers, m_wallet_descriptor>>
               /\ lost' = lost \cup {qkey}
      <3>1. Known'
        BY <1>2, <2>1, <2>2
      <3> HIDE DEF Crypted, Known, Stored, Labelled
      <3> QED BY <1>1, <1>3, <1>4, <1>5, <2>1, <2>2, <3>1
    <2>3. CASE /\ m_spk_managers' = m_spk_managers \cup {qkey} /\ lost' = lost
               /\ m_wallet_descriptor' = [m_wallet_descriptor EXCEPT ![qkey] = NewDescriptor]
      <3>1. Known'
        BY <1>2, <2>1, <2>3
      <3>2. db_descriptor[qkey] = NewDescriptor
        BY <1>0, <1>12 DEF SetupAddQuantumKey, BlankInv
      <3>3. \A d \in m_spk_managers' : d \in Keys /\ m_wallet_descriptor'[d] =
               IF d = qkey THEN NewDescriptor ELSE m_wallet_descriptor[d]
        BY <1>0, <2>1, <2>3 DEF TypeOK
      <3>4. Stored'
        BY <1>2, <2>1, <2>3, <3>2, <3>3
      <3> HIDE DEF Crypted, Known, Stored, Labelled
      <3> QED BY <1>1, <1>3, <1>5, <2>1, <3>1, <3>4
    <2> QED BY <1>12, <2>2, <2>3 DEF SetupAddQuantumKey, WriteSucceeds, WriteFails
  <1>13. CASE AddScriptPubKey \/ AddWitnessScript
    BY <1>0, <1>7, <1>13 DEF AddScriptPubKey, AddWitnessScript, BlankInv, WriteSucceeds, WriteFails
  <1>14. CASE ReturnDestination
    <2>1. /\ UNCHANGED <<loaded, crypt, db_mkey, m_spk_managers, m_wallet_descriptor,
                         db_descriptor, lost>>
          /\ loaded /\ pc = "book" /\ key \in Keys
          /\ m_address_book' = m_address_book \cup {key}
      BY <1>0, <1>14, CallTypes DEF ReturnDestination, BlankInv
    <2>2. \/ db_name' = db_name \cup {key} /\ UNCHANGED dirty
          \/ dirty' = dirty \cup {Addr(key)} /\ UNCHANGED db_name
      BY <1>14 DEF ReturnDestination
    <2>3. Labelled'
      BY <1>2, <2>1, <2>2
    <2>4. Stored'
      BY <1>2, <2>1, <2>2
    <2> HIDE DEF Crypted, Known, Stored, Labelled
    <2> QED BY <1>1, <1>3, <1>6, <2>1, <2>3, <2>4
  <1>15. ASSUME NEW d \in Keys, NEW s \in Scripts, Receive(d, s) PROVE SyncWallet'
    <2>1. /\ UNCHANGED <<crypt, db_mkey, m_spk_managers, m_address_book, db_name, lost>>
          /\ loaded /\ pc = "idle" /\ d \in m_spk_managers
      BY <1>0, <1>15 DEF Receive, CacheCoherent
    <2>2. /\ \A e \in Keys : e # d => m_wallet_descriptor'[e] = m_wallet_descriptor[e]
          /\ \A e \in Keys : e # d => db_descriptor'[e] = db_descriptor[e]
          /\ Desc(d) \in dirty' \/ db_descriptor'[d] = m_wallet_descriptor'[d]
          /\ dirty \subseteq dirty' \cup {Desc(d)}
          /\ dirty' \subseteq dirty \cup {Desc(d)}
      BY <1>0, <1>15 DEF Receive, TypeOK
    <2>3. \A e \in m_spk_managers : e \in Keys /\ (Desc(e) = Desc(d) => e = d)
      BY <1>0, ScriptsDiffer DEF TypeOK
    <2>4. Stored'
      BY <1>2, <2>1, <2>2, <2>3
    <2>5. Known'
      BY <1>2, <2>1, <2>2
    <2>6. Labelled'
      <3>1. \A k \in Keys : Addr(k) # Desc(d)
        BY ScriptsDiffer
      <3> QED BY <1>2, <2>1, <2>2, <3>1
    <2> HIDE DEF Crypted, Known, Stored, Labelled
    <2> QED BY <1>1, <1>3, <2>1, <2>4, <2>5, <2>6
  <1>16. CASE EncryptWallet
    <2>1. /\ UNCHANGED <<m_spk_managers, dirty, m_wallet_descriptor,
                         db_descriptor, m_address_book, db_name, lost>>
          /\ loaded /\ pc = "idle"
      BY <1>16 DEF EncryptWallet
    <2>2. Crypted'
      BY <1>2, <1>16 DEF EncryptWallet, IsCrypted
    <2> HIDE DEF Crypted, Known, Stored, Labelled
    <2> QED BY <1>1, <1>4, <1>5, <1>6, <2>1, <2>2
  <1>17. CASE UnloadWallet \/ Crash
    BY <1>17 DEF UnloadWallet, Crash
  <1>18. CASE LoadWallet
    <2>1. /\ crypt' = IF db_mkey THEN "locked" ELSE "plain"
          /\ m_spk_managers' = {d \in Keys : db_descriptor[d] # None}
          /\ m_wallet_descriptor' = [d \in Keys |-> LoadedDescriptor(d)]
          /\ m_address_book' = db_name
          /\ UNCHANGED <<db_descriptor, db_name, db_mkey>>
      BY <1>18 DEF LoadWallet, dbVars
    <2>2. Crypted'
      BY <2>1
    <2>3. Known' /\ Labelled'
      BY <2>1
    <2>4. Stored'
      BY <2>1 DEF LoadedDescriptor
    <2> HIDE DEF Crypted, Known, Stored, Labelled
    <2> QED BY <1>1, <2>2, <2>3, <2>4
  <1>19. CASE OtherWallet \/ UNCHANGED vars
    <2>1. UNCHANGED <<loaded, crypt, db_mkey, m_spk_managers, dirty, m_wallet_descriptor,
                      db_descriptor, m_address_book, db_name, lost, pc, qkey>>
      BY <1>19 DEF OtherWallet, vars, memVars, dbVars, callVars, histVars
    <2> QED BY <1>0, <2>1 DEF SyncWallet
  <1> QED BY <1>8, <1>9, <1>10, <1>11, <1>12, <1>13, <1>14, <1>15, <1>16, <1>17, <1>18, <1>19
          DEF Next, CallStep

(* What an SPKM can spend, it can spend after every step until the wallet  *)
(* is unloaded.                                                            *)
LEMMA SpendableStays ==
  ASSUME WalletInv, MemoryInv, [Next]_vars, ~(UnloadWallet \/ Crash \/ LoadWallet),
         NEW d \in m_spk_managers, NEW k \in Keys
  PROVE  /\ d \in m_spk_managers'
         /\ k \in m_map_quantum_keys[d] => k \in m_map_quantum_keys'[d]
         /\ k \in m_map_witness_scripts[d] => k \in m_map_witness_scripts'[d]
         /\ m_map_script_pub_keys[d][Addr(k)] # None =>
              m_map_script_pub_keys'[d][Addr(k)] # None
  <1>0. TypeOK /\ BlankInv /\ d \in Keys /\ Addr(k) \in Scripts
    BY ScriptsDiffer DEF WalletInv, TypeInv, MemoryInv, TypeOK
  <1>1. CASE UNCHANGED <<m_spk_managers, m_map_quantum_keys, m_map_witness_scripts,
                         m_map_script_pub_keys>>
    BY <1>1
  <1>2. ASSUME NEW e \in Keys, AddToExisting(e)
        PROVE  /\ UNCHANGED <<m_spk_managers, m_map_witness_scripts, m_map_script_pub_keys>>
               /\ m_map_quantum_keys[d] \subseteq m_map_quantum_keys'[d]
    BY <1>0, <1>2 DEF AddToExisting, TypeOK
  <1>3. CASE SetupAddQuantumKey
    <2>1. /\ UNCHANGED <<m_map_witness_scripts, m_map_script_pub_keys>>
          /\ m_spk_managers \subseteq m_spk_managers'
      BY <1>3 DEF SetupAddQuantumKey
    <2>2. d # qkey
      BY <1>0, <1>3 DEF SetupAddQuantumKey, BlankInv
    <2>3. m_map_quantum_keys'[d] = m_map_quantum_keys[d]
      BY <1>0, <1>3, <2>2 DEF SetupAddQuantumKey, TypeOK
    <2> QED BY <2>1, <2>3
  <1>4. CASE AddScriptPubKey
    <2>1. /\ key \in Keys /\ quantum_spkm_used \in Keys /\ quantum_index # None
          /\ UNCHANGED <<m_spk_managers, m_map_quantum_keys, m_map_witness_scripts>>
      BY <1>0, <1>4, CallTypes, IndexFacts DEF AddScriptPubKey
    <2> QED BY <1>0, <1>4, <2>1, AddScriptEffect
  <1>5. CASE AddWitnessScript
    <2>1. UNCHANGED <<m_spk_managers, m_map_quantum_keys, m_map_script_pub_keys>>
      BY <1>5 DEF AddWitnessScript
    <2>2. m_map_witness_scripts[d] \subseteq m_map_witness_scripts'[d]
      BY <1>0, <1>5 DEF AddWitnessScript, TrackWitnessScript, TypeOK
    <2> QED BY <2>1, <2>2
  <1>6. ASSUME NEW e \in Keys, NEW s \in Scripts, Receive(e, s)
        PROVE  /\ UNCHANGED <<m_spk_managers, m_map_quantum_keys, m_map_witness_scripts>>
               /\ m_map_script_pub_keys'[d][Addr(k)] = m_map_script_pub_keys[d][Addr(k)]
    <2>1. /\ UNCHANGED <<m_spk_managers, m_map_quantum_keys, m_map_witness_scripts>>
          /\ ExpandTo0(e) \/ UNCHANGED m_map_script_pub_keys
      BY <1>6 DEF Receive
    <2>2. Addr(k) # Desc(e)
      BY ScriptsDiffer
    <2> QED BY <1>0, <2>1, <2>2, ExpandEffect
  <1>7. CASE \/ \E j \in Keys : GetNewQuantumDestination(j)
             \/ \E j \in Keys : SetupQuantumDescriptor(j)
             \/ NoneExisting \/ SetupFails \/ ReturnDestination
             \/ EncryptWallet \/ Unlock \/ Lock \/ OtherWallet \/ UNCHANGED vars
    BY <1>1, <1>7 DEF GetNewQuantumDestination, SetupQuantumDescriptor, NoneExisting,
         SetupFails, ReturnDestination, EncryptWallet, Unlock, Lock, SetLocked,
         OtherWallet, vars, memVars
  <1> QED BY <1>2, <1>3, <1>4, <1>5, <1>6, <1>7 DEF Next, CallStep

(* The addresses of the session stay spendable. *)
LEMMA StepSessionInv == WalletInv /\ MemoryInv /\ [Next]_vars => SessionInv'
  <1> SUFFICES ASSUME WalletInv, MemoryInv, [Next]_vars PROVE SessionInv'
    OBVIOUS
  <1>0. TypeOK /\ CallInv /\ OwnInv /\ BlankInv /\ SessionInv
    BY DEF WalletInv, TypeInv, MemoryInv
  <1>1. CASE UnloadWallet \/ Crash \/ LoadWallet
    <2>1. session' = {} /\ pc' = "idle"
      BY <1>0, <1>1 DEF UnloadWallet, Crash, LoadWallet, EndCall, BlankInv, callVars, histVars
    <2> QED BY <2>1 DEF SessionInv
  <1>2. CASE ~(UnloadWallet \/ Crash \/ LoadWallet)
    <2>1. \A k \in session : \E d \in m_spk_managers' : Spendable(d, k)'
      <3> SUFFICES ASSUME NEW k \in session PROVE \E d \in m_spk_managers' : Spendable(d, k)'
        OBVIOUS
      <3>1. PICK d \in m_spk_managers : Spendable(d, k)
        BY <1>0 DEF SessionInv
      <3>2. k \in Keys
        BY <1>0 DEF TypeOK
      <3> QED BY <1>2, <3>1, <3>2, SpendableStays DEF Spendable
    <2>2. ASSUME UNCHANGED session, pc' \notin {"witness", "book"} PROVE SessionInv'
      BY <2>1, <2>2 DEF SessionInv
    <2>3. CASE AddScriptPubKey
      <3>1. /\ key \in Keys /\ quantum_spkm_used \in Keys /\ quantum_index # None
            /\ UNCHANGED <<session, key, quantum_spkm_used>> /\ pc' = "witness"
        BY <1>0, <2>3, CallTypes, IndexFacts DEF AddScriptPubKey
      <3>2. m_map_script_pub_keys'[quantum_spkm_used][Addr(key)] # None
        BY <1>0, <2>3, <3>1, AddScriptEffect, ScriptsDiffer
      <3> QED BY <2>1, <3>1, <3>2 DEF SessionInv
    <2>4. CASE AddWitnessScript
      <3>1. /\ key \in Keys /\ quantum_spkm_used \in Keys
            /\ UNCHANGED <<session, key, quantum_spkm_used, m_map_script_pub_keys>> /\ pc' = "book"
        BY <2>4, CallTypes DEF AddWitnessScript
      <3>2. key \in m_map_witness_scripts'[quantum_spkm_used]
        BY <1>0, <2>4, <3>1 DEF AddWitnessScript, TrackWitnessScript, TypeOK
      <3>3. m_map_script_pub_keys[quantum_spkm_used][Addr(key)] # None
        BY <1>0, <2>4 DEF AddWitnessScript, SessionInv
      <3> QED BY <2>1, <3>1, <3>2, <3>3 DEF SessionInv
    <2>5. CASE ReturnDestination
      <3>1. /\ pc' = "idle" /\ session' \subseteq session \cup {key}
            /\ UNCHANGED <<m_spk_managers, m_map_quantum_keys, m_map_script_pub_keys,
                           m_map_witness_scripts>>
        BY <2>5 DEF ReturnDestination, EndCall
      <3>2. quantum_spkm_used \in m_spk_managers /\ Spendable(quantum_spkm_used, key)
        BY <1>0, <2>5 DEF ReturnDestination, CallInv, OwnInv, SessionInv, Spendable, HaveQuantumKey
      <3>3. \A k \in session' : \E d \in m_spk_managers' : Spendable(d, k)'
        BY <2>1, <3>1, <3>2 DEF Spendable
      <3> QED BY <3>1, <3>3 DEF SessionInv
    <2>6. ASSUME NEW d \in Keys, \/ GetNewQuantumDestination(d) \/ AddToExisting(d)
                                 \/ SetupQuantumDescriptor(d)
          PROVE  SessionInv'
      BY <2>2, <2>6 DEF GetNewQuantumDestination, AddToExisting, SetupQuantumDescriptor, EndCall
    <2>7. ASSUME NEW d \in Keys, NEW s \in Scripts, Receive(d, s) PROVE SessionInv'
      BY <2>2, <2>7 DEF Receive, callVars
    <2>8. CASE \/ NoneExisting \/ SetupFails \/ SetupAddQuantumKey
               \/ EncryptWallet \/ Unlock \/ Lock
      BY <2>2, <2>8 DEF NoneExisting, SetupFails, SetupAddQuantumKey, EncryptWallet, Unlock,
           Lock, SetLocked, EndCall, callVars, histVars
    <2>9. CASE OtherWallet \/ UNCHANGED vars
      <3>1. UNCHANGED <<session, pc, key, quantum_spkm_used, m_map_script_pub_keys,
                        m_map_witness_scripts>>
        BY <2>9 DEF OtherWallet, vars, memVars, callVars, histVars
      <3> QED BY <1>0, <2>1, <3>1 DEF SessionInv
    <2> QED BY <1>2, <2>3, <2>4, <2>5, <2>6, <2>7, <2>8, <2>9 DEF Next, CallStep
  <1> QED BY <1>1, <1>2

-----------------------------------------------------------------------------
(* The invariant holds in every state. *)
THEOREM MemoryInvariant == Spec => []MemoryInv
  <1>1. WalletInv /\ MemoryInv /\ [Next]_vars => MemoryInv'
    BY StepOwnInv, StepBlankInv, StepCacheCoherent, StepRangeInv, StepSyncKeys,
       StepSyncScripts, StepSyncWallet, StepFiledInv, StepSessionInv DEF MemoryInv
  <1> QED BY <1>1, InitMemoryInv, WalletInvariant, PTL DEF Spec

(* A key is held by one SPKM and a script is tracked by one, through the   *)
(* failed insert that moves the caller's key away, the second key that is  *)
(* generated for it, and every reload.                                     *)
THEOREM WalletOneOwner == Spec => []OneOwner
  <1>1. WalletInv /\ MemoryInv => OneOwner
    <2> SUFFICES ASSUME WalletInv, MemoryInv PROVE OneOwner
      OBVIOUS
    <2>0. TypeOK /\ OwnInv /\ CacheCoherent /\ RangeInv
      BY DEF WalletInv, TypeInv, MemoryInv
    <2>1. ASSUME NEW d \in m_spk_managers, NEW e \in m_spk_managers,
                 m_map_quantum_keys[d] \cap m_map_quantum_keys[e] # {}
          PROVE  d = e
      <3>1. PICK k \in m_map_quantum_keys[d] : k \in m_map_quantum_keys[e]
        BY <2>1
      <3>2. d \in Keys /\ e \in Keys /\ k \in Keys
        BY <2>0 DEF TypeOK
      <3> QED BY <2>0, <3>1, <3>2 DEF OwnInv, Owns
    <2>2. ASSUME NEW s \in Scripts, NEW d \in m_cached_spks[s], NEW e \in m_cached_spks[s]
          PROVE  d = e
      <3>1. /\ d \in Keys /\ e \in Keys
            /\ m_map_script_pub_keys[d][s] # None /\ m_map_script_pub_keys[e][s] # None
        BY <2>0 DEF CacheCoherent, TypeOK
      <3>2. PICK k \in Keys : s = Addr(k) \/ s = Desc(k)
        BY ScriptKinds
      <3>3. CASE s = Addr(k)
        BY <2>0, <3>1, <3>3 DEF OwnInv, Owns
      <3>4. CASE s = Desc(k)
        BY <2>0, <3>1, <3>4 DEF RangeInv
      <3> QED BY <3>2, <3>3, <3>4
    <2> QED BY <2>1, <2>2 DEF OneOwner
  <1> QED BY <1>1, WalletInvariant, MemoryInvariant, PTL

(* m_cached_spks names exactly the SPKMs whose own map holds the script,   *)
(* so IsMine, GetSolvingProvider and AddToWalletIfInvolvingMe, which       *)
(* consult nothing else, miss none and assert nothing false.               *)
THEOREM WalletCacheCoherent == Spec => []CacheCoherent
  <1>1. MemoryInv => CacheCoherent
    BY DEF MemoryInv
  <1> QED BY <1>1, MemoryInvariant, PTL

(* The assertion at the end of TopUpWithDB, range_end - 1 =                *)
(* m_max_cached_index, holds in every state, and indices of addresses and  *)
(* of the range never meet.                                                *)
THEOREM WalletRange == Spec => []RangeMatchesExpansion
  <1>1. MemoryInv => RangeMatchesExpansion
    BY DEF MemoryInv, RangeInv
  <1> QED BY <1>1, MemoryInvariant, PTL

(* An address returned in this session, whatever writes failed, or in an   *)
(* earlier one without a failed write, is known to the wallet, and the     *)
(* SPKM that tracks it has its witness script and its private key.         *)
THEOREM WalletHandedOutUsable == Spec => []HandedOutUsable
  <1>1. WalletInv /\ MemoryInv => HandedOutUsable
    <2> SUFFICES ASSUME WalletInv, MemoryInv, loaded, NEW k \in session \cup (handed \ lost)
                 PROVE  /\ IsMine(Addr(k))
                        /\ \A d \in m_cached_spks[Addr(k)] :
                              Solvable(d, Addr(k)) /\ HaveQuantumKey(d, k)
      BY DEF HandedOutUsable
    <2>0. /\ TypeOK /\ OwnInv /\ BlankInv /\ CacheCoherent /\ RangeInv
          /\ SyncKeys /\ SyncScripts /\ SessionInv /\ HandedOutDurable
      BY DEF WalletInv, TypeInv, MemoryInv
    <2>1. k \in Keys /\ Addr(k) \in Scripts
      BY <2>0, ScriptsDiffer DEF TypeOK
    <2>2. PICK d \in m_spk_managers : Spendable(d, k)
      <3>1. CASE k \in session
        BY <2>0, <3>1 DEF SessionInv
      <3>2. CASE k \in handed \ lost
        <4>1. PICK e \in Keys : /\ k \in db_qkey[e] /\ db_script[e][k] # None
                                /\ k \in db_witness[e]
          BY <2>0, <3>2 DEF HandedOutDurable, DurableKey
        <4>2. Spendable(e, k)
          BY <2>0, <2>1, <4>1 DEF SyncKeys, SyncScripts, Spendable
        <4>3. e \in m_spk_managers
          BY <2>0, <4>2 DEF BlankInv, Blank, Spendable
        <4> QED BY <4>2, <4>3
      <3> QED BY <3>1, <3>2
    <2>3. d \in Keys /\ d \in m_cached_spks[Addr(k)]
      BY <2>0, <2>1, <2>2 DEF TypeOK, CacheCoherent, Spendable
    <2>4. IsMine(Addr(k))
      BY <2>2, <2>3 DEF IsMine, SpkmIsMine, Spendable
    <2>5. Solvable(d, Addr(k)) /\ HaveQuantumKey(d, k)
      <3>1. m_map_script_pub_keys[d][Addr(k)] < 0
        BY <2>0, <2>1, <2>2 DEF RangeInv, RangeMatchesExpansion, Spendable
      <3> QED BY <2>2, <3>1 DEF Solvable, HaveQuantumKey, Spendable
    <2>6. ASSUME NEW e \in m_cached_spks[Addr(k)] PROVE e = d
      <3>1. e \in Keys /\ m_map_script_pub_keys[e][Addr(k)] # None
        BY <2>0, <2>1 DEF CacheCoherent, TypeOK
      <3> QED BY <2>0, <2>1, <2>2, <2>3, <3>1 DEF OwnInv, Owns, Spendable
    <2> QED BY <2>4, <2>5, <2>6
  <1> QED BY <1>1, WalletInvariant, MemoryInvariant, PTL

(* Between calls, memory is what a reload would build from the file,       *)
(* except for what failed writes explain.                                  *)
THEOREM WalletRestartTransparent == Spec => []RestartTransparent
  <1>1. WalletInv /\ MemoryInv => RestartTransparent
    <2> SUFFICES ASSUME WalletInv, MemoryInv, loaded, pc = "idle"
                 PROVE  RestartTransparent
      BY DEF RestartTransparent
    <2>0. /\ TypeOK /\ FileInv /\ BlankInv /\ RangeInv
          /\ SyncKeys /\ SyncScripts /\ SyncWallet
      BY DEF WalletInv, TypeInv, MemoryInv
    <2>1. (crypt \in {"locked", "unlocked"}) = db_mkey
      <3>1. db_mkey \in BOOLEAN /\ (db_mkey <=> crypt \in {"locked", "unlocked"})
        BY <2>0 DEF SyncWallet, TypeOK
      <3> QED BY <3>1, EquivalentMembership
    <2>2. \A d \in Keys \ lost : d \in m_spk_managers <=> db_descriptor[d] # None
      BY <2>0 DEF SyncWallet, FileInv
    <2>3. ASSUME NEW d \in m_spk_managers
          PROVE  /\ m_map_quantum_keys[d] \ lost = LoadedFor(d, db_qkey) \ lost
                 /\ m_map_witness_scripts[d] \ lost = LoadedFor(d, db_witness) \ lost
                 /\ \A k \in Keys \ lost :
                       m_map_script_pub_keys[d][Addr(k)] = LoadedScripts(d)[Addr(k)]
                 /\ Desc(d) \notin dirty =>
                       /\ m_wallet_descriptor[d] = db_descriptor[d]
                       /\ m_map_script_pub_keys[d][Desc(d)] = LoadedScripts(d)[Desc(d)]
      <3>1. d \in Keys /\ db_descriptor[d] # None
        BY <2>0 DEF TypeOK, FileInv
      <3>2. LoadedFor(d, db_qkey) = db_qkey[d] /\ LoadedFor(d, db_witness) = db_witness[d]
        BY <3>1 DEF LoadedFor
      <3>3. /\ m_map_quantum_keys[d] \ lost = db_qkey[d] \ lost
            /\ m_map_witness_scripts[d] \ lost = db_witness[d] \ lost
        BY <2>0, <3>1 DEF SyncKeys
      <3>4. ASSUME NEW k \in Keys \ lost
            PROVE  m_map_script_pub_keys[d][Addr(k)] = LoadedScripts(d)[Addr(k)]
        <4>1. Addr(k) \in Scripts /\ Addr(k)[1] = "addr" /\ Addr(k)[2] = k
          BY DEF Addr, Scripts
        <4>2. LoadedScripts(d)[Addr(k)] = db_script[d][k]
          BY <3>1, <4>1 DEF LoadedScripts
        <4> QED BY <2>0, <3>1, <4>2 DEF SyncScripts
      <3>5. ASSUME Desc(d) \notin dirty
            PROVE  /\ m_wallet_descriptor[d] = db_descriptor[d]
                   /\ m_map_script_pub_keys[d][Desc(d)] = LoadedScripts(d)[Desc(d)]
        <4>1. m_wallet_descriptor[d] = db_descriptor[d]
          BY <2>0, <3>5 DEF SyncWallet
        <4>2. Desc(d) \in Scripts /\ Desc(d)[1] = "desc"
          BY <3>1 DEF Desc, Scripts
        <4>3. LoadedScripts(d)[Desc(d)] = IF db_descriptor[d].range_end = 1 THEN 0 ELSE None
          BY <3>1, <4>2 DEF LoadedScripts
        <4>4. /\ m_wallet_descriptor[d].range_end - 1 = m_max_cached_index[d]
              /\ m_wallet_descriptor[d].range_end \in {0, 1}
              /\ m_map_script_pub_keys[d][Desc(d)] =
                   IF m_max_cached_index[d] = 0 THEN 0 ELSE None
          BY <2>0, <3>1 DEF RangeInv, RangeMatchesExpansion, TypeOK, Descriptor
        <4> QED BY <4>1, <4>3, <4>4
      <3> QED BY <3>2, <3>3, <3>4, <3>5
    <2>4. \A k \in Keys : Addr(k) \notin dirty => (k \in m_address_book <=> k \in db_name)
      BY <2>0 DEF SyncWallet
    <2> QED BY <2>1, <2>2, <2>3, <2>4 DEF RestartTransparent
  <1> QED BY <1>1, WalletInvariant, MemoryInvariant, PTL
=============================================================================
