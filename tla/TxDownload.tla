----------------------------- MODULE TxDownload -----------------------------
(***************************************************************************)
(* TxDownloadManagerImpl (node/txdownloadman_impl.cpp) on top of the       *)
(* TxRequestTracker: announcements of peers become requests to them, one   *)
(* at a time per transaction, until one delivers it.  Some peers are       *)
(* honest; the others answer what they like, or not at all, and come and   *)
(* go.  m_tx_download_mutex is held in each function.                      *)
(*                                                                         *)
(* Times are kept relative to the present, so that the clock can go on for *)
(* ever: a tick takes one off each.  Orphans are not modelled.             *)
(***************************************************************************)
EXTENDS TxRequestTracker

CONSTANTS
    Honest,                         \* peers that stay, and answer every request
    MAX_PEER_TX_ANNOUNCEMENTS, MAX_PEER_TX_REQUEST_IN_FLIGHT,
    NONPREF_PEER_TX_DELAY, OVERLOADED_PEER_TX_DELAY, GETDATA_TX_INTERVAL,
    MaxReconnects                   \* bound on the reconnections of the others

ASSUME TxDownloadAssumption ==
    /\ Honest \subseteq Peers
    /\ {MAX_PEER_TX_ANNOUNCEMENTS, MAX_PEER_TX_REQUEST_IN_FLIGHT} \subseteq Nat \ {0}
    /\ {NONPREF_PEER_TX_DELAY, OVERLOADED_PEER_TX_DELAY} \subseteq Nat
    /\ GETDATA_TX_INTERVAL \in Nat \ {0} /\ MaxReconnects \in Nat

VARIABLES
    m_txrequest,  \* by transaction and peer: the announcement, or none
    m_peer_info,  \* the peers that are connected
    have,         \* transactions for which AlreadyHaveTx holds
    getdata,      \* requests on their way: <<transaction, peer>>
    reconnects

vars == <<m_txrequest, m_peer_info, have, getdata, reconnects>>
Announcements ==
    [state : Candidates, time : 0..(NONPREF_PEER_TX_DELAY + OVERLOADED_PEER_TX_DELAY)]
      \cup [state : {"REQUESTED"}, time : 0..GETDATA_TX_INTERVAL] \cup {Completed}

TypeOK ==
    /\ m_txrequest \in [Txs -> [Peers -> Announcements \cup {none}]]
    /\ m_peer_info \subseteq Peers
    /\ have \subseteq Txs
    /\ getdata \subseteq Txs \X Peers
    /\ reconnects \in 0..MaxReconnects

Init ==
    /\ m_txrequest = [tx \in Txs |-> Nothing]
    /\ m_peer_info = Peers
    /\ have = {} /\ getdata = {} /\ reconnects = 0

Count(p) == Cardinality({tx \in Txs : m_txrequest[tx][p] # none})
CountInFlight(p) == Cardinality({tx \in Txs : p \in In(m_txrequest[tx], {"REQUESTED"})})

-----------------------------------------------------------------------------
TooMany(p) == Count(p) >= MAX_PEER_TX_ANNOUNCEMENTS

Delay(p) ==
    (IF p \notin Preferred THEN NONPREF_PEER_TX_DELAY ELSE 0)
      + (IF CountInFlight(p) >= MAX_PEER_TX_REQUEST_IN_FLIGHT THEN OVERLOADED_PEER_TX_DELAY ELSE 0)

(* When the transaction is there already, the peer is not connected, or it *)
(* has announced too many, nothing changes.                                *)
AddTxAnnouncement(tx, p) ==
    /\ tx \notin have /\ p \in m_peer_info /\ ~TooMany(p)
    /\ m_txrequest' = [m_txrequest EXCEPT ![tx] = ReceivedInv(@, p, Delay(p))]
    /\ UNCHANGED <<m_peer_info, have, getdata, reconnects>>

ExpiryAfterDelay(p) == Delay(p) + GETDATA_TX_INTERVAL
Expiry(p) == GETDATA_TX_INTERVAL

(* GetRequestable, and then RequestedTx or ForgetTxHash for each of what it *)
(* returns.                                                                 *)
GetRequestsToSend(p) ==
    /\ p \in m_peer_info
    /\ \E moved \in AtTime(m_txrequest, 0) :
          LET requestable == {tx \in Txs : p \in In(moved[tx], {"CANDIDATE_BEST"})}
          IN  /\ m_txrequest' = [tx \in Txs |->
                    IF tx \notin requestable THEN moved[tx]
                    ELSE IF tx \in have THEN Nothing
                    ELSE RequestedTx(moved[tx], p, Expiry(p))]
              /\ getdata' = getdata \cup ((requestable \ have) \X {p})
    /\ UNCHANGED <<m_peer_info, have, reconnects>>

(* ForgetTxHash, in BlockConnected and MempoolAcceptedTx. *)
Forget(index, tx) == [index EXCEPT ![tx] = Nothing]

BlockConnected(tx) ==
    /\ have' = have \cup {tx}
    /\ m_txrequest' = Forget(m_txrequest, tx)
    /\ UNCHANGED <<m_peer_info, getdata, reconnects>>

(* BlockDisconnected resets the filter of confirmed transactions: one that *)
(* does not return to the pool is not known any more.                      *)
BlockDisconnected(tx) ==
    /\ tx \in have
    /\ have' = have \ {tx}
    /\ UNCHANGED <<m_txrequest, m_peer_info, getdata, reconnects>>

(* A transaction enters the pool by another way than the network, from     *)
(* this node or from a disconnected block: TxDownloadManagerImpl is not    *)
(* told.                                                                   *)
BroadcastTransaction(tx) ==
    /\ tx \notin have
    /\ have' = have \cup {tx}
    /\ UNCHANGED <<m_txrequest, m_peer_info, getdata, reconnects>>

(* ReceivedTx for what was asked for, and, if it was not known, its        *)
(* acceptance (MempoolAcceptedTx).                                         *)
ReceivedTx(tx, p) ==
    LET index == [m_txrequest EXCEPT ![tx] = ReceivedResponse(tx, @, p)]
    IN  /\ <<tx, p>> \in getdata
        /\ getdata' = getdata \ {<<tx, p>>}
        /\ have' = have \cup {tx}
        /\ m_txrequest' = IF tx \in have THEN index ELSE Forget(index, tx)
        /\ UNCHANGED <<m_peer_info, reconnects>>

(* ReceivedNotFound, asked or not; or ReceivedTx and a rejection that      *)
(* leaves the transaction wanted.                                          *)
ReceivedNotFound(tx, p) ==
    /\ p \in m_peer_info \ Honest
    /\ m_txrequest' = [m_txrequest EXCEPT ![tx] = ReceivedResponse(tx, @, p)]
    /\ getdata' = getdata \ {<<tx, p>>}
    /\ UNCHANGED <<m_peer_info, have, reconnects>>

PeerForgottenNot(index, p) == index
PeerForgotten(index, p) == [tx \in Txs |-> DisconnectedPeer(tx, index[tx], p)]

Disconnect(p) ==
    /\ p \in m_peer_info \ Honest
    /\ m_txrequest' = PeerForgotten(m_txrequest, p)
    /\ m_peer_info' = m_peer_info \ {p}
    /\ getdata' = {r \in getdata : r[2] # p}
    /\ UNCHANGED <<have, reconnects>>

ConnectedPeer(p) ==
    /\ p \notin m_peer_info /\ reconnects < MaxReconnects
    /\ m_peer_info' = m_peer_info \cup {p}
    /\ reconnects' = reconnects + 1
    /\ UNCHANGED <<m_txrequest, have, getdata>>

Sooner(a) == IF a = none \/ a.time = 0 THEN a ELSE [a EXCEPT !.time = @ - 1]
Tick ==
    /\ m_txrequest' \in {[tx \in Txs |-> [p \in Peers |-> Sooner(m_txrequest[tx][p])]]}
    /\ UNCHANGED <<m_peer_info, have, getdata, reconnects>>

Next ==
    \/ \E a \in Announceable : AddTxAnnouncement(a[1], a[2])
    \/ \E p \in Peers : GetRequestsToSend(p) \/ Disconnect(p) \/ ConnectedPeer(p)
    \/ \E tx \in Txs : BlockConnected(tx) \/ BlockDisconnected(tx) \/ BroadcastTransaction(tx)
    \/ \E tx \in Txs, p \in Peers : ReceivedTx(tx, p) \/ ReceivedNotFound(tx, p)
    \/ Tick

(* Time goes on, the honest peers answer, and SendMessages serves every    *)
(* peer again and again.  The last is WF_vars(GetRequestsToSend(p)) with   *)
(* its ENABLED spelled out: the call has an effect when some time is past  *)
(* or the peer is to be asked for something.                               *)
HasEffect(p) ==
    /\ p \in m_peer_info
    /\ \E tx \in Txs : \/ p \in In(m_txrequest[tx], {"CANDIDATE_BEST"})
                       \/ \E q \in Peers : /\ IsWaiting(m_txrequest[tx], q)
                                            /\ m_txrequest[tx][q].time = 0

Fairness ==
    /\ WF_vars(Tick)
    /\ \A p \in Honest, tx \in Txs : WF_vars(ReceivedTx(tx, p))
    /\ \A p \in Peers : []<>(~HasEffect(p)) \/ []<><<GetRequestsToSend(p)>>_vars

Spec == Init /\ [][Next]_vars /\ Fairness

-----------------------------------------------------------------------------
(* A transaction that an honest peer has announced is downloaded, whatever *)
(* the other peers announce, withhold or claim not to have: their requests *)
(* expire, they are not asked twice, and the honest peer gets its turn.    *)
(* (A COMPLETED announcement is one that it has answered already.)         *)
HonestAnnouncementFetched ==
    \A a \in Announceable : a[2] \in Honest =>
        (a[2] \in In(m_txrequest[a[1]], States \ {"COMPLETED"}) ~> a[1] \in have)

(* No announcement is kept for ever, COMPLETED ones included, which count  *)
(* for the limit of their peer; that holds as well for a transaction that  *)
(* has become known without the tracker being told.  Each time passes,     *)
(* each request is answered or expires, and with the last of them the      *)
(* others go.  (A peer that reconnected without end could keep the others  *)
(* waiting: the reconnections are finitely many.)                          *)
AnnouncementsEnd ==
    \A a \in Announceable : []<>(m_txrequest[a[1]][a[2]] = none)

(* The tracker waits only for answers that can come: a REQUESTED           *)
(* announcement has its request on the way.  It keeps nothing of a peer    *)
(* that has gone (CheckIsEmpty), and no peer makes it keep more            *)
(* announcements than the limit.                                           *)
NothingStale ==
    \A tx \in Txs, p \in Peers :
        /\ p \in In(m_txrequest[tx], {"REQUESTED"}) => <<tx, p>> \in getdata
        /\ m_txrequest[tx][p] # none => p \in m_peer_info
        /\ Count(p) <= MAX_PEER_TX_ANNOUNCEMENTS
=============================================================================
