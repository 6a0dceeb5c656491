----------------------------- MODULE TxRequest -----------------------------
(***************************************************************************)
(* TxRequestTracker under any sequence of calls, with any times, the clock *)
(* of GetRequestable going forward or back.  The tracker is only used      *)
(* under a lock, so each call is one action.                               *)
(***************************************************************************)
EXTENDS TxRequestTracker

CONSTANT MaxTime  \* bound on the times

ASSUME TxRequestAssumption == MaxTime \in Nat

VARIABLES
    m_index,  \* by transaction and peer: the announcement, or none
    order,    \* m_sequence: for each peer, its transactions as they were announced
    reply     \* GetRequestable, when it was the last call: the peer and the time it
              \* was given and the transactions it returned; or none

tracker_vars == <<m_index, order, reply>>
Times == 0..MaxTime
TimedAnnouncements == [state : States \ {"COMPLETED"}, time : Times] \cup {Completed}

TrackerTypeOK ==
    /\ m_index \in [Txs -> [Peers -> TimedAnnouncements \cup {none}]]
    /\ order \in [Peers -> Seq(Txs)]
    /\ reply = none \/ reply \in [peer : Peers, now : Times, txs : Seq(Txs)]

TrackerInit ==
    /\ m_index = [tx \in Txs |-> Nothing]
    /\ order = [p \in Peers |-> <<>>]
    /\ reply = none

-----------------------------------------------------------------------------
(* The elements of s that are in txs. *)
Only(s, txs) == FoldLeft(LAMBDA t, tx : IF tx \in txs THEN Append(t, tx) ELSE t, <<>>, s)

(* The index becomes new; an announcement that is erased leaves the order. *)
Remaining(new) == [p \in Peers |-> Only(order[p], {tx \in Txs : new[tx][p] # none})]
Becomes(new) == m_index' = new /\ order' = Remaining(new)

Inv(tx, p, reqtime) ==
    /\ <<tx, p>> \in Announceable
    /\ m_index' = [m_index EXCEPT ![tx] = ReceivedInv(@, p, reqtime)]
    /\ order' = [order EXCEPT ![p] = IF m_index[tx][p] = none THEN Append(@, tx) ELSE @]
    /\ reply' = none

Requestable(new, p) ==
    Only(Remaining(new)[p], {tx \in Txs : p \in In(new[tx], {"CANDIDATE_BEST"})})

GetRequestable(p, now) ==
    \E new \in AtTime(m_index, now) :
        /\ Becomes(new)
        /\ reply' = [peer |-> p, now |-> now, txs |-> Requestable(new, p)]

Requested(tx, p, expiry) ==
    /\ m_index' = [m_index EXCEPT ![tx] = RequestedTx(@, p, expiry)]
    /\ reply' = none /\ UNCHANGED order

Response(tx, p) ==
    /\ Becomes([m_index EXCEPT ![tx] = ReceivedResponse(tx, @, p)])
    /\ reply' = none

Disconnected(p) ==
    /\ Becomes([tx \in Txs |-> DisconnectedPeer(tx, m_index[tx], p)])
    /\ reply' = none

ForgetTxHash(tx) ==
    /\ Becomes([m_index EXCEPT ![tx] = Nothing])
    /\ reply' = none

TrackerNext ==
    \/ \E tx \in Txs, p \in Peers, t \in Times : Inv(tx, p, t) \/ Requested(tx, p, t)
    \/ \E p \in Peers, now \in Times : GetRequestable(p, now)
    \/ \E tx \in Txs, p \in Peers : Response(tx, p)
    \/ \E p \in Peers : Disconnected(p)
    \/ \E tx \in Txs : ForgetTxHash(tx)

TrackerSpec == TrackerInit /\ [][TrackerNext]_tracker_vars

-----------------------------------------------------------------------------
PostGetRequestableSanityCheck ==
    reply # none =>
        \A tx \in Txs, p \in Peers :
            /\ IsWaiting(m_index[tx], p) => m_index[tx][p].time > reply.now
            /\ IsSelectable(m_index[tx], p) => m_index[tx][p].time <= reply.now

(* What the tracker's own checks assert, in every state.  SanityCheck: an  *)
(* announcement that is only COMPLETED is not kept; at most one is         *)
(* selected; one is whenever any is READY; and the BEST one is better than *)
(* all of those.  PostGetRequestableSanityCheck: after GetRequestable      *)
(* nothing waits for a time that is past, and nothing is ready before its  *)
(* time, even when the clock has gone back.                                *)
SanityCheck ==
    /\ \A tx \in Txs :
        LET g == m_index[tx]
            selected == {p \in Peers : IsSelected(g, p)}
        IN  /\ In(g, {"COMPLETED"}) # {} => In(g, States \ {"COMPLETED"}) # {}
            /\ Cardinality(selected) <= 1
            /\ In(g, {"CANDIDATE_READY"}) # {} => selected # {}
            /\ \A b \in In(g, {"CANDIDATE_BEST"}), r \in In(g, {"CANDIDATE_READY"}) : Better(tx, b, r)
    /\ PostGetRequestableSanityCheck

ASSUME CandidateAssumption == none \notin [state : {"CANDIDATE"}, time : Int]

Abstract(a) ==
    IF a = none THEN none
    ELSE IF a.state \in Candidates THEN [state |-> "CANDIDATE", time |-> a.time]
    ELSE a
Rules == INSTANCE TxRequestRules
            WITH known <- [tx \in Txs |-> [p \in Peers |-> Abstract(m_index[tx][p])]]

(* The five states implement the rules that the header gives for three:    *)
(* what GetRequestable returns is what they say, in the order of the       *)
(* announcements, after any calls.                                         *)
ImplementsRules == Rules!Spec
=============================================================================
