-------------------------- MODULE TxRequestTracker --------------------------
(***************************************************************************)
(* The data structure of TxRequestTracker::Impl (txrequest.cpp): what is   *)
(* known of the peers that announced a transaction, and how the private    *)
(* functions change it.  m_index is sorted by transaction, and everything  *)
(* but the order of the replies is decided within the announcements of one *)
(* transaction, so the operators work on those: a function that gives each *)
(* peer its announcement or none.  The places in the ByTxHash order that   *)
(* the code looks at next to an announcement are named by what is there.   *)
(***************************************************************************)
EXTENDS Integers, FiniteSets, SequencesExt

CONSTANTS
    Peers,
    Txs,           \* txhashes
    Announceable,  \* the announcements to consider: <<transaction, peer>>
    Preferred,     \* peers whose announcements are "preferred"
    low_bits,      \* of PriorityComputer: the salted hash of a txhash and a peer
    none           \* no announcement

ASSUME TrackerAssumption ==
    /\ IsFiniteSet(Peers) /\ Preferred \subseteq Peers /\ Announceable \subseteq Txs \X Peers
    /\ low_bits \in [Txs -> [Peers -> Nat]]
    /\ \A tx \in Txs : \A p, q \in Peers : p # q => low_bits[tx][p] # low_bits[tx][q]

Candidates == {"CANDIDATE_DELAYED", "CANDIDATE_READY", "CANDIDATE_BEST"}
States == Candidates \cup {"REQUESTED", "COMPLETED"}

ASSUME NoneAssumption == none \notin [state : States, time : Int]

(* Higher priority: the preferred bit is the highest one. *)
Better(tx, p, q) ==
    \/ p \in Preferred /\ q \notin Preferred
    \/ (p \in Preferred <=> q \in Preferred) /\ low_bits[tx][p] > low_bits[tx][q]

-----------------------------------------------------------------------------
In(g, states) == {p \in Peers : g[p] # none /\ g[p].state \in states}
(* The time of a COMPLETED announcement is not looked at any more. *)
Completed == [state |-> "COMPLETED", time |-> 0]
SetState(g, p, state) ==
    [g EXCEPT ![p] = IF state = "COMPLETED" THEN Completed ELSE [@ EXCEPT !.state = state]]

IsSelected(g, p) == p \in In(g, {"CANDIDATE_BEST", "REQUESTED"})
IsWaiting(g, p) == p \in In(g, {"REQUESTED", "CANDIDATE_DELAYED"})
IsSelectable(g, p) == p \in In(g, {"CANDIDATE_READY", "CANDIDATE_BEST"})

(* The best of a set of peers, if there are any. *)
Top(tx, peers) == {p \in peers : \A q \in peers \ {p} : Better(tx, p, q)}

(* it_next is a better READY one, the BEST one, the REQUESTED one, or none *)
(* that is not COMPLETED.                                                  *)
PromoteCandidateReady(tx, g, p) ==
    LET ready == SetState(g, p, "CANDIDATE_READY")
        best == In(g, {"CANDIDATE_BEST"})
    IN  IF \E q \in In(g, {"CANDIDATE_READY"}) : Better(tx, q, p) THEN ready
        ELSE IF best # {}
        THEN LET old == CHOOSE q \in best : TRUE
             IN  IF Better(tx, p, old)
                 THEN SetState(SetState(ready, old, "CANDIDATE_READY"), p, "CANDIDATE_BEST")
                 ELSE ready
        ELSE IF In(g, {"REQUESTED"}) # {} THEN ready
        ELSE SetState(ready, p, "CANDIDATE_BEST")

(* it_prev is the best READY one, if any. *)
ChangeOnly(tx, g, p, new_state) == SetState(g, p, new_state)
ChangeAndReselect(tx, g, p, new_state) ==
    SetState([q \in Peers |->
                 IF IsSelected(g, p) /\ q \in Top(tx, In(g, {"CANDIDATE_READY"}))
                 THEN [g[q] EXCEPT !.state = "CANDIDATE_BEST"] ELSE g[q]],
             p, new_state)

IsOnlyNonCompleted(g, p) == In(g, States \ {"COMPLETED"}) = {p}

Nothing == [p \in Peers |-> none]

MakeCompletedKept(tx, g, p) ==
    IF g[p].state = "COMPLETED" THEN g ELSE ChangeAndReselect(tx, g, p, "COMPLETED")
MakeCompleted(tx, g, p) ==
    IF g[p].state = "COMPLETED" THEN g
    ELSE IF IsOnlyNonCompleted(g, p) THEN Nothing
    ELSE ChangeAndReselect(tx, g, p, "COMPLETED")

(* SetTimePoint: the announcements that wait, from the earliest, as long   *)
(* as their time is past; then, should the clock have gone back, those     *)
(* that no longer wait, from the latest, as long as theirs is not.  Those  *)
(* with equal times come in any order.                                     *)
EarliestFirst(g, peers) ==
    {s \in SetToSeqs(peers) : \A i, j \in DOMAIN s : i < j => g[s[i]].time <= g[s[j]].time}
LatestFirst(g, peers) ==
    {s \in SetToSeqs(peers) : \A i, j \in DOMAIN s : i < j => g[s[i]].time >= g[s[j]].time}

Arrive(tx, g, p) == IF g[p].state = "CANDIDATE_DELAYED" THEN PromoteCandidateReady(tx, g, p)
                    ELSE MakeCompleted(tx, g, p)
AllArrive(tx, g, s) == FoldLeft(LAMBDA h, p : Arrive(tx, h, p), g, s)
AllDelayed(tx, g, s) ==
    FoldLeft(LAMBDA h, p : ChangeAndReselect(tx, h, p, "CANDIDATE_DELAYED"), g, s)

Past(g, now) == {p \in Peers : IsWaiting(g, p) /\ g[p].time <= now}
Future(g, now) == {p \in Peers : IsSelectable(g, p) /\ g[p].time > now}

Forward(tx, g, now) == {AllArrive(tx, g, s) : s \in EarliestFirst(g, Past(g, now))}
Back(tx, g, now) == {AllDelayed(tx, g, s) : s \in LatestFirst(g, Future(g, now))}

SetTimePointForward(tx, g, now) == Forward(tx, g, now)
SetTimePoint(tx, g, now) == UNION {Back(tx, h, now) : h \in Forward(tx, g, now)}

(* What may become of all the transactions: for each, one of its outcomes. *)
Selections(outcomes) ==
    {new \in [Txs -> UNION {outcomes[tx] : tx \in Txs}] : \A tx \in Txs : new[tx] \in outcomes[tx]}
AtTime(index, now) ==
    UNION {Selections(outcomes) : outcomes \in {[tx \in Txs |-> SetTimePoint(tx, index[tx], now)]}}

-----------------------------------------------------------------------------
(* The public functions, on the announcements of the transaction they are  *)
(* about.                                                                  *)
ReceivedInvLate(g, p, reqtime) ==
    IF g[p] # none THEN g ELSE [g EXCEPT ![p] = [state |-> "CANDIDATE_DELAYED", time |-> reqtime + 1]]
ReceivedInv(g, p, reqtime) ==
    IF g[p] # none THEN g ELSE [g EXCEPT ![p] = [state |-> "CANDIDATE_DELAYED", time |-> reqtime]]

(* One that is not the BEST takes the place of the one that is selected. *)
RequestedTx(g, p, expiry) ==
    IF g[p] = none \/ g[p].state \notin Candidates THEN g
    ELSE [q \in Peers |->
            CASE q = p -> [state |-> "REQUESTED", time |-> expiry]
              [] q # p /\ g[q] # none /\ g[q].state = "CANDIDATE_BEST" ->
                     [g[q] EXCEPT !.state = "CANDIDATE_READY"]
              [] q # p /\ g[q] # none /\ g[q].state = "REQUESTED" -> Completed
              [] OTHER -> g[q]]

ReceivedResponse(tx, g, p) == IF g[p] = none THEN g ELSE MakeCompleted(tx, g, p)

DisconnectedPeer(tx, g, p) ==
    IF g[p] = none THEN g ELSE [MakeCompleted(tx, g, p) EXCEPT ![p] = none]
=============================================================================
