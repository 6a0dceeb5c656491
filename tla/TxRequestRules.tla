--------------------------- MODULE TxRequestRules ---------------------------
(***************************************************************************)
(* What TxRequestTracker promises (txrequest.h): announcements that are    *)
(* CANDIDATE, REQUESTED or COMPLETED, and which of them a peer may be      *)
(* asked for.                                                              *)
(***************************************************************************)
EXTENDS Integers, FiniteSets, SequencesExt

CONSTANTS Peers, Txs, MaxTime, none,
          Better(_, _, _)  \* of two peers, the one to ask first for a transaction

VARIABLES
    known,  \* for a transaction and a peer: none, or a state and a time
    order,  \* for a peer: the transactions it announced, in that order
    reply   \* of GetRequestable, if that was the last call: for which peer, at
            \* which time, which transactions; or none

Live(g) == {p \in Peers : g[p] # none /\ g[p].state # "COMPLETED"}

(* "If for a given txhash only already-failed announcements remain, they   *)
(* are all forgotten."                                                     *)
Forgotten(g) == IF Live(g) = {} THEN [p \in Peers |-> none] ELSE g

(* The elements of s that are in txs. *)
Only(s, txs) == FoldLeft(LAMBDA t, tx : IF tx \in txs THEN Append(t, tx) ELSE t, <<>>, s)

(* The announcements change to those of new, and what is gone is not in *)
(* the order any more.                                                  *)
Becomes(new) ==
    /\ known' = [tx \in Txs |-> Forgotten(new[tx])]
    /\ order' = [p \in Peers |-> Only(order[p], {tx \in Txs : known'[tx][p] # none})]

Init ==
    /\ known = [tx \in Txs |-> [p \in Peers |-> none]]
    /\ order = [p \in Peers |-> <<>>]
    /\ reply = none

(* "Adds a new CANDIDATE announcement.  Does nothing if one already exists" *)
ReceivedInv(p, tx, reqtime) ==
    /\ known' = [known EXCEPT ![tx][p] =
                   IF @ = none THEN [state |-> "CANDIDATE", time |-> reqtime] ELSE @]
    /\ order' = [order EXCEPT ![p] = IF known[tx][p] = none THEN Append(@, tx) ELSE @]
    /\ reply' = none

(* Requests that have expired are COMPLETED.  The peer is to be asked for  *)
(* the transactions that nobody else is being asked for, whose time has    *)
(* come, and for which it is the best of those that may be asked.          *)
Expired(g, now) ==
    [p \in Peers |-> IF g[p] # none /\ g[p].state = "REQUESTED" /\ g[p].time <= now
                     THEN [state |-> "COMPLETED", time |-> 0] ELSE g[p]]
MayAsk(tx, now) == {p \in Peers : /\ known'[tx][p] # none
                                  /\ known'[tx][p].state = "CANDIDATE"
                                  /\ known'[tx][p].time <= now}
ToAsk(p, now) == {tx \in Txs :
    /\ \A q \in Peers : known'[tx][q] # none => known'[tx][q].state # "REQUESTED"
    /\ p \in MayAsk(tx, now)
    /\ \A q \in MayAsk(tx, now) \ {p} : Better(tx, p, q)}

GetRequestable(p, now) ==
    /\ Becomes([tx \in Txs |-> Expired(known[tx], now)])
    /\ reply' = [peer |-> p, now |-> now,
                 txs |-> Only(order'[p], ToAsk(p, now))]

(* "Marks a transaction as requested"; another request for it is given up. *)
RequestedTx(p, tx, expiry) ==
    /\ known' = IF known[tx][p] = none \/ known[tx][p].state # "CANDIDATE" THEN known
                ELSE [known EXCEPT ![tx] = [q \in Peers |->
                        IF q = p THEN [state |-> "REQUESTED", time |-> expiry]
                        ELSE IF @[q] # none /\ @[q].state = "REQUESTED"
                        THEN [state |-> "COMPLETED", time |-> 0] ELSE @[q]]]
    /\ UNCHANGED order /\ reply' = none

(* "Converts a CANDIDATE or REQUESTED announcement to a COMPLETED one." *)
ReceivedResponse(p, tx) ==
    /\ Becomes([known EXCEPT ![tx][p] =
                  IF @ = none THEN none ELSE [state |-> "COMPLETED", time |-> 0]])
    /\ reply' = none

(* "Deletes all announcements for a given peer", or "a given txhash" *)
DisconnectedPeer(p) ==
    /\ Becomes([tx \in Txs |-> [known[tx] EXCEPT ![p] = none]])
    /\ reply' = none
ForgetTxHash(tx) ==
    /\ Becomes([known EXCEPT ![tx] = [p \in Peers |-> none]])
    /\ reply' = none

Next ==
    \/ \E p \in Peers, tx \in Txs, t \in 0..MaxTime : ReceivedInv(p, tx, t) \/ RequestedTx(p, tx, t)
    \/ \E p \in Peers, now \in 0..MaxTime : GetRequestable(p, now)
    \/ \E p \in Peers, tx \in Txs : ReceivedResponse(p, tx)
    \/ \E p \in Peers : DisconnectedPeer(p)
    \/ \E tx \in Txs : ForgetTxHash(tx)

Spec == Init /\ [][Next]_<<known, order, reply>>
=============================================================================
