---------------------------- MODULE AddressLedger ----------------------------
(***************************************************************************)
(* What a wallet promises about the addresses it gives out, in two sets:   *)
(* the keys a restart can still spend with, and the keys whose address the *)
(* user has.  An address is given out only for a durable key, and neither  *)
(* set ever loses a member.                                                *)
(***************************************************************************)
CONSTANT Keys
VARIABLES durable, handed

Init == durable = {} /\ handed = {}

(* Records reach the file. *)
Save == /\ durable' \in SUBSET Keys /\ durable \subseteq durable'
        /\ UNCHANGED handed

(* The address of k is given to the user. *)
HandOut(k) == /\ k \in durable
              /\ handed' = handed \cup {k}
              /\ UNCHANGED durable

Next == Save \/ \E k \in Keys : HandOut(k)
Spec == Init /\ [][Next]_<<durable, handed>>
=============================================================================
