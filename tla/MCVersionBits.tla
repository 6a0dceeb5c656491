--------------------------- MODULE MCVersionBits ---------------------------
(* Instances of VersionBits for TLC. *)
EXTENDS VersionBits

(* A branch of eight blocks and a fork from its fourth. *)
MCParent == <<0, 1, 2, 3, 4, 5, 6, 7, 4, 9>>

(* Only the time of a block that ends a period is looked at, and no signal *)
(* of the first period.                                                    *)
MCHeaders ==
    [b \in DOMAIN MCParent |->
        [later : IF b \in {2, 4, 6} THEN {0, 1} ELSE {0},
         signal : CASE b <= 2 -> {FALSE} [] b \in {4, 6, 9} -> BOOLEAN [] OTHER -> {TRUE}]]

Deployment(begin, end, height) ==
    [begin |-> begin, end |-> end, min_activation_height |-> height,
     period |-> 2, threshold |-> 2]

(* A deployment that can start, lock in, fail and wait for its height; and *)
(* the one of the main network.                                            *)
MCDeployments == {Deployment(1, 2, 0), Deployment(0, 3, 8), Deployment(NEVER_ACTIVE, 3, 0)}
MCWarning == [begin |-> 0, end |-> 4, min_activation_height |-> 0,
              period |-> 2, threshold |-> 1]
=============================================================================
