----------------------------- MODULE CoinsView ------------------------------
(***************************************************************************)
(* CCoinsViewCache (coins.cpp): a cache of coins over a base view, with    *)
(* the flags that say what its base has to be told.  Every function but    *)
(* Flush and Sync is about one outpoint, so the operators work on one      *)
(* entry of the cache and on what the base has for that outpoint.  A coin  *)
(* is told by its height, the only thing in which two coins of one         *)
(* outpoint differ.                                                        *)
(***************************************************************************)
EXTENDS Integers

CONSTANT none          \* no entry in the cache

ASSUME NoneAssumption == none \notin [coin : Int, dirty : BOOLEAN, fresh : BOOLEAN]

Spent == 0             \* Coin::Clear(); also what a view without the coin returns
Thrown == -1           \* the std::logic_error of AddCoin and BatchWrite

Entry(coin, dirty, fresh) == [coin |-> coin, dirty |-> dirty, fresh |-> fresh]

FetchCoin(e, base) ==
    IF e = none /\ base # Spent THEN Entry(base, FALSE, FALSE) ELSE e

GetCoin(e, base) == IF e = none THEN base ELSE e.coin

HaveCoin(e, base) == GetCoin(e, base) # Spent

AddCoinAlwaysFresh(e, coin, possible_overwrite) ==
    IF ~possible_overwrite /\ e # none /\ e.coin # Spent THEN Entry(Thrown, TRUE, FALSE)
    ELSE Entry(coin, TRUE, ~possible_overwrite)
AddCoin(e, coin, possible_overwrite) ==
    IF ~possible_overwrite /\ e # none /\ e.coin # Spent THEN Entry(Thrown, TRUE, FALSE)
    ELSE Entry(coin, TRUE, \/ ~possible_overwrite /\ (e = none \/ ~e.dirty)
                           \/ e # none /\ e.fresh)

SpendCoinStillFresh(e, base) ==
    LET it == FetchCoin(e, base)
    IN  IF it = none THEN none ELSE Entry(Spent, TRUE, it.fresh)
SpendCoin(e, base) ==
    LET it == FetchCoin(e, base)
    IN  IF it = none \/ it.fresh THEN none ELSE Entry(Spent, TRUE, FALSE)

(* BatchWrite: what an entry of the child view does to ours. *)
BatchWriteFresh(us, it) ==
    IF it = none \/ ~it.dirty THEN us
    ELSE IF us = none THEN (IF it.fresh /\ it.coin = Spent THEN none ELSE it)
    ELSE IF it.fresh /\ us.coin # Spent THEN Entry(Thrown, TRUE, FALSE)
    ELSE IF us.fresh /\ it.coin = Spent THEN none
    ELSE Entry(it.coin, TRUE, us.fresh \/ it.fresh)
BatchWrite(us, it) ==
    IF it = none \/ ~it.dirty THEN us
    ELSE IF us = none THEN (IF it.fresh /\ it.coin = Spent THEN none ELSE it)
    ELSE IF it.fresh /\ us.coin # Spent THEN Entry(Thrown, TRUE, FALSE)
    ELSE IF us.fresh /\ it.coin = Spent THEN none
    ELSE Entry(it.coin, TRUE, us.fresh)

(* CoinsViewCacheCursor::NextAndMaybeErase, when the cache is kept. *)
NextStillFresh(e) == IF e.coin = Spent THEN none ELSE Entry(e.coin, FALSE, e.fresh)
NextAndMaybeErase(e) == IF e.coin = Spent THEN none ELSE Entry(e.coin, FALSE, FALSE)

(* Only a clean entry can be dropped. *)
Uncache(e) == IF e # none /\ ~e.dirty /\ ~e.fresh THEN none ELSE e
=============================================================================
