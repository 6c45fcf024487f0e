----------------------------- MODULE LootLedger -----------------------------
(***************************************************************************)
(* What the game promises about loot, whatever the sessions, the ticks and *)
(* the requests do: an object is unborn, then lies on a floor, then is in  *)
(* the bag of one player, then is scored by that same player, and never    *)
(* goes back or changes hands.                                             *)
(***************************************************************************)
CONSTANTS
    Loot,
    Players,
    Nobody    \* not a player: whose an object is while no bag holds it

VARIABLES
    stage,  \* where an object is in its life
    owner   \* the player whose bag took it

Stages == {"unborn", "floor", "bag", "scored"}

LedgerInit ==
    /\ stage = [l \in Loot |-> "unborn"]
    /\ owner = [l \in Loot |-> Nobody]

Spawn(S) ==
    /\ \A l \in S : stage[l] = "unborn"
    /\ stage' = [l \in Loot |-> IF l \in S THEN "floor" ELSE stage[l]]
    /\ UNCHANGED owner

Pick(l, p) ==
    /\ stage[l] = "floor"
    /\ stage' = [stage EXCEPT ![l] = "bag"]
    /\ owner' = [owner EXCEPT ![l] = p]

\* A bag is scored as a whole.
Bank(p) ==
    /\ stage' = [l \in Loot |->
                    IF stage[l] = "bag" /\ owner[l] = p THEN "scored" ELSE stage[l]]
    /\ UNCHANGED owner

LedgerNext ==
    \/ \E S \in SUBSET Loot : Spawn(S)
    \/ \E l \in Loot, p \in Players : Pick(l, p)
    \/ \E p \in Players : Bank(p)

LedgerSpec == LedgerInit /\ [][LedgerNext]_<<stage, owner>>
=============================================================================
