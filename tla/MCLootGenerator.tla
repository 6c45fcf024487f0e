-------------------------- MODULE MCLootGenerator --------------------------
(* Instances of LootGenerator for model checking: in a unit of time a      *)
(* quarter of the loot comes, so that a session that is short of one waits *)
(* for three units and one that is short of three for one.                 *)
EXTENDS LootGenerator

TickLengths == {0, 1, 4}
=============================================================================
