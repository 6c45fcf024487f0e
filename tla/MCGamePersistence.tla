------------------------- MODULE MCGamePersistence --------------------------
(* Instances of GamePersistence for model checking. *)
EXTENDS GamePersistence

CONSTANTS m1, m2

TwoMaps == {m1, m2}
OneMap == {m1}
LargeBags == [m \in Maps |-> 2]
ConfigOrder == [m \in Maps |-> IF m = m1 THEN 1 ELSE 2]
=============================================================================
