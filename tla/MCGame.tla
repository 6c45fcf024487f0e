------------------------------- MODULE MCGame -------------------------------
(* Instances of Game for model checking. *)
EXTENDS Game

CONSTANTS m1, m2

TwoMaps == {m1, m2}
OneMap == {m1}

\* The dogs of the first map carry one object, those of the others two.
SmallBags == [m \in Maps |-> IF m = m1 THEN 1 ELSE 2]
LargeBags == [m \in Maps |-> 2]
=============================================================================
