----------------------------- MODULE MCMovement -----------------------------
(* A small town for model checking Movement and CollisionDetector: a       *)
(* crossing, a road that goes on as another one, a corner, a loop, roads   *)
(* given in both directions, loot on the roads and at their ends, and an   *)
(* office beside a road.                                                   *)
EXTENDS CollisionDetector

P(a, b) == [x |-> a, y |-> b]
AlongX(a, b, c) == [axis |-> "x", from |-> P(a, c), to |-> P(b, c)]
AlongY(a, b, c) == [axis |-> "y", from |-> P(c, a), to |-> P(c, b)]

Town == {AlongX(-1, 1, 0), AlongX(3, 1, 0), AlongY(-1, 1, 1), AlongY(0, 1, 3),
         AlongX(1, 3, 1), AlongY(2, 0, -1)}

Anywhere == RandomLocations
ShortSteps == {0, 3, 6, 9}

ASSUME ShortTicks

\* Two objects lie in one place, and two closer than the tolerance.
TownLoot == <<P(20, 0), P(10, 0), P(10, 10), P(0, 0), P(10, 0), P(13, 0)>>
TownOffices == <<P(10, 20), P(0, 10)>>
Neighbour == {[start |-> P(0, 0), end |-> P(20, 0)], [start |-> P(10, 10), end |-> P(10, 0)]}
=============================================================================
