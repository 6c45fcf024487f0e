------------------------------ MODULE Movement ------------------------------
(***************************************************************************)
(* How a dog runs along the roads of a map: the road map made by the       *)
(* loader (json_loader.cpp:21-57), the loop over the roads of a tick       *)
(* (application.h:52-118, repeated in request_handler.cpp) and the dog's   *)
(* position, segment and speed.                                            *)
(*                                                                         *)
(* Lengths are integers, in tenths of the unit of the map: a road is 8     *)
(* wide (ROAD_WIDTH is 0.8) and reaches 4 beyond its ends.  What a dog     *)
(* runs in a tick, speed times time, is the input of the tick.             *)
(* Abstracted: the rounding errors of doubles, and with them the epsilons, *)
(* which are smaller than the distance of any two positions of a map.      *)
(***************************************************************************)
EXTENDS Integers, FiniteSets, SequencesExt

CONSTANTS
    Roads,   \* the roads of the map: axis, from and to
    Spawns,  \* where a dog may begin: the points of GetLocation
    DogSpeed, \* Map::default_dog_speed_: tenths of a unit in a second
    Steps    \* bound: how far a dog may run in a tick

Unit == 10
HalfWidth == 4
Points == [x : Int, y : Int]

ASSUME RoadsAssumption ==
    /\ IsFiniteSet(Roads)
    /\ \A r \in Roads : /\ r.axis \in {"x", "y"} /\ r.from \in Points /\ r.to \in Points
                        /\ \A c \in {"x", "y"} \ {r.axis} : r.from[c] = r.to[c]
ASSUME StepsAssumption == Steps \subseteq Nat
ASSUME SpeedAssumption == DogSpeed \in Nat

\* No tick leads past a whole point, from which the roads that begin there are
\* not seen before the next tick (application.h:53-58).
ShortTicks == \A step \in Steps : step < Unit

Directions == {"L", "R", "U", "D"}
Axis(d) == IF d \in {"L", "R"} THEN "x" ELSE "y"
Sign(d) == IF d \in {"R", "D"} THEN 1 ELSE -1

Larger(a, b) == IF a > b THEN a ELSE b
Smaller(a, b) == IF a < b THEN a ELSE b

\* GetRandomLocation: every whole point of every road.
RandomLocations ==
    UNION {[x : Smaller(r.from.x, r.to.x) .. Larger(r.from.x, r.to.x),
            y : Smaller(r.from.y, r.to.y) .. Larger(r.from.y, r.to.y)] : r \in Roads}

ASSUME SpawnsAssumption == Spawns \subseteq RandomLocations

VARIABLES
    coords,       \* Dog::coords_
    startCoords,  \* Dog::start_coords_
    dir,          \* Dog::dir_, or "none" for any other text
    moving        \* Dog::speed_ is not zero

vars == <<coords, startCoords, dir, moving>>
-----------------------------------------------------------------------------
(* The road map.                                                           *)

\* A slip: a conversion to int, which cuts the fraction off.
Truncate(v) == IF v >= 0 THEN v \div Unit ELSE -((-v) \div Unit)

\* std::round, which rounds halves away from zero.
Round(v) ==
    LET half == Unit \div 2
    IN  IF v >= 0 THEN (v + half) \div Unit ELSE -((half - v) \div Unit)

Cell(p) == [x |-> Round(p.x), y |-> Round(p.y)]

\* A slip that the code could contain and does not: a road that leads backwards
\* is not entered into the road map.
ForwardCells(r) ==
    {[r.from EXCEPT ![r.axis] = i] : i \in r.from[r.axis] .. r.to[r.axis] + 1}

\* LoadRoad: both loops run for a road that does not lead backwards, so it is
\* found one cell beyond its end, too.
CellsOf(r) ==
    LET a == r.from[r.axis]
        b == r.to[r.axis]
    IN  {[r.from EXCEPT ![r.axis] = i] : i \in Smaller(a, b) .. (IF a =< b THEN b + 1 ELSE a)}

RoadMap(cell) == {r \in Roads : cell \in CellsOf(r)}
-----------------------------------------------------------------------------
(* The loop over the roads, in the direction of the dog: what lies ahead    *)
(* has the larger coordinate, whatever the direction.                       *)

Along(d, p) == Sign(d) * p[Axis(d)]

(* Slips that the code could contain and does not.                         *)

\* ROAD_WIDTH for ROAD_WIDTH / 2.
LimitOfWidth(d, r) ==
    Unit * Larger(Sign(d) * r.from[Axis(d)], Sign(d) * r.to[Axis(d)]) + 2 * HalfWidth

\* The start of a road is taken for its end.
LimitOfStart(d, r) == Unit * Sign(d) * r.from[Axis(d)] + HalfWidth

\* Where a road can lead a dog, which may be short of where the dog is.
Limit(d, r) ==
    Unit * Larger(Sign(d) * r.from[Axis(d)], Sign(d) * r.to[Axis(d)]) + HalfWidth

\* A road that goes far enough does not take back that another did not.
VisitAndStop(d, expected, at, r) ==
    IF expected =< at.reached THEN at
    ELSE IF expected > Limit(d, r)
    THEN [reached |-> Larger(at.reached, Limit(d, r)), stop |-> TRUE]
    ELSE [reached |-> expected, stop |-> at.stop]

\* One road of the loop: current_ and needed_to_stop after it.
Visit(d, expected, at, r) ==
    IF expected =< at.reached THEN at
    ELSE IF expected > Limit(d, r)
    THEN [reached |-> Larger(at.reached, Limit(d, r)), stop |-> TRUE]
    ELSE [reached |-> expected, stop |-> FALSE]

\* The loop over the roads of the dog's cell, a set of pointers in any order:
\* how far the dog is after k of them.
Run(d, p, step, order) ==
    LET after[k \in 0 .. Len(order)] ==
            IF k = 0 THEN [reached |-> Along(d, p), stop |-> FALSE]
            ELSE Visit(d, Along(d, p) + step, after[k - 1], order[k])
    IN  after[Len(order)]

Orders(p) == SetToSeqs(RoadMap(Cell(p)))

\* Where a running dog is after the loop.
Moved(d, p, step, order) ==
    [p EXCEPT ![Axis(d)] = Sign(d) * Run(d, p, step, order).reached]
-----------------------------------------------------------------------------
Init ==
    /\ coords \in {[x |-> Unit * p.x, y |-> Unit * p.y] : p \in Spawns}
    /\ startCoords = coords
    /\ dir = "U"
    /\ moving = FALSE

\* AddDog takes the speed of the map as an int: a speed below one is none.
NominalSpeed == DogSpeed \div Unit

SetDirection(d) ==
    /\ dir' = d
    /\ moving' = (d \in Directions /\ NominalSpeed > 0)
    /\ UNCHANGED <<coords, startCoords>>

\* A tick in which the dog can run the length step.
Tick(step) ==
    /\ IF moving
       THEN \E order \in Orders(coords) :
              /\ coords' = Moved(dir, coords, step, order)
              /\ moving' = ~Run(dir, coords, step, order).stop
       ELSE UNCHANGED <<coords, moving>>
    /\ startCoords' = coords
    /\ UNCHANGED dir

Next ==
    \/ \E d \in Directions \cup {"none"} : SetDirection(d)
    \/ \E step \in Steps : Tick(step)

Spec == Init /\ [][Next]_vars
-----------------------------------------------------------------------------
\* Every variable has its type.
TypeOK ==
    /\ coords \in Points /\ startCoords \in Points
    /\ dir \in Directions \cup {"none"}
    /\ moving \in BOOLEAN
    /\ moving => dir \in Directions /\ NominalSpeed > 0

\* The ground within a distance of a road.
Covers(r, p, distance) ==
    \A c \in {"x", "y"} :
        /\ p[c] >= Unit * Smaller(r.from[c], r.to[c]) - distance
        /\ p[c] =< Unit * Larger(r.from[c], r.to[c]) + distance

\* Dogs stay at roads, although the roads of a dog are those of the whole point
\* that its position is rounded to (application.h:53-58), and a road is also
\* found one point beyond its end (json_loader.cpp:28-35).  They do not stay
\* within HalfWidth: a dog that turns where its position is rounded to the next
\* road, and is not on it yet, runs beside it.
AtRoads == \E r \in Roads : Covers(r, coords, Unit \div 2)

\* The result of the loop does not depend on the order of the roads, which is
\* that of their addresses (model.h:197, application.h:68-78).
RoadOrderIsIrrelevant ==
    dir \in Directions =>
        \A step \in Steps : \A o1, o2 \in Orders(coords) :
            Run(dir, coords, step, o1) = Run(dir, coords, step, o2)

\* A dog with a speed changes place or is stopped: one whose point has no roads
\* would do neither and be active for ever (application.h:58, model.h:326).
RunsOrStops ==
    moving => \A step \in Steps \ {0} : \A o \in Orders(coords) :
        Run(dir, coords, step, o).stop \/ Moved(dir, coords, step, o) # coords

\* Two short ticks lead as far as one that lasts as long as both, so that the
\* period of the ticks does not decide where dogs go (application.h:61-118).
TicksAddUp ==
    moving => \A a, b \in Steps : a + b \in Steps =>
        LET o == CHOOSE o \in Orders(coords) : TRUE
            half == Moved(dir, coords, a, o)
            oo == CHOOSE oo \in Orders(half) : TRUE
        IN  Moved(dir, half, b, oo) = Moved(dir, coords, a + b, o)

\* A tick stops a dog only where no road that it is on leads on, at a crossing
\* or where one road continues another (application.h:70-77).
StopsOnlyAtDeadEnd ==
    [][moving /\ ~moving' /\ dir' = dir =>
         ~ \E r \in Roads : /\ Covers(r, coords', HalfWidth)
                            /\ Covers(r, [coords' EXCEPT ![Axis(dir)] = @ + Sign(dir)], HalfWidth)]_vars
=============================================================================
