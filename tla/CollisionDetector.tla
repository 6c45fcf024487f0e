------------------------- MODULE CollisionDetector -------------------------
(***************************************************************************)
(* What a dog meets where Movement takes it, and in which order:           *)
(* TryCollectPoint and FindGatherEvents (collision_detector.cpp), with the *)
(* providers of the loot and of the offices (collision_detector.h), which  *)
(* a tick asks after all dogs have moved (application.h:136-157).          *)
(*                                                                         *)
(* Lengths are in tenths, as in Movement.  The code divides by the square  *)
(* of the length of a dog's segment; here both sides are multiplied by it, *)
(* so a time is a fraction num / den.                                      *)
(* Abstracted: the rounding errors of doubles.  The tolerance of the sort  *)
(* is 1 / Tolerance, far larger than that of the code, so that times that  *)
(* close occur in a small town.                                            *)
(***************************************************************************)
EXTENDS Movement

CONSTANTS
    Loot,      \* Game::loot_objects_: the position of each object
    Offices,   \* the positions of the offices of all maps
    Others,    \* bound: segments that another dog may run in the same tick
    Tolerance  \* EPSILON is 1 / Tolerance

Segments == [start : Points, end : Points]

ASSUME ItemsAssumption == Loot \in Seq(Points) /\ Offices \in Seq(Points)
ASSUME OthersAssumption == Others \subseteq Segments
ASSUME ToleranceAssumption == Tolerance \in Nat \ {0}

GathererWidth == 6

\* LootGathererProvider::GetItem and OfficeGathererProvider::GetItem.
LootItems == [i \in DOMAIN Loot |-> [position |-> Loot[i], width |-> 0]]
OfficeItems == [i \in DOMAIN Offices |-> [position |-> Offices[i], width |-> 5]]

\* GetGatherer: the segment of the dog, and the one of another.
Dog == [start |-> startCoords, end |-> coords]
Gatherers(other) == <<Dog, other>>
-----------------------------------------------------------------------------
(* Geometry.                                                               *)

Minus(p, q) == [x |-> p.x - q.x, y |-> p.y - q.y]
Dot(u, v) == u.x * v.x + u.y * v.y
Cross(u, v) == u.x * v.y - u.y * v.x

(* Slips that the code could contain and does not.                         *)

\* The ends of the segment are not part of it.
CollectedInside(a, b, item) ==
    LET u == Minus(item.position, a)
        v == Minus(b, a)
        radius == GathererWidth + item.width
    IN  /\ Dot(u, v) > 0
        /\ Dot(u, v) < Dot(v, v)
        /\ Dot(u, u) * Dot(v, v) - Dot(u, v) * Dot(u, v) =< radius * radius * Dot(v, v)

\* The distance from the start is taken for that from the segment.
CollectedAround(a, b, item) ==
    LET u == Minus(item.position, a)
        v == Minus(b, a)
        radius == GathererWidth + item.width
    IN  /\ Dot(u, v) >= 0
        /\ Dot(u, v) =< Dot(v, v)
        /\ Dot(u, u) =< radius * radius

\* TryCollectPoint and IsCollected, for a segment that is not a point:
\* proj_ratio is Dot(u, v) / Dot(v, v), and sq_distance is
\* Dot(u, u) - Dot(u, v)^2 / Dot(v, v).
IsCollected(a, b, item) ==
    LET u == Minus(item.position, a)
        v == Minus(b, a)
        radius == GathererWidth + item.width
    IN  /\ Dot(u, v) >= 0
        /\ Dot(u, v) =< Dot(v, v)
        /\ Dot(u, u) * Dot(v, v) - Dot(u, v) * Dot(u, v) =< radius * radius * Dot(v, v)
-----------------------------------------------------------------------------
(* Events.                                                                 *)

\* The items that a segment meets, in their order; a dog that stood meets none.
Met(a, b, items) ==
    LET met[i \in 0 .. Len(items)] ==
            IF i = 0 THEN <<>>
            ELSE IF IsCollected(a, b, items[i]) THEN Append(met[i - 1], i) ELSE met[i - 1]
    IN  IF a = b THEN <<>> ELSE met[Len(items)]

Event(gatherers, g, items, i) ==
    LET v == Minus(gatherers[g].end, gatherers[g].start)
    IN  [item |-> i, gatherer |-> g, den |-> Dot(v, v),
         num |-> Dot(Minus(items[i].position, gatherers[g].start), v)]

EventsOf(gatherers, g, items) ==
    LET met == Met(gatherers[g].start, gatherers[g].end, items)
    IN  [k \in DOMAIN met |-> Event(gatherers, g, items, met[k])]

\* The events before they are sorted.
RawEvents(gatherers, items) ==
    FlattenSeq([g \in DOMAIN gatherers |-> EventsOf(gatherers, g, items)])

\* left.time < right.time - EPSILON
Before(e, f) == Tolerance * e.num * f.den < Tolerance * f.num * e.den - e.den * f.den

\* A slip: the events are left dog by dog.
InsertUnsorted(sorted, e) == Append(sorted, e)

\* std::sort of up to 16 events is an insertion sort: an event that comes before
\* the first one is put in front of all; any other goes left from the end, past
\* the events that it comes before.
Insert(sorted, e) ==
    IF sorted = <<>> \/ Before(e, sorted[1]) THEN <<e>> \o sorted
    ELSE LET stops == {k \in DOMAIN sorted : ~Before(e, sorted[k])}
             k == CHOOSE k \in stops : \A j \in stops : j =< k
         IN  InsertAt(sorted, k + 1, e)

\* FindGatherEvents
Events(gatherers, items) ==
    LET raw == RawEvents(gatherers, items)
        sorted[k \in 0 .. Len(raw)] ==
            IF k = 0 THEN <<>> ELSE Insert(sorted[k - 1], raw[k])
    IN  sorted[Len(raw)]
-----------------------------------------------------------------------------
\* A point is near a segment: between the lines through its ends that are
\* square to it, and not farther from the line through it than the radius.
\* The area of the parallelogram of u and v is that distance times the length.
NearSegment(a, b, c, radius) ==
    /\ Dot(Minus(c, a), Minus(b, a)) >= 0
    /\ Dot(Minus(c, b), Minus(a, b)) >= 0
    /\ Cross(Minus(c, a), Minus(b, a)) * Cross(Minus(c, a), Minus(b, a))
         =< radius * radius * Dot(Minus(b, a), Minus(b, a))

\* TryCollectPoint gathers exactly what is near the segment, though it has the
\* distance from a difference of squares (collision_detector.cpp:12-16).
GathersWhatIsNear ==
    startCoords # coords =>
        \A items \in {LootItems, OfficeItems} : \A i \in DOMAIN items :
            IsCollected(startCoords, coords, items[i])
              <=> NearSegment(startCoords, coords, items[i].position,
                              GathererWidth + items[i].width)

\* A dog meets in two short ticks what it meets in one that lasts as long as
\* both: nothing is missed where one segment ends and the next one begins, which
\* is why both ends belong to it, and the period of the ticks does not decide
\* what is gathered (collision_detector.h:13-15, application.h:61-136).
GatheringAddsUp ==
    moving => \A a, b \in Steps : a + b \in Steps =>
        LET o == CHOOSE o \in Orders(coords) : TRUE
            half == Moved(dir, coords, a, o)
            oo == CHOOSE oo \in Orders(half) : TRUE
            there == Moved(dir, half, b, oo)
            AllMet(p, q, items) == Range(Met(p, q, items))
        IN  \A items \in {LootItems, OfficeItems} :
                AllMet(coords, Moved(dir, coords, a + b, o), items)
                  = AllMet(coords, half, items) \cup AllMet(half, there, items)

\* Of two events in a row, the second is not before the first by more than the
\* tolerance, although the comparison that the sort is given is not an order
\* that std::sort allows (collision_detector.cpp:39-42).
NeighboursInOrder ==
    \A other \in Others, items \in {LootItems, OfficeItems} :
        LET events == Events(Gatherers(other), items)
        IN  \A k \in 1 .. Len(events) - 1 : ~Before(events[k + 1], events[k])
=============================================================================
